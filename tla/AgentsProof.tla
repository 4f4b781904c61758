----------------------------- MODULE AgentsProof -----------------------------
(***************************************************************************)
(* Proofs about Agents and AgentMessages.  First Agents: the types, and    *)
(* that one instance at a time manages the agent, for any number of        *)
(* instances and any bounds.                                               *)
(*                                                                         *)
(* SingleManager is not inductive: it does not say why another instance    *)
(* cannot get the lease.  LeaseHeld adds that whoever manages holds the    *)
(* lease, unexpired, and that a claim on its way into the table either has *)
(* lost the lease or has it unexpired.  Two managers would both hold it.   *)
(***************************************************************************)
EXTENDS Agents, AgentMessages, FiniteSetTheorems, TLAPS

LeaseHeld ==
    disturbed \/
        /\ \A i \in Instances : managed[i] # "no" => lease = Held(i)
        /\ \A i \in Instances : dog[i] = "enter" /\ lease.owner = i => lease.fresh

IInv == TypeOK /\ LeaseHeld

USE AgentsAssumption

-----------------------------------------------------------------------------
\* The WHERE clause of TryAcquireAgentLease: as long as nothing disturbed the
\* leases, who gets one finds no other manager.
LEMMA GrantedAlone ==
    ASSUME IInv, ~disturbed, NEW i \in Instances, Grantable(i),
           NEW j \in Instances, managed[j] # "no"
    PROVE  j = i
<1>1. lease = Held(j) BY DEF IInv, LeaseHeld
<1> QED BY <1>1 DEF Grantable, Held, NoOne

\* A lease statement of i, whatever became of it, that leaves the entries of
\* the other instances alone.
LEMMA LeaseStatement ==
    ASSUME IInv, NEW i \in Instances,
           lease' = lease \/ (Grantable(i) /\ lease' = Held(i)),
           \A j \in Instances \ {i} : managed'[j] = managed[j] /\ dog'[j] = dog[j],
           managed'[i] # "no" => managed[i] # "no" \/ lease' = Held(i),
           dog'[i] = "enter" => dog[i] = "enter" \/ lease' = Held(i),
           disturbed' = disturbed
    PROVE  LeaseHeld'
<1> SUFFICES ASSUME ~disturbed PROVE LeaseHeld'
  BY DEF LeaseHeld
<1>1. CASE lease' = lease
  BY <1>1 DEF IInv, LeaseHeld, Held
<1>2. CASE Grantable(i) /\ lease' = Held(i)
  <2>1. \A j \in Instances : managed'[j] # "no" => j = i
    BY <1>2, GrantedAlone
  <2> QED BY <1>2, <2>1 DEF LeaseHeld, Held
<1> QED BY <1>1, <1>2

\* The end of a process.
LEMMA VanishLease ==
    ASSUME IInv, NEW i \in Instances, Vanish(i)
    PROVE  LeaseHeld'
<1> SUFFICES ASSUME ~disturbed PROVE LeaseHeld'
  BY DEF LeaseHeld, Vanish
<1>1. managed'[i] = "no" /\ dog'[i] = "start"
  BY DEF IInv, TypeOK, ProcessTypes, Vanish
<1>2. \A j \in Instances \ {i} : managed'[j] = managed[j] /\ dog'[j] = dog[j]
  BY DEF IInv, TypeOK, ProcessTypes, Vanish
<1>3. \A j \in Instances \ {i} : lease.owner = j => lease' = lease
  BY DEF IInv, TypeOK, LeaseTypes, Vanish
<1>4. \A j \in Instances \ {i} : lease'.owner = j => lease.owner = j
  BY DEF IInv, TypeOK, LeaseTypes, Vanish, Gone
<1>5. \A j \in Instances : managed[j] # "no" => lease = Held(j) /\ lease.owner = j
  BY DEF IInv, LeaseHeld, Held
<1>6. \A j \in Instances : dog[j] = "enter" /\ lease.owner = j => lease.fresh
  BY DEF IInv, LeaseHeld
<1> QED BY <1>1, <1>2, <1>3, <1>4, <1>5, <1>6 DEF LeaseHeld

-----------------------------------------------------------------------------
(* Types.                                                                  *)

LEMMA InitTypes == Init => TypeOK
<1> SUFFICES ASSUME Init PROVE TypeOK
  OBVIOUS
<1>1. LeaseTypes BY DEF Init, LeaseTypes, Unheld
<1>2. ProcessTypes
  <2>1. /\ reg \in {"none", "active", "disabled"}
        /\ alive \in [Instances -> BOOLEAN]
        /\ waking \in [Instances -> BOOLEAN] /\ disturbed \in BOOLEAN
    BY DEF Init
  <2>2. /\ managed \in [Instances -> {"no", "yes", "closed"}]
        /\ line \in [Instances -> {"off", "up", "dead"}]
        /\ beat \in [Instances -> {"idle", "renew", "lost"}]
        /\ dog \in [Instances -> {"start", "idle", "claim", "enter", "open"}]
    BY DEF Init
  <2>3. \A i \in Instances : alive[i] /\ ~waking[i]
    BY DEF Init
  <2> QED BY <2>1, <2>2, <2>3 DEF ProcessTypes
<1>3. RequestTypes BY DEF Init, RequestTypes
<1> QED BY <1>1, <1>2, <1>3 DEF TypeOK

\* Whatever a statement on the lease row does, the row is one of these.
LEMMA LeaseValues ==
    ASSUME LeaseTypes, NEW i \in Instances,
           \/ lease' \in {lease, Held(i), Unheld}
           \/ lease' = [lease EXCEPT !.fresh = FALSE]
           \/ lease' = [lease EXCEPT !.owner = IF @ = i THEN Gone ELSE @]
    PROVE  LeaseTypes'
<1>1. CASE lease' = lease BY <1>1 DEF LeaseTypes
<1>2. CASE lease' = Held(i) BY <1>2 DEF LeaseTypes, Held
<1>3. CASE lease' = Unheld BY <1>3 DEF LeaseTypes, Unheld
<1>4. CASE lease' = [lease EXCEPT !.fresh = FALSE] BY <1>4 DEF LeaseTypes
<1>5. CASE lease' = [lease EXCEPT !.owner = IF @ = i THEN Gone ELSE @]
  BY <1>5 DEF LeaseTypes, Gone, NoOne
<1> QED BY <1>1, <1>2, <1>3, <1>4, <1>5

\* The end of a process.
LEMMA VanishTypes ==
    ASSUME TypeOK, NEW i \in Instances, Vanish(i)
    PROVE  TypeOK'
<1>1. LeaseTypes' BY LeaseValues DEF TypeOK, Vanish
<1>2. ProcessTypes' BY DEF TypeOK, ProcessTypes, Vanish
<1>3. RequestTypes' BY DEF TypeOK, ProcessTypes, RequestTypes, Vanish, Idle
<1> QED BY <1>1, <1>2, <1>3 DEF TypeOK

\* The row of the lease, action by action.
LEMMA EveryLease ==
    ASSUME LeaseTypes, Next
    PROVE  LeaseTypes'
<1>1. ASSUME NEW i \in Instances,
             \/ Upsert(i) \/ Close(i) \/ Open(i) \/ Stop(i) \/ Disable(i) \/ Beat(i)
             \/ List(i) \/ Enter(i) \/ OpenClaimed(i) \/ Restart(i) \/ LineDies(i)
             \/ Notice(i) \/ Revive(i)
      PROVE  LeaseTypes'
  <2>1. lease' = lease
    BY <1>1 DEF Upsert, Close, Open, Stop, Disable, Beat, List, Enter, OpenClaimed,
                Restart, LineDies, Notice, Revive, agent
  <2> QED BY <2>1, <1>1, LeaseValues
<1>2. ASSUME NEW i \in Instances, Manage(i) PROVE LeaseTypes'
  <2>1. lease' \in {lease, Held(i)} BY <1>2 DEF Manage, StartManaging, Either
  <2> QED BY <2>1, <1>2, LeaseValues
<1>3. ASSUME NEW i \in Instances, Release(i) PROVE LeaseTypes'
  <2>1. lease' \in {lease, Unheld} BY <1>3 DEF Release, Either
  <2> QED BY <2>1, <1>3, LeaseValues
<1>4. ASSUME NEW i \in Instances, Renew(i) \/ Claim(i) PROVE LeaseTypes'
  <2>1. lease' \in {lease, Held(i)} BY <1>4 DEF Renew, Claim, Either
  <2> QED BY <2>1, <1>4, LeaseValues
<1>5. ASSUME NEW i \in Instances, Lose(i) \/ Crash(i) PROVE LeaseTypes'
  BY <1>5, LeaseValues DEF Lose, Crash, Vanish
<1>6. ASSUME NEW i \in Instances, Expire(i) PROVE LeaseTypes'
  BY <1>6, LeaseValues DEF Expire
<1>7. CASE Lapse \/ Stall
  BY <1>7 DEF Lapse, Stall, LeaseTypes
<1> QED
  BY <1>1, <1>2, <1>3, <1>4, <1>5, <1>6, <1>7 DEF Next, Serve, Heartbeat, Watchdog

\* Requests of the API and messages.
LEMMA RequestsKeepTypes ==
    ASSUME ProcessTypes, RequestTypes, NEW i \in Instances,
           Upsert(i) \/ Close(i) \/ Serve(i) \/ Notice(i) \/ Revive(i)
    PROVE  ProcessTypes' /\ RequestTypes'
<1> USE DEF ProcessTypes, RequestTypes, agent, machine, Either
<1>1. CASE Upsert(i) BY <1>1 DEF Upsert
<1>2. CASE Close(i) BY <1>2 DEF Close, Deactivate
<1>3. CASE Manage(i)
  <2>1. ProcessTypes'
    <3>1. UNCHANGED <<reg, line, machine, disturbed>>
          /\ alive[i] /\ managed' \in [Instances -> {"no", "yes", "closed"}]
          /\ \A j \in Instances \ {i} : managed'[j] = managed[j]
      BY <1>3 DEF Manage, Serving, StartManaging
    <3> QED BY <3>1
  <2>2. alive[i] /\ UNCHANGED alive /\ request \in [op : {"start"}, at : {i}, pc : {"manage"}]
    BY <1>3 DEF Manage, Serving
  <2>3. request' = Idle \/ request' = [request EXCEPT !.pc = "open"]
    BY <1>3 DEF Manage, Step
  <2>4. RequestTypes' BY <2>2, <2>3
  <2> QED BY <2>1, <2>4
<1>4. CASE Open(i)
  <2>1. alive[i] BY <1>4 DEF Open, Serving
  <2> QED BY <1>4, <2>1 DEF Open, Activate
<1>5. CASE Stop(i)
  <2>1. ProcessTypes' BY <1>5 DEF Stop
  <2>2. alive[i] /\ UNCHANGED alive /\ request \in [op : {"stop"}, at : {i}, pc : {"stop"}]
    BY <1>5 DEF Stop, Serving
  <2>3. request' = Idle \/ request' = [request EXCEPT !.pc = "disable"]
    BY <1>5 DEF Stop, Step
  <2>4. RequestTypes' BY <2>2, <2>3
  <2> QED BY <2>1, <2>4
<1>6. CASE Disable(i)
  <2>1. ProcessTypes' BY <1>6 DEF Disable
  <2>2. alive[i] /\ UNCHANGED alive /\ request \in [op : {"stop"}, at : {i}, pc : {"disable"}]
    BY <1>6 DEF Disable, Serving
  <2>3. request' = Idle \/ request' = [request EXCEPT !.pc = "release"]
    BY <1>6 DEF Disable, Step
  <2>4. RequestTypes' BY <2>2, <2>3
  <2> QED BY <2>1, <2>4
<1>7. CASE Release(i)
  <2>1. ProcessTypes' BY <1>7 DEF Release
  <2>2. RequestTypes' BY <1>7 DEF Release
  <2> QED BY <2>1, <2>2
<1>8. CASE Notice(i) BY <1>8 DEF Notice
<1>9. CASE Revive(i) BY <1>9 DEF Revive
<1> QED BY <1>1, <1>2, <1>3, <1>4, <1>5, <1>6, <1>7, <1>8, <1>9 DEF Serve

\* The two loops.
LEMMA LoopsKeepTypes ==
    ASSUME TypeOK, NEW i \in Instances, Heartbeat(i) \/ Watchdog(i)
    PROVE  ProcessTypes' /\ RequestTypes'
<1> USE DEF TypeOK, ProcessTypes, RequestTypes, agent, Reconnect
<1>1. CASE Beat(i) BY <1>1 DEF Beat
<1>2. CASE Renew(i) BY <1>2 DEF Renew
<1>3. CASE Lose(i)
  <2>1. CASE Panics(i) BY <1>3, <2>1, VanishTypes DEF Lose
  <2>2. CASE ~Panics(i) BY <1>3, <2>2 DEF Lose
  <2> QED BY <2>1, <2>2
<1>4. CASE Expire(i) BY <1>4 DEF Expire
<1>5. CASE List(i) BY <1>5 DEF List
<1>6. CASE Claim(i) BY <1>6 DEF Claim
<1>7. CASE Enter(i) BY <1>7 DEF Enter
<1>8. CASE OpenClaimed(i) BY <1>8 DEF OpenClaimed, Activate
<1> QED BY <1>1, <1>2, <1>3, <1>4, <1>5, <1>6, <1>7, <1>8 DEF Heartbeat, Watchdog

\* Time and failures.
LEMMA FaultsKeepTypes ==
    ASSUME TypeOK,
           \/ \E i \in Instances : Crash(i) \/ Restart(i) \/ LineDies(i)
           \/ Lapse \/ Stall
    PROVE  ProcessTypes' /\ RequestTypes'
<1>1. ASSUME NEW i \in Instances, Crash(i) PROVE ProcessTypes' /\ RequestTypes'
  BY <1>1, VanishTypes DEF Crash, TypeOK
<1> USE DEF TypeOK, ProcessTypes, RequestTypes, agent, machine
<1>2. ASSUME NEW i \in Instances, Restart(i) PROVE ProcessTypes' /\ RequestTypes'
  BY <1>2 DEF Restart
<1>3. ASSUME NEW i \in Instances, LineDies(i) PROVE ProcessTypes' /\ RequestTypes'
  <2>1. alive[i] BY <1>3 DEF LineDies
  <2> QED BY <1>3, <2>1 DEF LineDies
<1>4. CASE Lapse BY <1>4 DEF Lapse
<1>5. CASE Stall BY <1>5 DEF Stall
<1> QED BY <1>1, <1>2, <1>3, <1>4, <1>5

\* The values of the variables, in every reachable state.
THEOREM AgentTypes == Spec => []TypeOK
<1>1. TypeOK /\ [Next]_vars => TypeOK'
  <2> SUFFICES ASSUME TypeOK, [Next]_vars PROVE TypeOK'
    OBVIOUS
  <2>1. CASE Next
    BY <2>1, EveryLease, RequestsKeepTypes, LoopsKeepTypes, FaultsKeepTypes DEF Next, TypeOK
  <2>2. CASE UNCHANGED vars
    BY <2>2 DEF vars, agent, machine, bounds, TypeOK, LeaseTypes, ProcessTypes, RequestTypes
  <2> QED BY <2>1, <2>2
<1> QED BY InitTypes, <1>1, PTL DEF Spec

-----------------------------------------------------------------------------
(* Managers and the lease.                                                 *)

LEMMA InitLease == Init => LeaseHeld
  BY DEF Init, LeaseHeld

\* The API's requests and the messages.
LEMMA RequestLease ==
    ASSUME IInv, NEW i \in Instances,
           Upsert(i) \/ Close(i) \/ Serve(i) \/ Notice(i) \/ Revive(i)
    PROVE  LeaseHeld'
<1> USE DEF agent, machine, bounds
<1>1. CASE Upsert(i) \/ Close(i) \/ Open(i) \/ Disable(i) \/ Notice(i) \/ Revive(i)
  BY <1>1 DEF Upsert, Close, Open, Disable, Notice, Revive, IInv, LeaseHeld, Held
<1>2. CASE Manage(i)
  <2>1. CASE Panics(i)
    BY <1>2, <2>1 DEF Manage, IInv, LeaseHeld, Held
  <2>2. CASE ~Panics(i)
    <3>1. StartManaging(i) /\ UNCHANGED <<dog, disturbed>>
      BY <1>2, <2>2 DEF Manage
    <3>2. lease' = lease \/ (Grantable(i) /\ lease' = Held(i))
      BY <3>1 DEF StartManaging, Either
    <3>3. \A j \in Instances \ {i} : managed'[j] = managed[j]
      BY <3>1 DEF StartManaging, IInv, TypeOK, ProcessTypes
    <3>4. managed'[i] # "no" => managed[i] # "no" \/ lease' = Held(i)
      BY <3>1 DEF StartManaging, Closes, IInv, TypeOK, ProcessTypes
    <3> QED BY <3>1, <3>2, <3>3, <3>4, LeaseStatement
  <2> QED BY <2>1, <2>2
<1>3. CASE Stop(i)
  BY <1>3 DEF Stop, IInv, TypeOK, LeaseTypes, ProcessTypes, LeaseHeld, Held
<1>4. CASE Release(i)
  <2>1. UNCHANGED <<managed, dog>> /\ lease' \in {lease, Unheld}
        /\ disturbed' = (disturbed \/ (managed[i] # "no" /\ lease' # lease))
        /\ (lease' # lease => lease.owner = i)
    BY <1>4 DEF Release, Either
  <2>2. CASE lease' = lease
    BY <2>1, <2>2 DEF IInv, LeaseHeld, Held
  <2>3. CASE lease' = Unheld /\ lease' # lease
    <3>1. \A j \in Instances : disturbed' \/ managed'[j] = "no"
      <4> SUFFICES ASSUME NEW j \in Instances, ~disturbed' PROVE managed[j] = "no"
        BY <2>1
      <4>1. ~disturbed /\ managed[i] = "no" /\ lease.owner = i
        BY <2>1, <2>3
      <4>2. managed[j] # "no" => lease.owner = j
        BY <4>1 DEF IInv, LeaseHeld, Held
      <4> QED BY <4>1, <4>2
    <3>2. \A j \in Instances : lease'.owner # j
      BY <2>3 DEF Unheld
    <3> QED BY <3>1, <3>2 DEF LeaseHeld
  <2> QED BY <2>1, <2>2, <2>3
<1> QED BY <1>1, <1>2, <1>3, <1>4 DEF Serve

\* The heartbeat renews or gives way.
LEMMA HeartbeatLease ==
    ASSUME IInv, NEW i \in Instances, Heartbeat(i)
    PROVE  LeaseHeld'
<1>1. CASE Beat(i)
  BY <1>1 DEF Beat, IInv, LeaseHeld, Held
<1>2. CASE Renew(i)
  <2>1. lease' = lease \/ (Grantable(i) /\ lease' = Held(i))
    BY <1>2 DEF Renew, Either
  <2>2. UNCHANGED <<managed, dog, disturbed>>
    BY <1>2 DEF Renew
  <2> QED BY <2>1, <2>2, LeaseStatement
<1>3. CASE Lose(i)
  <2>1. CASE Panics(i) BY <1>3, <2>1, VanishLease DEF Lose
  <2>2. CASE ~Panics(i)
    BY <1>3, <2>2 DEF Lose, IInv, TypeOK, LeaseTypes, ProcessTypes, LeaseHeld, Held
  <2> QED BY <2>1, <2>2
<1> QED BY <1>1, <1>2, <1>3 DEF Heartbeat

\* The watchdog claims what nobody holds, or counts as a disturbance.
LEMMA WatchdogLease ==
    ASSUME IInv, NEW i \in Instances, Watchdog(i)
    PROVE  LeaseHeld'
<1>1. CASE Expire(i)
  <2>1. CASE lease' = Unheld /\ disturbed' = (disturbed \/ Managers # {})
    <3>1. Managers = {} => \A j \in Instances : managed[j] = "no"
      BY DEF Managers, IInv, TypeOK, ProcessTypes
    <3>2. managed' = managed
      BY <1>1 DEF Expire
    <3> QED BY <2>1, <3>1, <3>2 DEF LeaseHeld, Unheld, NoOne
  <2>2. CASE UNCHANGED <<lease, disturbed>>
    BY <1>1, <2>2 DEF Expire, IInv, TypeOK, LeaseTypes, ProcessTypes, LeaseHeld, Held
  <2> QED BY <1>1, <2>1, <2>2 DEF Expire
<1>2. CASE List(i) \/ OpenClaimed(i)
  BY <1>2 DEF List, OpenClaimed, agent, IInv, TypeOK, LeaseTypes, ProcessTypes, LeaseHeld, Held
<1>3. CASE Claim(i)
  <2>1. lease' = lease \/ (Grantable(i) /\ lease' = Held(i))
    BY <1>3 DEF Claim, Either
  <2>2. UNCHANGED <<managed, disturbed>>
    BY <1>3 DEF Claim
  <2>3. \A j \in Instances \ {i} : dog'[j] = dog[j]
    BY <1>3 DEF Claim, IInv, TypeOK, ProcessTypes
  <2>4. dog'[i] = "enter" => lease' = Held(i)
    BY <1>3 DEF Claim, IInv, TypeOK, ProcessTypes
  <2> QED BY <2>1, <2>2, <2>3, <2>4, LeaseStatement
<1>4. CASE Enter(i)
  <2> SUFFICES ASSUME ~disturbed' PROVE LeaseHeld'
    BY DEF LeaseHeld
  <2>1. ~disturbed /\ lease.owner = i /\ lease.fresh
    BY <1>4 DEF Enter, IInv, LeaseHeld
  <2>2. lease = Held(i)
    BY <2>1 DEF IInv, TypeOK, LeaseTypes, Held
  <2> QED BY <1>4, <2>1, <2>2 DEF Enter, IInv, TypeOK, LeaseTypes, ProcessTypes, LeaseHeld, Held
<1> QED BY <1>1, <1>2, <1>3, <1>4 DEF Watchdog

\* A lease expires under nobody who keeps it, or that is a disturbance.
LEMMA FaultLease ==
    ASSUME IInv,
           \/ \E i \in Instances : Crash(i) \/ Restart(i) \/ LineDies(i)
           \/ Lapse \/ Stall
    PROVE  LeaseHeld'
<1>1. ASSUME NEW i \in Instances, Crash(i) PROVE LeaseHeld'
  BY <1>1, VanishLease DEF Crash
<1>2. ASSUME NEW i \in Instances, Restart(i) \/ LineDies(i) PROVE LeaseHeld'
  BY <1>2 DEF Restart, LineDies, agent, machine, IInv, LeaseHeld, Held
<1>3. CASE Lapse
  <2>1. \A i \in Instances : lease.owner = i => managed[i] = "no" /\ dog[i] # "enter"
    BY <1>3 DEF Lapse, Keeps, Gone
  <2> QED BY <1>3, <2>1 DEF Lapse, machine, IInv, TypeOK, LeaseTypes, ProcessTypes, LeaseHeld, Held
<1>4. CASE Stall BY <1>4 DEF Stall, LeaseHeld
<1> QED BY <1>1, <1>2, <1>3, <1>4

\* Types and leases together are inductive.
THEOREM Inductive == Spec => []IInv
<1>1. Init => IInv
  BY InitTypes, InitLease DEF IInv
<1>2. TypeOK /\ TypeOK' /\ IInv /\ [Next]_vars => IInv'
  <2> SUFFICES ASSUME TypeOK', IInv, [Next]_vars PROVE LeaseHeld'
    BY DEF IInv
  <2>1. CASE Next
    BY <2>1, RequestLease, HeartbeatLease, WatchdogLease, FaultLease DEF Next
  <2>2. CASE UNCHANGED vars
    BY <2>2 DEF vars, agent, machine, IInv, LeaseHeld, Held
  <2> QED BY <2>1, <2>2
<1> QED BY <1>1, <1>2, AgentTypes, PTL DEF Spec

\* As long as nothing disturbed the leases there is one manager at most:
\* two would hold the same lease.
LEMMA LeaseGivesOne == IInv => SingleManager
<1> SUFFICES ASSUME IInv, ~disturbed PROVE Cardinality(Managers) <= 1
  BY DEF SingleManager
<1>1. \A i, j \in Managers : i = j
  BY DEF Managers, IInv, LeaseHeld, Held
<1>2. CASE Managers = {}
  BY <1>2, FS_EmptySet
<1>3. CASE Managers # {}
  <2>1. PICK i \in Managers : TRUE
    BY <1>3
  <2>2. Managers = {i}
    BY <1>1, <2>1
  <2> QED BY <2>2, FS_Singleton
<1> QED BY <1>2, <1>3

\* One instance at a time manages an agent (TryAcquireAgentLease).
THEOREM OneManager == Spec => []SingleManager
  BY Inductive, LeaseGivesOne, PTL

-----------------------------------------------------------------------------
(***************************************************************************)
(* AgentMessages: a message starts one turn, over any of the channels, for *)
(* any number of processes and any bounds on what the environment does and *)
(* on the calls that fail.                                                 *)
(*                                                                         *)
(* OneTurn is not inductive: nothing in it says that no second handling is *)
(* under way.  TurnOpen adds how far the one handling there may be has     *)
(* got: before it has run nothing has, before it has stored nothing is     *)
(* stored, and no other event of the message is handled beside it.         *)
(***************************************************************************)

MessageSpec == MessageInit /\ [][MessageNext]_messageVars

Stages == {"none", "done", "read", "enable", "api", "scope", "fetch", "store", "run", "learn"}

Handlings == [pc : Stages, at : SUBSET Processes, conv : BOOLEAN, own : BOOLEAN]

MessageTypes ==
    /\ event \in [Events -> Handlings]
    /\ \A e \in Events : event[e].pc = "none" => event[e].at = {}
    /\ channel \in Channels \cup {"none"}
    /\ row \in {"none", "active", "disabled"}
    /\ runs \in Nat /\ learnt \in Nat
    /\ stored \in BOOLEAN /\ echoed \in BOOLEAN /\ excused \in BOOLEAN

Live(e) == event[e].pc \notin {"none", "done"}

\* What arrived, and what the handlers let through.
Arrived ==
    /\ \A e \in Events \ {"reply"} :
        event[e].pc # "none" => channel # "none" /\ e \in Channel[channel].takes
    /\ ~Live("reply")
    /\ channel = "none" \/ ~Channel[channel].dedup => heard = {}

TurnOpen ==
    /\ \A e, f \in Events : Live(e) /\ Live(f) => e = f
    /\ \A e \in Events :
        /\ event[e].pc \notin {"none", "done", "learn"} => runs = 0 /\ learnt = 0
        /\ event[e].pc \in {"read", "enable", "api", "scope", "fetch"} => ~stored
        /\ event[e].pc = "learn" => runs = 1 /\ learnt = 0
        /\ ~event[e].own
    /\ runs <= 1 /\ learnt <= runs /\ ~echoed
    /\ stored \/ runs > 0 => \E e \in Events \ {"reply"} : event[e].pc # "none"

MInv == MessageTypes /\ Arrived /\ (excused \/ TurnOpen)

-----------------------------------------------------------------------------
\* The table of channels: replies are never let through, whatever else is
\* sent is, unless it was seen before.
LEMMA ChannelFacts ==
    ASSUME NEW c \in Channels
    PROVE  /\ "reply" \notin Channel[c].takes
           /\ \A e \in Channel[c].sends : e # "reply" => e \in Channel[c].takes
           /\ Channel[c].takes \subseteq Events
<1> DEFINE Fine(entry) == /\ "reply" \notin entry.takes
                          /\ \A e \in entry.sends : e # "reply" => e \in entry.takes
                          /\ entry.takes \subseteq Events
<1>1. c \in {"webhook", "telegram", "teams", "sms", "slack", "socket", "messenger", "email"}
  BY MessageAssumption DEF Channel
<1>2. Fine(Webhook) /\ Fine(Telegram) /\ Fine(Teams) /\ Fine(Sms)
  BY DEF Webhook, Telegram, Teams, Sms, Entry, Events
<1>3. Fine(Slack) /\ Fine(Socket)
  BY DEF Slack, SlackTakes, Socket, SocketTakes, Entry, Events
<1>4. Fine(Messenger) /\ Fine(Email)
  BY DEF Messenger, MessengerTakes, Email, EmailTakes, Entry, Events
<1>5. Channel[c] \in {Webhook, Telegram, Teams, Sms, Slack, Socket, Messenger, Email}
  BY <1>1 DEF Channel
<1> QED BY <1>2, <1>3, <1>4, <1>5

\* Nobody has sent anything, nothing is handled.
LEMMA InitMInv == MessageInit => MInv
<1> SUFFICES ASSUME MessageInit PROVE MInv
  OBVIOUS
<1>1. /\ Handling("none", {}) \in Handlings
      /\ Handling("none", {}).pc = "none" /\ Handling("none", {}).at = {}
      /\ ~Handling("none", {}).own
  BY DEF Handling, Handlings, Stages
<1>2. event \in [Events -> Handlings] /\ \A e \in Events : event[e] = Handling("none", {})
  BY <1>1 DEF MessageInit
<1>3. MessageTypes BY <1>1, <1>2 DEF MessageInit, MessageTypes
<1>4. Arrived BY <1>1, <1>2 DEF MessageInit, Arrived, Live, Events
<1>5. TurnOpen BY <1>1, <1>2 DEF MessageInit, TurnOpen, Live
<1> QED BY <1>3, <1>4, <1>5 DEF MInv

\* A step of the handling of one event: what it makes of the event has to fit
\* what it makes of the counters.
LEMMA StepKeeps ==
    ASSUME MInv, NEW e \in Events, Live(e),
           NEW h \in Handlings, h.pc # "none",
           event' = [event EXCEPT ![e] = h],
           UNCHANGED <<channel, heard>>, row' \in {"none", "active", "disabled"},
           runs' \in Nat, learnt' \in Nat,
           stored' \in BOOLEAN, echoed' \in BOOLEAN, excused' \in BOOLEAN,
           \/ excused'
           \/ /\ ~excused
              /\ h.pc \notin {"done", "learn"} => runs' = 0 /\ learnt' = 0
              /\ h.pc \in {"read", "enable", "api", "scope", "fetch"} => ~stored'
              /\ h.pc = "learn" => runs' = 1 /\ learnt' = 0
              /\ ~h.own
              /\ runs' <= 1 /\ learnt' <= runs' /\ ~echoed'
    PROVE  MInv'
<1>1. event'[e] = h /\ \A f \in Events \ {e} : event'[f] = event[f]
  BY DEF MInv, MessageTypes
<1>2. MessageTypes'
  BY <1>1 DEF MInv, MessageTypes
<1>3. e # "reply" /\ event[e].pc # "none"
  BY DEF MInv, Arrived, Live
<1>4. Arrived'
  BY <1>1, <1>3 DEF MInv, Arrived, Live, Events
<1>5. ASSUME ~excused' PROVE TurnOpen'
  <2>1. \A f \in Events \ {e} : ~Live(f) /\ ~event[f].own
    BY <1>5 DEF MInv, TurnOpen
  <2>2. \A f \in Events \ {e} : event'[f].pc \in {"none", "done"} /\ ~event'[f].own
    BY <1>1, <2>1 DEF Live
  <2> QED BY <1>1, <1>3, <1>5, <2>2 DEF TurnOpen, Live
<1> QED BY <1>2, <1>4, <1>5 DEF MInv, MessageTypes

\* What Go makes of an event.
LEMMA GoMakes ==
    ASSUME MessageTypes, NEW e \in Events, NEW pc \in Stages \ {"none"}, Go(e, pc)
    PROVE  \E h \in Handlings : /\ event' = [event EXCEPT ![e] = h]
                                /\ h.pc = pc
                                /\ (pc = "done" \/ ~event[e].own) => ~h.own
<1>1. CASE pc = "done"
  <2>1. Handling("done", {}) \in Handlings BY DEF Handling, Handlings, Stages
  <2> QED BY <1>1, <2>1 DEF Go, Handling
<1>2. CASE pc # "done"
  <2> DEFINE h == [event[e] EXCEPT !.pc = pc]
  <2>1. event[e] \in Handlings BY DEF MessageTypes
  <2>2. h \in Handlings /\ h.pc = pc /\ h.own = event[e].own BY <2>1 DEF Handlings
  <2>3. event' = [event EXCEPT ![e] = h] BY <1>2 DEF Go
  <2> QED BY <1>2, <2>2, <2>3
<1> QED BY <1>1, <1>2

-----------------------------------------------------------------------------
(* The pipeline.                                                           *)

LEMMA ReadingKeeps ==
    ASSUME MInv, NEW e \in Events, ReadReg(e) \/ Enable(e)
    PROVE  MInv'
<1>1. UNCHANGED <<channel, heard, stored, runs, learnt, echoed, excused>>
  BY DEF ReadReg, Enable, handling
<1>2. Live(e) /\ event[e].pc \in {"read", "enable"}
  BY DEF ReadReg, Enable, At, Live
<1>3. row' \in {"none", "active", "disabled"}
  BY DEF ReadReg, Enable, environment, MInv, MessageTypes
<1>4. \E pc \in {"done", "enable", "api"} : Go(e, pc)
  <2>1. CASE ReadReg(e)
    <3>1. CASE row = "none" BY <2>1, <3>1 DEF ReadReg
    <3>2. CASE row = "disabled" BY <2>1, <3>2 DEF ReadReg
    <3>3. CASE row = "active" BY <2>1, <3>3 DEF ReadReg
    <3> QED BY <3>1, <3>2, <3>3 DEF MInv, MessageTypes
  <2>2. CASE Enable(e) BY <2>2 DEF Enable
  <2> QED BY <2>1, <2>2
<1>5. PICK pc \in {"done", "enable", "api"} : Go(e, pc)
  BY <1>4
<1>6. PICK h \in Handlings : /\ event' = [event EXCEPT ![e] = h]
                             /\ h.pc = pc
                             /\ (pc = "done" \/ ~event[e].own) => ~h.own
  BY <1>5, GoMakes DEF MInv, Stages
<1> QED BY <1>1, <1>2, <1>3, <1>5, <1>6, StepKeeps DEF MInv, MessageTypes, TurnOpen

LEMMA ViaApiKeeps ==
    ASSUME MInv, NEW e \in Events, ViaApi(e)
    PROVE  MInv'
<1>1. Live(e) /\ event[e].pc = "api" /\ UNCHANGED <<row, channel, heard, learnt, echoed>>
  BY DEF ViaApi, At, environment, Live
<1>2. \E pc \in {"done", "scope"} :
        /\ Go(e, pc)
        /\ \/ pc = "done" /\ runs' = runs + 1 /\ stored' = TRUE /\ excused' = excused
           \/ runs' = runs + 1 /\ stored' = TRUE /\ excused' = TRUE
           \/ UNCHANGED <<runs, stored, excused>>
  <2>1. CASE Go(e, "done") /\ runs' = runs + 1 /\ stored' = TRUE /\ UNCHANGED excused
    BY <2>1, Zenon
  <2>2. CASE Go(e, "scope") /\ runs' = runs + 1 /\ stored' = TRUE /\ excused' = TRUE
    BY <2>2, Zenon
  <2>3. CASE Go(e, "scope") /\ UNCHANGED <<runs, stored, excused>>
    BY <2>3, Zenon
  <2> QED BY <2>1, <2>2, <2>3, Zenon DEF ViaApi
<1>3. PICK pc \in {"done", "scope"} :
        /\ Go(e, pc)
        /\ \/ pc = "done" /\ runs' = runs + 1 /\ stored' = TRUE /\ excused' = excused
           \/ runs' = runs + 1 /\ stored' = TRUE /\ excused' = TRUE
           \/ UNCHANGED <<runs, stored, excused>>
  BY <1>2
<1>4. PICK h \in Handlings : /\ event' = [event EXCEPT ![e] = h]
                             /\ h.pc = pc
                             /\ (pc = "done" \/ ~event[e].own) => ~h.own
  BY <1>3, GoMakes DEF MInv, Stages
<1>5. runs' \in Nat /\ stored' \in BOOLEAN /\ excused' \in BOOLEAN
  <2>1. runs' = runs + 1 \/ runs' = runs
    BY <1>3, Zenon
  <2>2. stored' = TRUE \/ stored' = stored
    BY <1>3, Zenon
  <2>3. excused' = TRUE \/ excused' = excused
    BY <1>3, Zenon
  <2>4. runs' \in Nat BY <2>1 DEF MInv, MessageTypes
  <2>5. stored' \in BOOLEAN BY <2>2 DEF MInv, MessageTypes
  <2>6. excused' \in BOOLEAN BY <2>3 DEF MInv, MessageTypes
  <2> QED BY <2>4, <2>5, <2>6
<1>6. ASSUME ~excused'
      PROVE  /\ ~excused /\ ~h.own /\ h.pc \in {"done", "scope"}
             /\ h.pc = "scope" => runs' = 0 /\ learnt' = 0 /\ ~stored'
             /\ runs' <= 1 /\ learnt' <= runs' /\ ~echoed'
  <2>1. ~excused
    BY <1>3, <1>6 DEF MInv, MessageTypes
  <2>2. runs = 0 /\ learnt = 0 /\ ~stored /\ ~echoed /\ ~event[e].own
    BY <1>1, <2>1 DEF MInv, TurnOpen
  <2> QED BY <1>1, <1>3, <1>4, <1>6, <2>1, <2>2
<1> QED BY <1>1, <1>4, <1>5, <1>6, StepKeeps DEF MInv, MessageTypes

LEMMA FallbackKeeps ==
    ASSUME MInv, NEW e \in Events, Scope(e) \/ Fetch(e)
    PROVE  MInv'
<1>1. UNCHANGED <<row, channel, heard, stored, runs, learnt, echoed, excused>>
  BY DEF Scope, Fetch, handling, environment
<1>2. Live(e) /\ event[e].pc \in {"scope", "fetch"} /\ event[e] \in Handlings
  BY DEF Scope, Fetch, At, Live, MInv, MessageTypes
<1>3. \E h \in Handlings :
        /\ event' = [event EXCEPT ![e] = h]
        /\ h.pc = "fetch" \/ h.pc = "store"
        /\ ~event[e].own /\ ~stored => ~h.own
  <2>1. CASE Go(e, "fetch") \/ Go(e, "store")
    BY <2>1, GoMakes DEF MInv, Stages
  <2>2. CASE event' = [event EXCEPT ![e] = [@ EXCEPT !.pc = "fetch", !.conv = Scoped(channel)]]
    <3> DEFINE h == [event[e] EXCEPT !.pc = "fetch", !.conv = Scoped(channel)]
    <3>1. h \in Handlings /\ h.pc = "fetch" /\ h.own = event[e].own
      BY <1>2 DEF Handlings, Stages, Scoped
    <3> QED BY <2>2, <3>1
  <2>3. CASE event' = [event EXCEPT ![e] = [@ EXCEPT !.pc = "store", !.own = event[e].conv /\ stored]]
    <3> DEFINE h == [event[e] EXCEPT !.pc = "store", !.own = event[e].conv /\ stored]
    <3>1. h \in Handlings /\ h.pc = "store" /\ h.own = (event[e].conv /\ stored)
      BY <1>2 DEF Handlings, Stages, MInv, MessageTypes
    <3> QED BY <2>3, <3>1
  <2> QED BY <2>1, <2>2, <2>3 DEF Scope, Fetch
<1>4. PICK h \in Handlings :
        /\ event' = [event EXCEPT ![e] = h]
        /\ h.pc = "fetch" \/ h.pc = "store"
        /\ ~event[e].own /\ ~stored => ~h.own
  BY <1>3
<1> QED BY <1>1, <1>2, <1>4, StepKeeps DEF MInv, MessageTypes, TurnOpen

LEMMA StoreKeeps ==
    ASSUME MInv, NEW e \in Events, Store(e)
    PROVE  MInv'
<1>1. UNCHANGED <<row, channel, heard, runs, learnt, echoed, excused>>
  BY DEF Store, environment
<1>2. Live(e) /\ event[e].pc = "store"
  BY DEF Store, At, Live
<1>3. stored' \in BOOLEAN
  BY DEF Store, MInv, MessageTypes, Handlings
<1>4. PICK h \in Handlings : /\ event' = [event EXCEPT ![e] = h]
                             /\ h.pc = "run"
                             /\ ~event[e].own => ~h.own
  BY GoMakes DEF Store, MInv, Stages
<1> QED BY <1>1, <1>2, <1>3, <1>4, StepKeeps DEF MInv, MessageTypes, TurnOpen

LEMMA RunKeeps ==
    ASSUME MInv, NEW e \in Events, Run(e)
    PROVE  MInv'
<1>1. UNCHANGED <<row, channel, heard, stored, learnt, excused>>
  BY DEF Run, environment
<1>2. Live(e) /\ event[e].pc = "run" /\ event[e].own \in BOOLEAN
  BY DEF Run, At, Live, MInv, MessageTypes, Handlings
<1>3. PICK pc \in {"learn", "done"} :
        /\ Go(e, pc)
        /\ \/ runs' = runs + 1 /\ echoed' = (echoed \/ event[e].own)
           \/ pc = "done" /\ UNCHANGED <<runs, echoed>>
  BY DEF Run
<1>4. PICK h \in Handlings : /\ event' = [event EXCEPT ![e] = h]
                             /\ h.pc = pc
                             /\ (pc = "done" \/ ~event[e].own) => ~h.own
  BY <1>3, GoMakes DEF MInv, Stages
<1>5. runs' \in Nat /\ echoed' \in BOOLEAN
  BY <1>2, <1>3 DEF MInv, MessageTypes
<1>6. ASSUME ~excused
      PROVE  /\ ~h.own /\ runs' <= 1 /\ learnt' <= runs' /\ ~echoed'
             /\ pc = "learn" => runs' = 1 /\ learnt' = 0
  <2>1. runs = 0 /\ learnt = 0 /\ ~echoed /\ ~event[e].own
    BY <1>2, <1>6 DEF MInv, TurnOpen
  <2>2. ~h.own BY <1>4, <2>1
  <2>3. runs' \in {0, 1} /\ learnt' = 0 BY <1>1, <1>3, <2>1
  <2>4. ~echoed'
    <3>1. CASE echoed' = (echoed \/ event[e].own) BY <2>1, <3>1
    <3>2. CASE UNCHANGED <<runs, echoed>> BY <2>1, <3>2
    <3> QED BY <1>3, <3>1, <3>2
  <2>5. pc = "learn" => runs' = 1 BY <1>3, <2>1
  <2> QED BY <2>2, <2>3, <2>4, <2>5
<1> QED BY <1>1, <1>2, <1>3, <1>4, <1>5, <1>6, StepKeeps DEF MInv, MessageTypes

LEMMA LearnKeeps ==
    ASSUME MInv, NEW e \in Events, Learn(e)
    PROVE  MInv'
<1>1. UNCHANGED <<row, channel, heard, stored, runs, echoed, excused>>
  BY DEF Learn, environment
<1>2. Live(e) /\ event[e].pc = "learn"
  BY DEF Learn, At, Live
<1>3. learnt' = learnt + 1 \/ learnt' = learnt
  BY DEF Learn
<1>4. PICK h \in Handlings : event' = [event EXCEPT ![e] = h] /\ h.pc = "done" /\ ~h.own
  BY GoMakes DEF Learn, MInv, Stages
<1>5. learnt' \in Nat
  BY <1>3 DEF MInv, MessageTypes
<1>6. ~excused => learnt' <= runs' /\ runs' <= 1 /\ ~echoed'
  <2>1. ~excused => runs = 1 /\ learnt = 0 /\ ~echoed
    BY <1>2 DEF MInv, TurnOpen
  <2> QED BY <1>1, <1>3, <2>1
<1> QED BY <1>1, <1>2, <1>4, <1>5, <1>6, StepKeeps DEF MInv, MessageTypes

-----------------------------------------------------------------------------
(* Arrivals and the environment.                                           *)

\* The first event that is taken finds nothing handled and nothing stored;
\* another one is refused, or excused.
LEMMA ReceiveKeeps ==
    ASSUME MInv, NEW e \in Events, NEW i \in Processes, NEW c \in Channels,
           channel \in {"none", c}, channel' = c, Receive(e, i, c)
    PROVE  MInv'
<1> DEFINE taken == e \in Channel[c].takes /\ ~(Channel[c].dedup /\ i \in heard)
<1>1. /\ e \in Channel[c].sends /\ event[e].pc = "none"
      /\ event' = [event EXCEPT ![e] = IF taken THEN Handling("read", {i}) ELSE Handling("done", {})]
      /\ heard' = IF Channel[c].dedup /\ taken THEN heard \cup {i} ELSE heard
      /\ excused' = (excused \/ (taken /\ Twice(e, i, c)))
      /\ UNCHANGED <<row, stored, runs, learnt, echoed>>
  BY DEF Receive, Seen, environment
<1> DEFINE h == IF taken THEN Handling("read", {i}) ELSE Handling("done", {})
<1>2. /\ h \in Handlings /\ ~h.own
      /\ taken => h.pc = "read"
      /\ ~taken => h.pc = "done"
  BY DEF Handling, Handlings, Stages
<1>3. /\ event' = [event EXCEPT ![e] = h]
      /\ event'[e] = h /\ \A f \in Events \ {e} : event'[f] = event[f]
  BY <1>1 DEF MInv, MessageTypes
<1> HIDE DEF h
<1>4. taken => e # "reply"
  BY ChannelFacts
<1>5. e # "reply" => e \in Channel[c].takes
  BY <1>1, ChannelFacts
<1>6. MessageTypes'
  <2>1. excused' \in BOOLEAN
    BY <1>1 DEF MInv, MessageTypes
  <2>2. event' \in [Events -> Handlings]
    BY <1>2, <1>3 DEF MInv, MessageTypes
  <2>3. \A f \in Events : event'[f].pc = "none" => event'[f].at = {}
    BY <1>2, <1>3 DEF MInv, MessageTypes
  <2> QED BY <1>1, <2>1, <2>2, <2>3 DEF MInv, MessageTypes
<1>7. Arrived'
  <2>1. \A f \in Events \ {"reply"} : event'[f].pc # "none" => channel' # "none" /\ f \in Channel[channel'].takes
    <3>1. c # "none"
      BY MessageAssumption DEF Channel
    <3> QED BY <1>3, <1>5, <3>1 DEF MInv, Arrived
  <2>2. ~Live("reply")'
    BY <1>2, <1>3, <1>4 DEF MInv, Arrived, Live
  <2>3. ~Channel[c].dedup => heard' = {}
    BY <1>1 DEF MInv, Arrived
  <2>4. channel' = "none" => heard' = {}
    BY MessageAssumption DEF Channel
  <2> QED BY <2>1, <2>2, <2>3, <2>4 DEF Arrived
<1>8. ASSUME ~excused' PROVE TurnOpen'
  <2>1. TurnOpen
    BY <1>1, <1>8 DEF MInv
  <2>2. CASE ~taken
    BY <1>1, <1>2, <1>3, <2>1, <2>2 DEF TurnOpen, Live
  <2>3. CASE taken
    <3>1. i \notin heard
      BY <2>3 DEF MInv, Arrived
    <3>2. \A f \in (Events \ {e, "reply"}) \cap Channel[c].takes : event[f].pc = "none"
      BY <1>1, <1>4, <1>8, <2>3, <3>1 DEF Twice
    <3>3. \A f \in Events \ {"reply"} : event[f].pc = "none"
      BY <1>1, <3>2 DEF MInv, Arrived
    <3>4. \A f \in Events : ~Live(f)
      BY <3>3 DEF MInv, Arrived, Live
    <3>5. ~stored /\ runs = 0 /\ learnt = 0 /\ ~echoed
      BY <2>1, <3>3 DEF TurnOpen, MInv, MessageTypes
    <3> QED BY <1>1, <1>2, <1>3, <1>4, <2>1, <2>3, <3>4, <3>5 DEF TurnOpen, Live
  <2> QED BY <2>2, <2>3
<1> QED BY <1>6, <1>7, <1>8 DEF MInv, MessageTypes

LEMMA ArriveKeeps ==
    ASSUME MInv, NEW e \in Events, NEW i \in Processes, Arrive(e, i)
    PROVE  MInv'
<1>1. CASE channel = "none"
  <2>1. PICK c \in Channels : channel' = c /\ Receive(e, i, c)
    BY <1>1 DEF Arrive
  <2> QED BY <1>1, <2>1, ReceiveKeeps
<1>2. CASE channel # "none"
  <2>1. channel \in Channels /\ channel' = channel /\ Receive(e, i, channel)
    BY <1>2 DEF Arrive, MInv, MessageTypes
  <2> QED BY <2>1, ReceiveKeeps
<1> QED BY <1>1, <1>2

\* What a process had in hand ends with it.
LEMMA DieKeeps ==
    ASSUME MInv, NEW i \in Processes, Die(i)
    PROVE  MInv'
<1>1. /\ heard' = heard \ {i}
      /\ UNCHANGED <<row, channel, stored, runs, learnt, echoed, excused>>
      /\ event' = [e \in Events |->
                    IF event[e].at = {i} THEN Handling("done", {}) ELSE event[e]]
  BY DEF Die
<1>2. /\ Handling("done", {}) \in Handlings
      /\ Handling("done", {}).pc = "done" /\ ~Handling("done", {}).own
  BY DEF Handling, Handlings, Stages
<1>3. \A e \in Events : \/ event'[e] = event[e]
                        \/ event'[e] = Handling("done", {}) /\ event[e].pc # "none"
  BY <1>1 DEF MInv, MessageTypes
<1>4. MessageTypes'
  BY <1>1, <1>2, <1>3 DEF MInv, MessageTypes
<1>5. Arrived'
  BY <1>1, <1>2, <1>3 DEF MInv, Arrived, Live, Events
<1>6. TurnOpen => TurnOpen'
  BY <1>1, <1>2, <1>3 DEF TurnOpen, Live
<1> QED BY <1>1, <1>4, <1>5, <1>6 DEF MInv

LEMMA QuietKeeps ==
    ASSUME MInv, UNCHANGED <<channel, event, handling>>, row' \in {"none", "active", "disabled"}
    PROVE  MInv'
  BY DEF MInv, MessageTypes, Arrived, TurnOpen, Live, handling

\* The invariant is inductive.
THEOREM MessageInvariant == MessageSpec => []MInv
<1>1. MInv /\ [MessageNext]_messageVars => MInv'
  <2> SUFFICES ASSUME MInv, [MessageNext]_messageVars PROVE MInv'
    OBVIOUS
  <2>1. CASE Move \/ \E i \in Processes : Rise(i)
    BY <2>1, QuietKeeps DEF Move, Rise, MInv, MessageTypes
  <2>2. CASE \E i \in Processes : Die(i)
    BY <2>2, DieKeeps
  <2>3. CASE \E e \in Events, i \in Processes : Arrive(e, i)
    BY <2>3, ArriveKeeps
  <2>4. CASE \E e \in Events : ReadReg(e) \/ Enable(e) \/ ViaApi(e)
    BY <2>4, ReadingKeeps, ViaApiKeeps
  <2>5. CASE \E e \in Events : Scope(e) \/ Fetch(e) \/ Store(e) \/ Run(e) \/ Learn(e)
    BY <2>5, FallbackKeeps, StoreKeeps, RunKeeps, LearnKeeps
  <2>6. CASE UNCHANGED messageVars
    BY <2>6, QuietKeeps DEF messageVars, environment, MInv, MessageTypes
  <2> QED BY <2>1, <2>2, <2>3, <2>4, <2>5, <2>6 DEF MessageNext
<1> QED BY InitMInv, <1>1, PTL DEF MessageSpec

\* A message starts the flow and its extraction once, and the flow is not
\* shown the message as history, over every channel, whatever processes die,
\* calls fail and channels move (the order of handleInboundMessageForReg).
THEOREM MessageStartsOneTurn == MessageSpec => []OneTurn
<1>1. MInv => OneTurn
  BY DEF MInv, TurnOpen, OneTurn
<1> QED BY <1>1, MessageInvariant, PTL
=============================================================================
