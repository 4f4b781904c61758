------------------------------- MODULE Agents -------------------------------
(***************************************************************************)
(* One agent and the instances of Launch that run it (agent/service.go,    *)
(* persistence/agent.go).  The agent is a row of agent_registration and a  *)
(* row of agent_lease.  Every instance has a table of the agents it        *)
(* manages, the channels it opened for them (a Slack socket, an entry in   *)
(* the index of Facebook pages), a heartbeat that renews the leases of the *)
(* agents it manages, and a watchdog that claims the agents nobody holds.  *)
(* The API starts and stops the agent by requests to any instance.         *)
(*                                                                         *)
(* A message that comes in for a disabled agent enables it again; what     *)
(* else happens to a message is the matter of AgentMessages.               *)
(*                                                                         *)
(* Assumption: the API sends its requests for one agent one at a time.     *)
(***************************************************************************)
EXTENDS Naturals, FiniteSets

CONSTANTS
    Instances,      \* instances of Launch
    MaxInputs,      \* bound on the API's requests and the messages that wake
    MaxFaults       \* bound on crashes, failed calls, stalls, dead sockets

NoOne == "no one"   \* holder of a lease row that is not there
Gone  == "gone"     \* holder that died: a new process has a new identifier

ASSUME AgentsAssumption ==
    /\ {NoOne, Gone} \cap Instances = {}
    /\ {MaxInputs, MaxFaults} \subseteq Nat

VARIABLES
    reg,        \* the registration: "none", "active" or "disabled"
    lease,      \* [owner, fresh]: the lease row, fresh until it expires
    alive,      \* alive[i]: the process of i runs
    managed,    \* managed[i]: the entry of the agent at i; "closed" is an
                \* entry whose stop channel is closed but which is not stopped
    line,       \* line[i]: the channels at i: "off", "up" or "dead"
    beat,       \* beat[i]: the heartbeat: "idle", "renew" or "lost"
    dog,        \* dog[i]: the watchdog: "start", "idle", "claim", "enter", "open"
    request,    \* [op, at, pc]: the request of the API being served
    waking,     \* waking[i]: a message at i found the agent disabled
    disturbed,  \* somebody may manage without the lease: see SingleManager
    inputs, faults

agent    == <<reg, lease, managed, line>>
machine  == <<alive, beat, dog, waking>>
bounds   == <<inputs, faults>>
vars     == <<agent, machine, request, disturbed, bounds>>

-----------------------------------------------------------------------------
(* Leases and small helpers.                                               *)

Fault == faults < MaxFaults /\ faults' = faults + 1

Input == inputs < MaxInputs /\ inputs' = inputs + 1

Grantable_Anyone(i) == TRUE             \* Faulty variant: no WHERE on the update.

\* TryAcquireAgentLease: a new row, an expired row, or one's own row.
Grantable(i) == lease.owner \in {NoOne, i} \/ ~lease.fresh

Held(i) == [owner |-> i, fresh |-> TRUE]

Unheld == [owner |-> NoOne, fresh |-> FALSE]

\* GetExpiredAgentLeases: active, and no row or an expired one.
Orphaned == reg = "active" /\ (lease.owner = NoOne \/ ~lease.fresh)

Managers == {i \in Instances : alive[i] /\ managed[i] # "no"}

\* What a failed statement may have left: nothing, or its effect.
Either(old, new) == {old, new}

Idle == [op |-> "none", at |-> NoOne, pc |-> "idle"]

Step(pc) == request' = [request EXCEPT !.pc = pc]

Serving(i, op, pc) == alive[i] /\ request = [op |-> op, at |-> i, pc |-> pc]

Init ==
    /\ reg \in {"none", "active"} /\ lease = Unheld
    /\ alive = [i \in Instances |-> TRUE]
    /\ managed = [i \in Instances |-> "no"]
    /\ line = [i \in Instances |-> "off"]
    /\ beat = [i \in Instances |-> "idle"]
    /\ dog = [i \in Instances |-> "start"]
    /\ request = Idle
    /\ waking = [i \in Instances |-> FALSE]
    /\ disturbed = FALSE
    /\ inputs = 0 /\ faults = 0

-----------------------------------------------------------------------------
(* What the operations of an instance do to its entry and its channels.    *)

\* startManaging, under the lock: an entry that is still there is closed,
\* then the lease is asked for.  Refused or failed, the closed entry stays.
Closes(i) == managed[i] = "yes"

\* close of a closed channel: the handler or the process panics.
Panics(i) == managed[i] = "closed"

StartManaging(i) ==
    \/ /\ Grantable(i)
       /\ lease' = Held(i)
       /\ managed' = [managed EXCEPT ![i] = "yes"]
       /\ UNCHANGED bounds
    \/ /\ ~Grantable(i)
       /\ managed' = [managed EXCEPT ![i] = IF Closes(i) THEN "closed" ELSE @]
       /\ UNCHANGED <<lease, bounds>>
    \/ /\ Fault
       /\ lease' \in Either(lease, IF Grantable(i) THEN Held(i) ELSE lease)
       /\ managed' = [managed EXCEPT ![i] = IF Closes(i) THEN "closed" ELSE @]
       /\ UNCHANGED inputs

\* activateChannels, deactivateChannels: the old socket is cancelled first.
Activate(i)   == line' = [line EXCEPT ![i] = "up"]
Deactivate(i) == line' = [line EXCEPT ![i] = "off"]

\* ReconnectStale, at the end of a heartbeat.
Reconnect(i) == line' = [line EXCEPT ![i] = IF @ = "dead" THEN "up" ELSE @]

\* The process of i is gone, with everything it had in memory.
Vanish(i) ==
    /\ alive' = [alive EXCEPT ![i] = FALSE]
    /\ managed' = [managed EXCEPT ![i] = "no"]
    /\ line' = [line EXCEPT ![i] = "off"]
    /\ beat' = [beat EXCEPT ![i] = "idle"]
    /\ dog' = [dog EXCEPT ![i] = "start"]
    /\ lease' = [lease EXCEPT !.owner = IF @ = i THEN Gone ELSE @]
    /\ request' = IF request.at = i THEN Idle ELSE request
    /\ waking' = [waking EXCEPT ![i] = FALSE]
    /\ UNCHANGED <<reg, disturbed>>

-----------------------------------------------------------------------------
(* POST /agent/:id, RegisterAgent: upsert, manage, activate the channels.  *)

Upsert(i) ==
    /\ request = Idle /\ alive[i] /\ Input
    /\ \/ /\ reg' = "active"
          /\ request' = [op |-> "start", at |-> i, pc |-> "manage"]
          /\ UNCHANGED faults
       \/ /\ Fault
          /\ reg' \in Either(reg, "active") /\ UNCHANGED request
    /\ UNCHANGED <<lease, managed, line, machine, disturbed>>

Manage(i) ==
    /\ Serving(i, "start", "manage")
    /\ IF Panics(i)
       THEN request' = Idle /\ UNCHANGED <<lease, managed, bounds>>
       ELSE StartManaging(i) /\ Step("open")
    /\ UNCHANGED <<reg, line, machine, disturbed>>

\* Whether or not the lease was granted.
Open(i) ==
    /\ Serving(i, "start", "open")
    /\ Activate(i)
    /\ request' = Idle
    /\ UNCHANGED <<reg, lease, managed, machine, disturbed, bounds>>

-----------------------------------------------------------------------------
(* DELETE /agent/:id, DeregisterAgent: close, stop, disable, release.      *)

Close(i) ==
    /\ request = Idle /\ alive[i] /\ Input
    /\ Deactivate(i)
    /\ request' = [op |-> "stop", at |-> i, pc |-> "stop"]
    /\ UNCHANGED <<reg, lease, managed, machine, disturbed, faults>>

\* stopManaging: an entry that is not there is nothing to do.
Stop(i) ==
    /\ Serving(i, "stop", "stop")
    /\ IF Panics(i)
       THEN request' = Idle /\ UNCHANGED managed
       ELSE Step("disable") /\ managed' = [managed EXCEPT ![i] = "no"]
    /\ UNCHANGED <<reg, lease, line, machine, disturbed, bounds>>

Disable(i) ==
    /\ Serving(i, "stop", "disable")
    /\ \/ /\ reg' = IF reg = "none" THEN reg ELSE "disabled"
          /\ Step("release") /\ UNCHANGED bounds
       \/ /\ Fault
          /\ reg' \in Either(reg, IF reg = "none" THEN reg ELSE "disabled")
          /\ request' = Idle /\ UNCHANGED inputs
    /\ UNCHANGED <<lease, managed, line, machine, disturbed>>

\* The result is ignored.  When the watchdog has claimed the agent since the
\* entry was stopped, the new entry loses its lease.
Release(i) ==
    /\ Serving(i, "stop", "release")
    /\ LET released == IF lease.owner = i THEN Unheld ELSE lease
       IN  /\ \/ lease' = released /\ UNCHANGED bounds
              \/ Fault /\ lease' \in Either(lease, released) /\ UNCHANGED inputs
           /\ disturbed' = (disturbed \/ (managed[i] # "no" /\ lease' # lease))
    /\ request' = Idle
    /\ UNCHANGED <<reg, managed, line, machine>>

-----------------------------------------------------------------------------
(* heartbeatLoop: the ids of the table are copied, each lease is renewed,  *)
(* an agent whose lease is refused is no longer managed (its channels stay *)
(* open), and dead sockets are reconnected.                                *)

Beat(i) ==
    /\ alive[i] /\ beat[i] = "idle"
    /\ \/ /\ managed[i] # "no"
          /\ beat' = [beat EXCEPT ![i] = "renew"]
          /\ UNCHANGED line
       \/ managed[i] = "no" /\ line[i] = "dead" /\ Reconnect(i) /\ UNCHANGED beat
    /\ UNCHANGED <<reg, lease, managed, alive, dog, waking, request, disturbed, bounds>>

Renew(i) ==
    /\ alive[i] /\ beat[i] = "renew"
    /\ \/ /\ Grantable(i)
          /\ lease' = Held(i) /\ Reconnect(i)
          /\ beat' = [beat EXCEPT ![i] = "idle"]
          /\ UNCHANGED bounds
       \/ /\ ~Grantable(i)
          /\ beat' = [beat EXCEPT ![i] = "lost"]
          /\ UNCHANGED <<lease, line, bounds>>
       \/ /\ Fault
          /\ lease' \in Either(lease, IF Grantable(i) THEN Held(i) ELSE lease)
          /\ Reconnect(i)
          /\ beat' = [beat EXCEPT ![i] = "idle"]
          /\ UNCHANGED inputs
    /\ UNCHANGED <<reg, managed, alive, dog, waking, request, disturbed>>

\* stopManaging in a goroutine nothing recovers: a closed entry ends the process.
Lose(i) ==
    /\ alive[i] /\ beat[i] = "lost"
    /\ IF Panics(i)
       THEN Vanish(i)
       ELSE /\ managed' = [managed EXCEPT ![i] = "no"]
            /\ Reconnect(i)
            /\ beat' = [beat EXCEPT ![i] = "idle"]
            /\ UNCHANGED <<reg, lease, alive, dog, waking, request, disturbed>>
    /\ UNCHANGED bounds

-----------------------------------------------------------------------------
(* watchdog: at the start of the process every lease row is deleted, then  *)
(* the orphans are listed, again and again; each is claimed, entered in    *)
(* the table and its channels are activated, from the row that was listed. *)

Expire(i) ==
    /\ alive[i] /\ dog[i] = "start"
    /\ \/ /\ lease' = Unheld
          /\ disturbed' = (disturbed \/ Managers # {})
          /\ UNCHANGED bounds
       \/ Fault /\ UNCHANGED <<lease, disturbed, inputs>>
    /\ dog' = [dog EXCEPT ![i] = "idle"]
    /\ UNCHANGED <<reg, managed, line, alive, beat, waking, request>>

\* A failed or an empty list is tried again at the next tick.
List(i) ==
    /\ alive[i] /\ dog[i] = "idle" /\ Orphaned
    /\ dog' = [dog EXCEPT ![i] = "claim"]
    /\ UNCHANGED <<agent, alive, beat, waking, request, disturbed, bounds>>

Claim(i) ==
    /\ alive[i] /\ dog[i] = "claim"
    /\ \/ /\ Grantable(i)
          /\ lease' = Held(i) /\ dog' = [dog EXCEPT ![i] = "enter"]
          /\ UNCHANGED bounds
       \/ /\ ~Grantable(i)
          /\ dog' = [dog EXCEPT ![i] = "idle"] /\ UNCHANGED <<lease, bounds>>
       \/ /\ Fault
          /\ lease' \in Either(lease, IF Grantable(i) THEN Held(i) ELSE lease)
          /\ dog' = [dog EXCEPT ![i] = "idle"] /\ UNCHANGED inputs
    /\ UNCHANGED <<reg, managed, line, alive, beat, waking, request, disturbed>>

\* The lease may be gone by now: a stop of the agent released it.
Enter(i) ==
    /\ alive[i] /\ dog[i] = "enter"
    /\ managed' = [managed EXCEPT ![i] = "yes"]
    /\ dog' = [dog EXCEPT ![i] = "open"]
    /\ disturbed' = (disturbed \/ lease.owner # i)
    /\ UNCHANGED <<reg, lease, line, alive, beat, waking, request, bounds>>

OpenClaimed_Skipped(i) ==       \* Faulty variant: claimed, but not connected.
    /\ alive[i] /\ dog[i] = "open"
    /\ dog' = [dog EXCEPT ![i] = "idle"]
    /\ UNCHANGED <<agent, alive, beat, waking, request, disturbed, bounds>>

OpenClaimed(i) ==
    /\ alive[i] /\ dog[i] = "open"
    /\ Activate(i)
    /\ dog' = [dog EXCEPT ![i] = "idle"]
    /\ UNCHANGED <<reg, lease, managed, alive, beat, waking, request, disturbed, bounds>>

-----------------------------------------------------------------------------
(* Time and failures.                                                      *)

\* Keeping the lease: an entry, or a claim on its way into the table.
Keeps(i) == managed[i] # "no" \/ dog[i] = "enter"

\* The row expires when nobody renews it: its holder died, or has no entry.
Lapse ==
    /\ lease.fresh
    /\ \/ lease.owner = Gone
       \/ lease.owner \in Instances /\ ~Keeps(lease.owner)
    /\ lease' = [lease EXCEPT !.fresh = FALSE]
    /\ UNCHANGED <<reg, managed, line, machine, request, disturbed, bounds>>

\* The heartbeat of a manager, or the claim of a watchdog, comes too late.
Stall ==
    /\ lease.fresh /\ lease.owner \in Instances /\ Keeps(lease.owner)
    /\ Fault
    /\ lease' = [lease EXCEPT !.fresh = FALSE]
    /\ disturbed' = TRUE
    /\ UNCHANGED <<reg, managed, line, machine, request, inputs>>

Crash(i) == alive[i] /\ Fault /\ Vanish(i) /\ UNCHANGED inputs

Restart(i) ==
    /\ ~alive[i]
    /\ alive' = [alive EXCEPT ![i] = TRUE]
    /\ UNCHANGED <<agent, beat, dog, waking, request, disturbed, bounds>>

\* RunContext returns and clears the alive flag of the socket.
LineDies(i) ==
    /\ line[i] = "up" /\ Fault
    /\ line' = [line EXCEPT ![i] = "dead"]
    /\ UNCHANGED <<reg, lease, managed, machine, request, disturbed, inputs>>

-----------------------------------------------------------------------------
(* Messages, as far as they touch the registration (HandleInboundMessage): *)
(* one that finds the agent disabled enables it again, with the row it     *)
(* read, at whichever instance it came to.                                 *)

Notice_Missing(i) ==        \* Faulty variant: a missing row is taken for a disabled one.
    /\ alive[i] /\ ~waking[i] /\ reg # "active" /\ Input
    /\ waking' = [waking EXCEPT ![i] = TRUE]
    /\ UNCHANGED <<agent, alive, beat, dog, request, disturbed, faults>>

Notice(i) ==
    /\ alive[i] /\ ~waking[i] /\ reg = "disabled" /\ Input
    /\ waking' = [waking EXCEPT ![i] = TRUE]
    /\ UNCHANGED <<agent, alive, beat, dog, request, disturbed, faults>>

Revive(i) ==
    /\ waking[i]
    /\ \/ reg' = "active" /\ UNCHANGED bounds
       \/ Fault /\ reg' \in Either(reg, "active") /\ UNCHANGED inputs
    /\ waking' = [waking EXCEPT ![i] = FALSE]
    /\ UNCHANGED <<lease, managed, line, alive, beat, dog, request, disturbed>>

-----------------------------------------------------------------------------
(* Specification.  The API's requests, the user's messages, failures and   *)
(* stalls need never come.  A goroutine that is not blocked goes on, the   *)
(* two loops tick for ever, an abandoned lease expires and a dead process  *)
(* is started again: weak fairness for each.                               *)

Serve(i) == Manage(i) \/ Open(i) \/ Stop(i) \/ Disable(i) \/ Release(i)

Heartbeat(i) == Beat(i) \/ Renew(i) \/ Lose(i)

Watchdog(i) == Expire(i) \/ List(i) \/ Claim(i) \/ Enter(i) \/ OpenClaimed(i)

Next ==
    \/ \E i \in Instances :
        \/ Upsert(i) \/ Close(i) \/ Serve(i)
        \/ Heartbeat(i) \/ Watchdog(i)
        \/ Crash(i) \/ Restart(i) \/ LineDies(i)
        \/ Notice(i) \/ Revive(i)
    \/ Lapse \/ Stall

Fairness ==
    /\ \A i \in Instances : WF_vars(Heartbeat(i)) /\ WF_vars(Watchdog(i))
    /\ WF_vars(\E i \in Instances : Serve(i))
    /\ WF_vars(\E i \in Instances : Restart(i))
    /\ WF_vars(Lapse)

Spec == Init /\ [][Next]_vars /\ Fairness

-----------------------------------------------------------------------------
(* Properties.                                                             *)

LeaseTypes ==
    /\ lease \in [owner : Instances \cup {NoOne, Gone}, fresh : BOOLEAN]
    /\ lease.owner = NoOne => ~lease.fresh

ProcessTypes ==
    /\ reg \in {"none", "active", "disabled"}
    /\ alive \in [Instances -> BOOLEAN]
    /\ managed \in [Instances -> {"no", "yes", "closed"}]
    /\ line \in [Instances -> {"off", "up", "dead"}]
    /\ beat \in [Instances -> {"idle", "renew", "lost"}]
    /\ dog \in [Instances -> {"start", "idle", "claim", "enter", "open"}]
    /\ waking \in [Instances -> BOOLEAN] /\ disturbed \in BOOLEAN
    /\ \A i \in Instances : waking[i] => alive[i] /\ reg # "none"
    /\ \A i \in Instances : ~alive[i] =>
        managed[i] = "no" /\ line[i] = "off" /\ beat[i] = "idle" /\ dog[i] = "start"

RequestTypes ==
    \/ request = Idle
    \/ \E i \in Instances :
        /\ alive[i]
        /\ request \in [op : {"start", "stop"}, at : {i},
                        pc : {"manage", "open", "stop", "disable", "release"}]

\* The values of the variables, and what they must agree on: a process that
\* is not running holds nothing and serves nobody, a row that is not there is
\* not fresh, and a message enables only an agent that has a registration.
TypeOK == LeaseTypes /\ ProcessTypes /\ RequestTypes

\* One instance at a time manages an agent, as long as nobody deleted the
\* leases of live managers (the watchdog of an instance that starts), no
\* heartbeat came too late, and no stop overtook the claim of a watchdog: the
\* refusals of TryAcquireAgentLease keep every other one out, whatever fails.
SingleManager == disturbed \/ Cardinality(Managers) <= 1

\* One live instance manages the agent and its channels are open there.
Served == \E i \in Instances : Managers = {i} /\ line[i] = "up"

\* An entry whose channel was closed by a registration that was then refused
\* or failed: the next stop or registration of the agent there panics.
Stuck == \E i \in Managers : Panics(i)

\* An agent that stays active is served in the end, by one instance, whatever
\* was lost, crashed, stalled or claimed twice before, unless it is stuck.
ActiveIsServed == <>[](reg = "active") => <>[](Served \/ Stuck)
=============================================================================
