------------------------- MODULE MqttConnectionProof -------------------------
(***************************************************************************)
(* Proofs about MqttConnection, for any number of goroutines that save and *)
(* delete, any configurations and any bounds: a slot is never left without *)
(* a client, and as long as saves change nothing there is one client and   *)
(* an accepted one is left alone.                                          *)
(*                                                                         *)
(* The invariant says who may still dial a subscription.  One that has no  *)
(* client is reserved by exactly one goroutine (Reserved), which dials it  *)
(* or gives it back.  While all is calm that goroutine also has the slot   *)
(* (CalmJobs): nobody takes the slot over, because all compute the same    *)
(* fingerprint and what is not dialled has not failed.  So whoever else is *)
(* connected is the one victim it is about to close (CalmSubs).            *)
(***************************************************************************)
EXTENDS MqttConnection, FiniteSetTheorems, TLAPS

\* Where a goroutine has reserved a subscription and not dialled it yet.
Busy == {"closePrevious", "dial", "giveBack"}

\* What the local variables hold, by where the goroutine is.
JobsFit ==
    \A t \in Threads :
        /\ job[t].mine # None <=> pc[t] \in Busy
        /\ job[t].victim # None => pc[t] \in {"closePrevious", "close"}
        /\ pc[t] \in {"lease", "parse"} => job[t].seen \in Configs

\* Every subscription without a client is reserved by one goroutine, which
\* will dial it or give it back.
Reserved ==
    /\ \A t \in Threads : job[t].mine # None => sub[job[t].mine].client = "none"
    /\ \A t, u \in Threads : job[t].mine = job[u].mine /\ job[t].mine # None => t = u
    /\ \A s \in Subs : sub[s].client = "none" => \E t \in Threads : job[t].mine = s

\* The subscription in the slot is in use and nobody is about to close it.
SlotInUse ==
    slot # None => /\ sub[slot].client # "free"
                   /\ \A t \in Threads : job[t].victim # slot

\* Only a client can be connected, and an accepted one has not failed.
LinksFit ==
    \A s \in Subs : /\ sub[s].client # "open" => sub[s].link = "down" /\ ~sub[s].failed
                    /\ sub[s].link = "accepted" => ~sub[s].failed

\* The one fingerprint there is while all is calm.
Now == [cfg |-> cfg, resolved |-> TRUE]

\* While all is calm: one configuration, one fingerprint, nobody takes the
\* trigger out of the map, and who has reserved a subscription has the slot.
CalmJobs ==
    \A t \in Threads :
        /\ pc[t] \in {"lease", "parse"} => job[t].seen = cfg
        /\ pc[t] = "reserve" => job[t].fp = Now
        /\ pc[t] # "remove"
        /\ pc[t] = "drop" => t = Loop /\ row = "absent"
        /\ pc[t] = "close" => t = Loop /\ job[t].victim = None
        /\ job[t].mine # None => slot = job[t].mine

CalmSubs ==
    \A s \in Subs :
        /\ sub[s].client # "free" => sub[s].fp = Now
        /\ sub[s].client = "open" => s = slot \/ \E t \in Threads : job[t].victim = s

\* Nothing has begun before the trigger is there.
NotBegun ==
    row = "absent" =>
        /\ slot = None
        /\ \A s \in Subs : sub[s].client = "free"
        /\ \A t \in Threads : pc[t] \in {"idle", "read", "drop", "close"}

CalmInv == apiUp /\ row # "deleted" /\ CalmJobs /\ CalmSubs /\ NotBegun

Owned == JobsFit /\ Reserved /\ SlotInUse /\ LinksFit

IInv == TypeOK /\ Owned /\ (calm => CalmInv)

USE ConnectionAssumption

-----------------------------------------------------------------------------
(* Initially.                                                              *)

LEMMA InitIInv == Init => IInv
<1> SUFFICES ASSUME Init PROVE IInv
  OBVIOUS
<1>1. FreeSub \in Subscriptions /\ NoJob \in Jobs
  BY DEF FreeSub, Subscriptions, Fingerprints, NoJob, Jobs
<1>2. /\ \A s \in Subs : sub[s] = FreeSub
      /\ \A t \in Threads : pc[t] = "idle" /\ job[t] = NoJob
  BY DEF Init
<1>3. TypeOK
  BY <1>1 DEF Init, TypeOK, Steps
<1>4. JobsFit /\ Reserved /\ SlotInUse /\ LinksFit
  BY <1>2 DEF Init, JobsFit, Reserved, SlotInUse, LinksFit, Busy, FreeSub, NoJob
<1>5. CalmInv
  BY <1>2 DEF Init, CalmInv, CalmJobs, CalmSubs, NotBegun, FreeSub, NoJob
<1> QED BY <1>3, <1>4, <1>5 DEF IInv, Owned

-----------------------------------------------------------------------------
(* Steps that change no subscription: goroutine t goes to l with the local *)
(* variables j, and has reserved nothing.                                  *)

Moves(t, l, j) ==
    /\ pc' = [pc EXCEPT ![t] = l] /\ job' = [job EXCEPT ![t] = j]
    /\ UNCHANGED <<slot, sub>>

LEMMA NothingReserved ==
    ASSUME IInv, NEW t \in Threads, pc[t] \notin Busy, pc[t] # "close"
    PROVE  job[t].mine = None /\ job[t].victim = None
BY DEF IInv, Owned, JobsFit, Busy

LEMMA MoveKeepsOwned ==
    ASSUME IInv, NEW t \in Threads, NEW l \in Steps \ Busy, NEW j \in Jobs,
           pc[t] \notin Busy, pc[t] # "close",
           j.mine = None, j.victim = None, l \in {"lease", "parse"} => j.seen \in Configs,
           Moves(t, l, j)
    PROVE  /\ pc' \in [Threads -> Steps] /\ job' \in [Threads -> Jobs]
           /\ slot' \in Subs \cup {None} /\ sub' \in [Subs -> Subscriptions]
           /\ Owned'
<1>1. pc \in [Threads -> Steps] /\ job \in [Threads -> Jobs]
  BY DEF IInv, TypeOK
<1>2. pc' \in [Threads -> Steps] /\ job' \in [Threads -> Jobs]
  BY <1>1 DEF Moves
<1>3. \A u \in Threads : /\ pc'[u] = IF u = t THEN l ELSE pc[u]
                         /\ job'[u] = IF u = t THEN j ELSE job[u]
  BY <1>1 DEF Moves
<1>4. \A u \in Threads : job'[u].mine = job[u].mine /\ job'[u].victim = job[u].victim
  BY <1>3, NothingReserved
<1>5. JobsFit'
  BY <1>3 DEF IInv, Owned, JobsFit
<1>6. UNCHANGED <<slot, sub>>
  BY DEF Moves
<1>7. Reserved' /\ SlotInUse' /\ LinksFit'
  BY <1>4, <1>6 DEF IInv, Owned, Reserved, SlotInUse, LinksFit
<1> QED BY <1>2, <1>5, <1>6, <1>7 DEF IInv, Owned, TypeOK

LEMMA MoveKeepsCalm ==
    ASSUME IInv, NEW t \in Threads, NEW l \in Steps \ Busy, NEW j \in Jobs,
           pc[t] \notin Busy, pc[t] # "close", j.mine = None, j.victim = None,
           Moves(t, l, j), UNCHANGED <<row, cfg, apiUp>>, calm,
           l \in {"lease", "parse"} => j.seen = cfg,
           l = "reserve" => j.fp = Now,
           l \notin {"remove", "close"},
           l = "drop" => t = Loop /\ row = "absent",
           row = "absent" => l \in {"idle", "read", "drop", "close"}
    PROVE  CalmInv'
<1>1. \A u \in Threads : /\ pc'[u] = IF u = t THEN l ELSE pc[u]
                         /\ job'[u] = IF u = t THEN j ELSE job[u]
  BY DEF Moves, IInv, TypeOK
<1>2. \A u \in Threads : job'[u].mine = job[u].mine /\ job'[u].victim = job[u].victim
  BY <1>1, NothingReserved
<1>3. UNCHANGED <<slot, sub, row, cfg, apiUp>> /\ Now' = Now
  BY DEF Moves, Now
<1>4. CalmJobs'
  BY <1>1, <1>2, <1>3 DEF IInv, CalmInv, CalmJobs
<1>5. CalmSubs'
  BY <1>2, <1>3 DEF IInv, CalmInv, CalmSubs
<1>6. NotBegun'
  BY <1>1, <1>3 DEF IInv, CalmInv, NotBegun
<1> QED BY <1>3, <1>4, <1>5, <1>6 DEF IInv, CalmInv

\* Only the program counter moves.
LEMMA GotoMoves ==
    ASSUME IInv, NEW t \in Threads, NEW l, Goto(t, l), UNCHANGED <<job, slot, sub>>
    PROVE  Moves(t, l, job[t])
BY DEF Goto, Moves, IInv, TypeOK

LEMMA ReturnMoves ==
    ASSUME NEW t \in Threads, Return(t), UNCHANGED <<slot, sub>>
    PROVE  /\ Moves(t, "idle", NoJob) /\ NoJob \in Jobs
           /\ NoJob.mine = None /\ NoJob.victim = None
BY DEF Return, Goto, Moves, NoJob, Jobs, Fingerprints

LEMMA JobsTyped == ASSUME IInv, NEW t \in Threads PROVE job[t] \in Jobs
BY DEF IInv, TypeOK

LEMMA WakeKeeps ==
    ASSUME IInv, Wake
    PROVE  IInv'
<1>1. Loop \in Threads /\ pc[Loop] = "idle" /\ "read" \in Steps \ Busy
  BY DEF Wake, Threads, Steps, Busy
<1>2. Moves(Loop, "read", job[Loop])
  BY <1>1, GotoMoves DEF Wake
<1>3. job[Loop] \in Jobs /\ job[Loop].mine = None /\ job[Loop].victim = None
  BY <1>1, JobsTyped, NothingReserved DEF Busy
<1>4. Owned' /\ TypeOK'
  BY <1>1, <1>2, <1>3, MoveKeepsOwned DEF IInv, TypeOK, Wake, Busy
<1>5. calm' => CalmInv'
  BY <1>1, <1>2, <1>3, MoveKeepsCalm DEF Wake, Busy
<1> QED BY <1>4, <1>5 DEF IInv

LEMMA ReadRowKeeps ==
    ASSUME IInv, NEW t \in Threads, ReadRow(t)
    PROVE  IInv'
<1>1. /\ pc[t] = "read" /\ pc[t] \notin Busy /\ pc[t] # "close"
      /\ job[t] \in Jobs /\ job[t].mine = None /\ job[t].victim = None
      /\ UNCHANGED <<row, cfg, apiUp, slot, sub, calm, faults, saves>> /\ cfg \in Configs
  BY JobsTyped, NothingReserved DEF ReadRow, Busy, IInv, TypeOK
<1>2. CASE row = "live" /\ Goto(t, "lease") /\ job' = [job EXCEPT ![t].seen = cfg]
  <2> DEFINE j == [job[t] EXCEPT !.seen = cfg]
  <2>1. /\ j \in Jobs /\ j.mine = None /\ j.victim = None /\ j.seen = cfg
        /\ "lease" \in Steps \ Busy
    BY <1>1 DEF Jobs, Steps, Busy
  <2>2. Moves(t, "lease", j)
    BY <1>1, <1>2 DEF Moves, Goto
  <2> HIDE DEF j
  <2>3. Owned' /\ TypeOK'
    BY <1>1, <2>1, <2>2, MoveKeepsOwned DEF IInv, TypeOK
  <2>4. calm' => CalmInv'
    BY <1>1, <1>2, <2>1, <2>2, MoveKeepsCalm
  <2> QED BY <2>3, <2>4 DEF IInv
<1>3. CASE row # "live" /\ t = Loop /\ Goto(t, "drop") /\ UNCHANGED job
  <2>1. Moves(t, "drop", job[t]) /\ "drop" \in Steps \ Busy
    BY <1>1, <1>3, GotoMoves DEF Steps, Busy
  <2>2. Owned' /\ TypeOK'
    BY <1>1, <2>1, MoveKeepsOwned DEF IInv, TypeOK
  <2>3. calm => row = "absent"
    BY <1>3 DEF IInv, CalmInv, TypeOK
  <2>4. calm' => CalmInv'
    BY <1>1, <1>3, <2>1, <2>3, MoveKeepsCalm
  <2> QED BY <2>2, <2>4 DEF IInv
<1>4. CASE Return(t)
  <2>1. Moves(t, "idle", NoJob) /\ NoJob \in Jobs /\ NoJob.mine = None /\ NoJob.victim = None
        /\ "idle" \in Steps \ Busy
    BY <1>1, <1>4, ReturnMoves DEF Steps, Busy
  <2>2. Owned' /\ TypeOK'
    BY <1>1, <2>1, MoveKeepsOwned DEF IInv, TypeOK
  <2>3. calm' => CalmInv'
    BY <1>1, <2>1, MoveKeepsCalm
  <2> QED BY <2>2, <2>3 DEF IInv
<1> QED BY <1>2, <1>3, <1>4 DEF ReadRow

LEMMA LeaseKeeps ==
    ASSUME IInv, NEW t \in Threads, Lease(t)
    PROVE  IInv'
<1>1. /\ pc[t] = "lease" /\ pc[t] \notin Busy /\ pc[t] # "close"
      /\ job[t] \in Jobs /\ job[t].mine = None /\ job[t].victim = None
      /\ job[t].seen \in Configs /\ (calm => job[t].seen = cfg)
      /\ UNCHANGED <<row, cfg, apiUp, slot, sub, saves>> /\ (calm => row # "absent")
  BY JobsTyped, NothingReserved
     DEF Lease, Busy, IInv, Owned, JobsFit, CalmInv, CalmJobs, NotBegun
<1>6. faults' \in 0 .. MaxFaults
  BY DEF Lease, Fault, IInv, TypeOK
<1>7. calm' \in BOOLEAN /\ (calm' => calm)
  <2>1. CASE calm' = calm
    BY <2>1 DEF IInv, TypeOK
  <2>2. CASE calm' = FALSE
    BY <2>2
  <2> QED BY <2>1, <2>2 DEF Lease
<1>2. {"parse", "drop", "idle"} \subseteq Steps \ Busy
  BY DEF Steps, Busy
<1>3. CASE Goto(t, "parse") /\ UNCHANGED job
  <2>1. Moves(t, "parse", job[t])
    BY <1>1, <1>3, GotoMoves
  <2>2. Owned' /\ TypeOK'
    BY <1>1, <1>2, <1>6, <1>7, <2>1, MoveKeepsOwned DEF IInv, TypeOK
  <2>3. calm' => CalmInv'
    BY <1>1, <1>2, <1>7, <2>1, MoveKeepsCalm
  <2> QED BY <2>2, <2>3 DEF IInv
<1>4. CASE Goto(t, "drop") /\ UNCHANGED job /\ ~calm'
  <2>1. Moves(t, "drop", job[t])
    BY <1>1, <1>4, GotoMoves
  <2>2. Owned' /\ TypeOK'
    BY <1>1, <1>2, <1>6, <1>7, <2>1, MoveKeepsOwned DEF IInv, TypeOK
  <2> QED BY <1>4, <2>2 DEF IInv
<1>5. CASE Return(t)
  <2>1. Moves(t, "idle", NoJob) /\ NoJob \in Jobs /\ NoJob.mine = None /\ NoJob.victim = None
    BY <1>1, <1>5, ReturnMoves
  <2>2. Owned' /\ TypeOK'
    BY <1>1, <1>2, <1>6, <1>7, <2>1, MoveKeepsOwned DEF IInv, TypeOK
  <2>3. calm' => CalmInv'
    BY <1>1, <1>2, <1>7, <2>1, MoveKeepsCalm
  <2> QED BY <2>2, <2>3 DEF IInv
<1> QED BY <1>3, <1>4, <1>5 DEF Lease

LEMMA ParseKeeps ==
    ASSUME IInv, NEW t \in Threads, Parse(t)
    PROVE  IInv'
<1>1. /\ pc[t] = "parse" /\ pc[t] \notin Busy /\ pc[t] # "close"
      /\ job[t] \in Jobs /\ job[t].mine = None /\ job[t].victim = None
      /\ job[t].seen \in Configs /\ (calm => job[t].seen = cfg /\ apiUp)
      /\ UNCHANGED <<row, cfg, apiUp, slot, sub, calm, faults, saves>> /\ apiUp \in BOOLEAN
      /\ (calm => row # "absent")
  BY JobsTyped, NothingReserved
     DEF Parse, Busy, IInv, TypeOK, Owned, JobsFit, CalmInv, CalmJobs, NotBegun
<1>2. {"reserve", "idle"} \subseteq Steps \ Busy
  BY DEF Steps, Busy
<1>3. CASE Return(t)
  <2>1. Moves(t, "idle", NoJob) /\ NoJob \in Jobs /\ NoJob.mine = None /\ NoJob.victim = None
    BY <1>1, <1>3, ReturnMoves
  <2>2. Owned' /\ TypeOK'
    BY <1>1, <1>2, <2>1, MoveKeepsOwned DEF IInv, TypeOK
  <2>3. calm' => CalmInv'
    BY <1>1, <1>2, <2>1, MoveKeepsCalm
  <2> QED BY <2>2, <2>3 DEF IInv
<1>4. CASE /\ job' = [job EXCEPT ![t].fp = [cfg |-> job[t].seen, resolved |-> apiUp]]
           /\ Goto(t, "reserve")
  <2> DEFINE f == [cfg |-> job[t].seen, resolved |-> apiUp]
             j == [job[t] EXCEPT !.fp = f]
  <2>1. f \in Fingerprints /\ (calm => f = Now)
    BY <1>1 DEF Fingerprints, Now
  <2>2. Moves(t, "reserve", j)
    BY <1>1, <1>4 DEF Moves, Goto
  <2> HIDE DEF f
  <2>3. j \in Jobs /\ j.mine = None /\ j.victim = None /\ j.fp = f
    BY <1>1, <2>1 DEF Jobs
  <2> HIDE DEF j
  <2>4. Owned' /\ TypeOK'
    BY <1>1, <1>2, <2>2, <2>3, MoveKeepsOwned DEF IInv, TypeOK
  <2>5. calm' => CalmInv'
    BY <1>1, <1>2, <2>1, <2>2, <2>3, MoveKeepsCalm
  <2> QED BY <2>4, <2>5 DEF IInv
<1> QED BY <1>3, <1>4 DEF Parse

LEMMA RefreshKeeps ==
    ASSUME IInv, NEW t \in Threads, Refresh(t)
    PROVE  IInv'
<1>1. /\ pc[t] \notin Busy /\ pc[t] # "close" /\ "idle" \in Steps \ Busy
      /\ UNCHANGED <<row, cfg, apiUp, slot, sub, calm, faults, saves>>
  BY DEF Refresh, Busy, Steps
<1>2. Moves(t, "idle", NoJob) /\ NoJob \in Jobs /\ NoJob.mine = None /\ NoJob.victim = None
  BY <1>1, ReturnMoves DEF Refresh
<1>3. Owned' /\ TypeOK'
  BY <1>1, <1>2, MoveKeepsOwned DEF IInv, TypeOK
<1>4. calm' => CalmInv'
  BY <1>1, <1>2, MoveKeepsCalm
<1> QED BY <1>3, <1>4 DEF IInv

-----------------------------------------------------------------------------
(* The requests of the users, and the row.                                 *)

\* A save of an unchanged configuration, or one that creates the trigger while
\* the loop is not about to drop what it did not list.
LEMMA SaveKeeps ==
    ASSUME IInv, NEW h \in Handlers, Save(h)
    PROVE  IInv'
<1>1. /\ h \in Threads /\ h # Loop /\ pc[h] = "idle" /\ pc[h] \notin Busy /\ pc[h] # "close"
      /\ job[h] \in Jobs /\ job[h].mine = None /\ job[h].victim = None
      /\ "read" \in Steps \ Busy
      /\ row' = "live" /\ cfg' \in Configs /\ saves' \in 0 .. MaxSaves
      /\ UNCHANGED <<apiUp, slot, sub, job, faults>>
  BY JobsTyped, NothingReserved DEF Save, Busy, Steps, IInv, TypeOK, Threads
<1>2. Moves(h, "read", job[h])
  BY <1>1, GotoMoves DEF Save
<1>6. calm' \in BOOLEAN /\ (calm' => calm)
  BY DEF Save, IInv, TypeOK
<1>3. Owned' /\ TypeOK'
  BY <1>1, <1>2, <1>6, MoveKeepsOwned DEF IInv, TypeOK
<1>4. \A u \in Threads : pc'[u] = IF u = h THEN "read" ELSE pc[u]
  BY <1>1, <1>2 DEF Moves, IInv, TypeOK
<1>5. ASSUME calm' PROVE CalmInv'
  <2>1. calm /\ CalmInv
    BY <1>5 DEF Save, IInv
  <2>2. CASE row = "absent"
    <3>1. /\ slot = None /\ pc[Loop] # "drop"
          /\ \A s \in Subs : sub[s].client = "free"
          /\ \A u \in Threads : pc[u] \in {"idle", "read", "drop", "close"}
      BY <1>5, <2>1, <2>2 DEF CalmInv, NotBegun, Save
    <3>2. \A u \in Threads : pc[u] \notin Busy /\ job[u].mine = None
      BY <3>1 DEF IInv, Owned, JobsFit, Busy
    <3>3. CalmJobs'
      BY <1>1, <1>4, <2>1, <3>1, <3>2 DEF CalmInv, CalmJobs
    <3>4. CalmSubs' /\ NotBegun'
      BY <1>1, <3>1 DEF CalmSubs, NotBegun
    <3> QED BY <1>1, <2>1, <3>3, <3>4 DEF CalmInv
  <2>3. CASE row # "absent"
    <3>1. cfg' = cfg /\ Now' = Now
      BY <1>5, <2>3 DEF Save, Now
    <3>2. CalmJobs'
      BY <1>1, <1>4, <2>1, <2>3, <3>1 DEF CalmInv, CalmJobs
    <3>3. CalmSubs' /\ NotBegun'
      BY <1>1, <2>1, <3>1 DEF CalmInv, CalmSubs, NotBegun
    <3> QED BY <1>1, <2>1, <3>2, <3>3 DEF CalmInv
  <2> QED BY <2>2, <2>3
<1> QED BY <1>3, <1>5 DEF IInv

LEMMA DeleteKeeps ==
    ASSUME IInv, NEW h \in Handlers, Delete(h)
    PROVE  IInv'
<1>1. /\ h \in Threads /\ pc[h] = "idle" /\ pc[h] \notin Busy /\ pc[h] # "close"
      /\ job[h] \in Jobs /\ job[h].mine = None /\ job[h].victim = None
      /\ "drop" \in Steps \ Busy /\ calm' = FALSE
      /\ UNCHANGED <<row, cfg, apiUp, slot, sub, job, faults, saves>>
  BY JobsTyped, NothingReserved DEF Delete, Busy, Steps, Threads
<1>2. Moves(h, "drop", job[h])
  BY <1>1, GotoMoves DEF Delete
<1>3. Owned' /\ TypeOK'
  BY <1>1, <1>2, MoveKeepsOwned DEF IInv, TypeOK
<1> QED BY <1>1, <1>3 DEF IInv

LEMMA RemoveTriggerKeeps ==
    ASSUME IInv, NEW t \in Threads, RemoveTrigger(t)
    PROVE  IInv'
<1>1. /\ pc[t] = "remove" /\ pc[t] \notin Busy /\ pc[t] # "close"
      /\ job[t] \in Jobs /\ job[t].mine = None /\ job[t].victim = None
      /\ "idle" \in Steps \ Busy /\ row' \in {"absent", "live", "deleted"}
      /\ faults' \in 0 .. MaxFaults
      /\ UNCHANGED <<cfg, apiUp, slot, sub, job, calm, saves>>
  BY JobsTyped, NothingReserved DEF RemoveTrigger, Busy, Steps, Fault, IInv, TypeOK
<1>2. Moves(t, "idle", job[t])
  BY <1>1, GotoMoves DEF RemoveTrigger
<1>3. Owned' /\ TypeOK'
  BY <1>1, <1>2, MoveKeepsOwned DEF IInv, TypeOK
<1>4. ~calm
  BY <1>1 DEF IInv, CalmInv, CalmJobs
<1> QED BY <1>1, <1>3, <1>4 DEF IInv

LEMMA ApiKeeps ==
    ASSUME IInv, ApiOutage \/ ApiBack \/ UNCHANGED vars
    PROVE  IInv'
<1>1. UNCHANGED <<row, cfg, slot, sub, pc, job, saves>>
  BY DEF ApiOutage, ApiBack, vars
<1>5. faults' \in 0 .. MaxFaults
  BY DEF ApiOutage, ApiBack, vars, Fault, IInv, TypeOK
<1>6. apiUp' \in BOOLEAN /\ calm' \in BOOLEAN /\ (calm' => calm /\ (apiUp => apiUp'))
  <2>1. CASE apiUp' = FALSE /\ calm' = FALSE
    BY <2>1
  <2>2. CASE apiUp' = TRUE /\ calm' = calm
    BY <2>2 DEF IInv, TypeOK
  <2>3. CASE apiUp' = apiUp /\ calm' = calm
    BY <2>3 DEF IInv, TypeOK
  <2> QED BY <2>1, <2>2, <2>3 DEF ApiOutage, ApiBack, vars
<1>2. TypeOK'
  BY <1>1, <1>5, <1>6 DEF IInv, TypeOK
<1>3. Owned'
  BY <1>1 DEF IInv, Owned, JobsFit, Reserved, SlotInUse, LinksFit
<1>4. calm' => CalmInv'
  BY <1>1, <1>6 DEF IInv, CalmInv, CalmJobs, CalmSubs, NotBegun, Now
<1> QED BY <1>2, <1>3, <1>4 DEF IInv

-----------------------------------------------------------------------------
(* Steps that change the subscriptions.                                    *)

\* What goroutine t does to the program counters and the local variables.
LEMMA JobSet ==
    ASSUME IInv, NEW t \in Threads, NEW l \in Steps, NEW j \in Jobs,
           pc' = [pc EXCEPT ![t] = l], job' = [job EXCEPT ![t] = j]
    PROVE  /\ pc' \in [Threads -> Steps] /\ job' \in [Threads -> Jobs]
           /\ \A u \in Threads : /\ pc'[u] = IF u = t THEN l ELSE pc[u]
                                 /\ job'[u] = IF u = t THEN j ELSE job[u]
BY DEF IInv, TypeOK

LEMMA SubSet ==
    ASSUME IInv, NEW s \in Subs, NEW r \in Subscriptions, sub' = [sub EXCEPT ![s] = r]
    PROVE  /\ sub' \in [Subs -> Subscriptions]
           /\ \A x \in Subs : sub'[x] = IF x = s THEN r ELSE sub[x]
BY DEF IInv, TypeOK

LEMMA FreeFields ==
    /\ FreeSub \in Subscriptions /\ FreeSub.client = "free"
    /\ FreeSub.link = "down" /\ FreeSub.failed = FALSE
    /\ NoJob \in Jobs /\ NoJob.mine = None /\ NoJob.victim = None
BY DEF FreeSub, Subscriptions, Fingerprints, NoJob, Jobs

\* The slot goes to a subscription nobody else refers to.  While all is calm
\* nobody else has reserved one: what is reserved has the slot and is kept.
LEMMA ReserveKeeps ==
    ASSUME IInv, NEW t \in Threads, Reserve(t)
    PROVE  IInv'
<1> DEFINE s == CHOOSE x \in Unused : TRUE
           r == [FreeSub EXCEPT !.fp = job[t].fp, !.client = "none"]
           j == [job[t] EXCEPT !.mine = s, !.victim = slot]
<1>1. /\ s \in Subs /\ sub[s] = FreeSub
      /\ \A u \in Threads : s \notin {job[u].mine, job[u].victim}
  <2>1. s \in Unused
    BY DEF Reserve
  <2> QED BY <2>1 DEF Unused
<1>2. /\ pc[t] = "reserve" /\ job[t] \in Jobs /\ job[t].mine = None /\ job[t].victim = None
      /\ UNCHANGED <<row, cfg, apiUp, calm, faults, saves>>
      /\ slot \in Subs \cup {None}
  BY JobsTyped, NothingReserved DEF Reserve, IInv, TypeOK, Busy
<1>3. slot' = s /\ sub' = [sub EXCEPT ![s] = r]
  BY DEF Reserve
<1>4. pc' = [pc EXCEPT ![t] = "closePrevious"] /\ job' = [job EXCEPT ![t] = j]
  BY <1>2 DEF Reserve, Goto
<1> HIDE DEF s
<1>5. /\ r \in Subscriptions /\ r.fp = job[t].fp /\ r.client = "none"
      /\ r.link = "down" /\ r.failed = FALSE
  BY <1>2 DEF Jobs, FreeSub, Subscriptions
<1>6. j \in Jobs /\ j.mine = s /\ j.victim = slot /\ j.seen = job[t].seen /\ j.fp = job[t].fp
  BY <1>1, <1>2 DEF Jobs
<1> HIDE DEF r, j
<1>7. /\ pc' \in [Threads -> Steps] /\ job' \in [Threads -> Jobs]
      /\ \A u \in Threads : /\ pc'[u] = IF u = t THEN "closePrevious" ELSE pc[u]
                            /\ job'[u] = IF u = t THEN j ELSE job[u]
  <2>1. "closePrevious" \in Steps
    BY DEF Steps
  <2> QED BY <1>4, <1>6, <2>1, JobSet
<1>8. /\ sub' \in [Subs -> Subscriptions]
      /\ \A x \in Subs : sub'[x] = IF x = s THEN r ELSE sub[x]
  BY <1>1, <1>3, <1>5, SubSet
<1>9. sub[s].client = "free" /\ s # None /\ slot # s
  BY <1>1, FreeFields DEF IInv, Owned, SlotInUse
<1>10. TypeOK'
  BY <1>1, <1>2, <1>3, <1>7, <1>8 DEF IInv, TypeOK
<1>11. JobsFit'
  BY <1>6, <1>7, <1>9 DEF IInv, Owned, JobsFit, Busy
<1>12. Reserved'
  <2>1. \A u \in Threads : job'[u].mine # None => sub'[job'[u].mine].client = "none"
    BY <1>1, <1>5, <1>6, <1>7, <1>8 DEF IInv, Owned, Reserved, TypeOK, Jobs
  <2>2. \A u, v \in Threads : job'[u].mine = job'[v].mine /\ job'[u].mine # None => u = v
    BY <1>1, <1>6, <1>7 DEF IInv, Owned, Reserved
  <2>3. ASSUME NEW x \in Subs, sub'[x].client = "none" PROVE \E u \in Threads : job'[u].mine = x
    <3>1. CASE x = s
      BY <1>6, <1>7, <3>1
    <3>2. CASE x # s
      <4>1. PICK u \in Threads : job[u].mine = x
        BY <1>8, <2>3, <3>2 DEF IInv, Owned, Reserved
      <4>2. u # t
        BY <1>2, <4>1
      <4> QED BY <1>7, <4>1, <4>2
    <3> QED BY <3>1, <3>2
  <2> QED BY <2>1, <2>2, <2>3 DEF Reserved
<1>13. SlotInUse' /\ LinksFit'
  BY <1>1, <1>3, <1>5, <1>6, <1>7, <1>8, <1>9 DEF IInv, Owned, SlotInUse, LinksFit
<1>14. ASSUME calm PROVE CalmInv'
  <2>1. CalmInv /\ row # "absent" /\ job[t].fp = Now /\ Now' = Now
    BY <1>2, <1>14 DEF IInv, CalmInv, CalmJobs, NotBegun, Now
  <2>2. \A u \in Threads : job[u].mine = None
    <3> SUFFICES ASSUME NEW u \in Threads, job[u].mine # None PROVE FALSE
      OBVIOUS
    <3>1. slot = job[u].mine /\ slot \in Subs /\ sub[slot].client = "none"
      BY <1>2, <2>1 DEF IInv, Owned, Reserved, CalmInv, CalmJobs
    <3>2. ~sub[slot].failed /\ sub[slot].fp = Now
      BY <2>1, <3>1 DEF IInv, Owned, LinksFit, CalmInv, CalmSubs
    <3> QED BY <2>1, <3>1, <3>2 DEF Reserve, Keeps
  <2>3. CalmJobs'
    BY <1>2, <1>3, <1>6, <1>7, <2>1, <2>2 DEF CalmInv, CalmJobs
  <2>4. CalmSubs'
    <3>1. ASSUME NEW x \in Subs, sub'[x].client = "open"
          PROVE  x = slot' \/ \E u \in Threads : job'[u].victim = x
      <4>1. x # s /\ sub[x].client = "open"
        BY <1>5, <1>8, <3>1
      <4>2. CASE x = slot
        BY <1>6, <1>7, <4>2
      <4>3. CASE x # slot
        <5>1. PICK u \in Threads : job[u].victim = x
          BY <2>1, <4>1, <4>3 DEF CalmInv, CalmSubs
        <5>2. u # t
          BY <1>2, <5>1
        <5> QED BY <1>7, <5>1, <5>2
      <4> QED BY <4>2, <4>3
    <3>2. \A x \in Subs : sub'[x].client # "free" => sub'[x].fp = Now
      BY <1>5, <1>8, <2>1 DEF CalmInv, CalmSubs
    <3> QED BY <2>1, <3>1, <3>2 DEF CalmSubs
  <2> QED BY <1>2, <2>1, <2>3, <2>4 DEF CalmInv, NotBegun
<1> QED BY <1>2, <1>10, <1>11, <1>12, <1>13, <1>14 DEF IInv, Owned

\* closeClient frees what is connected and leaves alone what is not.
LEMMA ClosedFrees ==
    ASSUME IInv, NEW t \in Threads, sub' = Closed(job[t].victim)
    PROVE  /\ sub' \in [Subs -> Subscriptions]
           /\ \A x \in Subs : sub'[x] = IF x = job[t].victim /\ sub[x].client = "open"
                                        THEN FreeSub ELSE sub[x]
<1>1. job[t].victim \in Subs \cup {None}
  BY DEF IInv, TypeOK, Jobs
<1>2. CASE job[t].victim # None /\ sub[job[t].victim].client = "open"
  BY <1>1, <1>2, FreeFields, SubSet DEF Closed
<1>3. CASE ~(job[t].victim # None /\ sub[job[t].victim].client = "open")
  BY <1>1, <1>3 DEF Closed, IInv, TypeOK
<1> QED BY <1>2, <1>3

\* The victim is closed: it is not in the slot, and one that is reserved has
\* no client yet and is left alone.
LEMMA CloseKeepsOwned ==
    ASSUME IInv, NEW t \in Threads, NEW l \in Steps, NEW j \in Jobs,
           j.mine = job[t].mine, j.victim = None,
           pc[t] \in Busy <=> l \in Busy, l \notin {"lease", "parse"},
           pc' = [pc EXCEPT ![t] = l], job' = [job EXCEPT ![t] = j],
           sub' = Closed(job[t].victim), UNCHANGED slot
    PROVE  /\ pc' \in [Threads -> Steps] /\ job' \in [Threads -> Jobs]
           /\ sub' \in [Subs -> Subscriptions]
           /\ Owned'
<1>1. /\ pc' \in [Threads -> Steps] /\ job' \in [Threads -> Jobs]
      /\ \A u \in Threads : /\ pc'[u] = IF u = t THEN l ELSE pc[u]
                            /\ job'[u] = IF u = t THEN j ELSE job[u]
  BY JobSet
<1>2. /\ sub' \in [Subs -> Subscriptions]
      /\ \A x \in Subs : sub'[x] = IF x = job[t].victim /\ sub[x].client = "open"
                                   THEN FreeSub ELSE sub[x]
  BY ClosedFrees
<1>3. \A u \in Threads : job'[u].mine = job[u].mine
  BY <1>1
<1>4. JobsFit'
  BY <1>1 DEF IInv, Owned, JobsFit, Busy
<1>5. \A x \in Subs : sub'[x].client = "none" <=> sub[x].client = "none"
  BY <1>2, FreeFields
<1>6. Reserved'
  BY <1>3, <1>5 DEF IInv, Owned, Reserved, TypeOK, Jobs
<1>7. SlotInUse'
  BY <1>1, <1>2 DEF IInv, Owned, SlotInUse, TypeOK
<1>8. LinksFit'
  BY <1>2, FreeFields DEF IInv, Owned, LinksFit
<1> QED BY <1>1, <1>2, <1>4, <1>6, <1>7, <1>8 DEF Owned

LEMMA ClosePreviousKeeps ==
    ASSUME IInv, NEW t \in Threads, ClosePrevious(t)
    PROVE  IInv'
<1> DEFINE j == [job[t] EXCEPT !.victim = None]
<1>1. /\ pc[t] = "closePrevious" /\ job[t] \in Jobs /\ sub' = Closed(job[t].victim)
      /\ UNCHANGED <<row, cfg, apiUp, slot, calm, faults, saves>>
      /\ pc' = [pc EXCEPT ![t] = "dial"] /\ job' = [job EXCEPT ![t] = j]
  BY JobsTyped DEF ClosePrevious, Goto
<1>2. j \in Jobs /\ j.mine = job[t].mine /\ j.victim = None
  BY <1>1 DEF Jobs
<1> HIDE DEF j
<1>3. /\ "dial" \in Steps
      /\ pc[t] \in Busy <=> "dial" \in Busy
  BY <1>1 DEF Steps, Busy
<1>4. Owned' /\ TypeOK'
  BY <1>1, <1>2, <1>3, CloseKeepsOwned DEF IInv, TypeOK
<1>5. \A u \in Threads : /\ pc'[u] = IF u = t THEN "dial" ELSE pc[u]
                         /\ job'[u] = IF u = t THEN j ELSE job[u]
  BY <1>1, <1>2, <1>3, JobSet
<1>6. \A x \in Subs : sub'[x] = IF x = job[t].victim /\ sub[x].client = "open"
                                THEN FreeSub ELSE sub[x]
  BY <1>1, ClosedFrees
<1>7. ASSUME calm PROVE CalmInv'
  <2>1. CalmInv /\ row # "absent" /\ Now' = Now
    BY <1>1, <1>7 DEF IInv, CalmInv, NotBegun, Now
  <2>2. CalmJobs'
    BY <1>1, <1>2, <1>5, <2>1 DEF CalmInv, CalmJobs
  <2>3. CalmSubs'
    <3>1. ASSUME NEW x \in Subs, sub'[x].client = "open"
          PROVE  x = slot' \/ \E u \in Threads : job'[u].victim = x
      <4>1. x # job[t].victim /\ sub[x].client = "open"
        BY <1>6, <3>1, FreeFields
      <4> QED BY <1>1, <1>5, <2>1, <4>1 DEF CalmInv, CalmSubs
    <3>2. \A x \in Subs : sub'[x].client # "free" => sub'[x].fp = Now
      BY <1>6, <2>1, FreeFields DEF CalmInv, CalmSubs
    <3> QED BY <2>1, <3>1, <3>2 DEF CalmSubs
  <2> QED BY <1>1, <2>1, <2>2, <2>3 DEF CalmInv, NotBegun
<1> QED BY <1>1, <1>4, <1>7 DEF IInv

LEMMA CloseKeeps ==
    ASSUME IInv, NEW t \in Threads, Close(t)
    PROVE  IInv'
<1> DEFINE l == IF t = Loop THEN "idle" ELSE "remove"
<1>1. /\ pc[t] = "close" /\ sub' = Closed(job[t].victim) /\ job[t].mine = None
      /\ UNCHANGED <<row, cfg, apiUp, slot, calm, faults, saves>>
      /\ pc' = [pc EXCEPT ![t] = l] /\ job' = [job EXCEPT ![t] = NoJob]
  BY DEF Close, Goto, IInv, Owned, JobsFit, Busy
<1>2. /\ l \in Steps /\ l \notin {"lease", "parse", "reserve", "drop", "close"}
      /\ pc[t] \in Busy <=> l \in Busy
  BY <1>1 DEF Steps, Busy
<1>3. l = "remove" => t # Loop
  OBVIOUS
<1> HIDE DEF l
<1>4. Owned' /\ TypeOK'
  BY <1>1, <1>2, FreeFields, CloseKeepsOwned DEF IInv, TypeOK
<1>5. \A u \in Threads : /\ pc'[u] = IF u = t THEN l ELSE pc[u]
                         /\ job'[u] = IF u = t THEN NoJob ELSE job[u]
  BY <1>1, <1>2, FreeFields, JobSet
<1>6. ASSUME calm PROVE CalmInv'
  <2>1. CalmInv /\ Now' = Now
    BY <1>1, <1>6 DEF IInv, Now
  <2>2. t = Loop /\ l = "idle" /\ job[t].victim = None
    BY <1>1, <2>1 DEF CalmInv, CalmJobs, l
  <2>3. sub' = sub
    BY <1>1, <2>2 DEF Closed
  <2>4. CalmJobs' /\ NotBegun'
    BY <1>1, <1>5, <2>1, <2>2, <2>3, FreeFields DEF CalmInv, CalmJobs, NotBegun
  <2>5. CalmSubs'
    BY <1>1, <1>5, <2>1, <2>2, <2>3 DEF CalmInv, CalmSubs
  <2> QED BY <1>1, <2>1, <2>4, <2>5 DEF CalmInv
<1> QED BY <1>1, <1>4, <1>6 DEF IInv

\* The reservation becomes a connection, or the goroutine will give it back.
LEMMA DialKeeps ==
    ASSUME IInv, NEW t \in Threads, Dial(t)
    PROVE  IInv'
<1> DEFINE m == job[t].mine
           r == [sub[m] EXCEPT !.client = "open"]
<1>1. /\ pc[t] = "dial" /\ job[t] \in Jobs /\ m \in Subs /\ sub[m].client = "none"
      /\ job[t].victim = None
      /\ UNCHANGED <<row, cfg, apiUp, slot, calm, faults, saves>>
      /\ {"giveBack", "idle"} \subseteq Steps
      /\ sub[m] \in Subscriptions
  BY DEF Dial, IInv, TypeOK, Owned, JobsFit, Reserved, Jobs, Busy, Steps
<1>2. CASE Goto(t, "giveBack") /\ UNCHANGED <<sub, job>>
  <2>1. /\ pc' \in [Threads -> Steps]
        /\ \A u \in Threads : pc'[u] = IF u = t THEN "giveBack" ELSE pc[u]
    BY <1>1, <1>2 DEF Goto, IInv, TypeOK
  <2>2. TypeOK'
    BY <1>1, <1>2, <2>1 DEF IInv, TypeOK
  <2>3. Owned'
    BY <1>1, <1>2, <2>1 DEF IInv, Owned, JobsFit, Reserved, SlotInUse, LinksFit, Busy
  <2>4. ASSUME calm PROVE CalmInv'
    <3>1. CalmInv /\ Now' = Now /\ row # "absent"
      BY <1>1, <2>4 DEF IInv, CalmInv, NotBegun, Now
    <3>2. CalmJobs'
      BY <1>1, <1>2, <2>1, <3>1 DEF CalmInv, CalmJobs
    <3>3. CalmSubs'
      BY <1>1, <1>2, <3>1 DEF CalmInv, CalmSubs
    <3> QED BY <1>1, <3>1, <3>2, <3>3 DEF CalmInv, NotBegun
  <2> QED BY <1>1, <2>2, <2>3, <2>4 DEF IInv
<1>3. CASE sub' = [sub EXCEPT ![m].client = "open"] /\ Return(t)
  <2>1. sub' = [sub EXCEPT ![m] = r]
    BY <1>3
  <2>2. r \in Subscriptions /\ r.client = "open" /\ r.fp = sub[m].fp
        /\ r.link = sub[m].link /\ r.failed = sub[m].failed
    BY <1>1 DEF Subscriptions
  <2> HIDE DEF r
  <2>3. /\ sub' \in [Subs -> Subscriptions]
        /\ \A x \in Subs : sub'[x] = IF x = m THEN r ELSE sub[x]
    BY <1>1, <2>1, <2>2, SubSet
  <2>4. /\ pc' \in [Threads -> Steps] /\ job' \in [Threads -> Jobs]
        /\ \A u \in Threads : /\ pc'[u] = IF u = t THEN "idle" ELSE pc[u]
                              /\ job'[u] = IF u = t THEN NoJob ELSE job[u]
    BY <1>1, <1>3, FreeFields, JobSet DEF Return, Goto
  <2>5. TypeOK'
    BY <1>1, <2>3, <2>4 DEF IInv, TypeOK
  <2>6. JobsFit'
    BY <2>4, FreeFields DEF IInv, Owned, JobsFit, Busy
  <2>7. Reserved'
    <3>1. \A u \in Threads : u # t /\ job[u].mine # None =>
              job[u].mine \in Subs /\ job[u].mine # m
      BY <1>1 DEF IInv, Owned, Reserved, TypeOK, Jobs
    <3>2. \A u \in Threads : job'[u].mine # None => sub'[job'[u].mine].client = "none"
      BY <2>3, <2>4, <3>1, FreeFields DEF IInv, Owned, Reserved
    <3>3. \A u, v \in Threads : job'[u].mine = job'[v].mine /\ job'[u].mine # None => u = v
      BY <2>4, FreeFields DEF IInv, Owned, Reserved
    <3>4. ASSUME NEW x \in Subs, sub'[x].client = "none"
          PROVE  \E u \in Threads : job'[u].mine = x
      <4>1. x # m /\ sub[x].client = "none"
        BY <2>2, <2>3, <3>4
      <4>2. PICK u \in Threads : job[u].mine = x
        BY <4>1 DEF IInv, Owned, Reserved
      <4> QED BY <2>4, <4>1, <4>2
    <3> QED BY <3>2, <3>3, <3>4 DEF Reserved
  <2>8. SlotInUse' /\ LinksFit'
    BY <1>1, <2>2, <2>3, <2>4, FreeFields DEF IInv, Owned, SlotInUse, LinksFit, TypeOK
  <2>9. ASSUME calm PROVE CalmInv'
    <3>1. CalmInv /\ Now' = Now /\ row # "absent" /\ m = slot
      BY <1>1, <2>9 DEF IInv, CalmInv, CalmJobs, NotBegun, Now
    <3>2. CalmJobs'
      BY <1>1, <2>4, <3>1, FreeFields DEF CalmInv, CalmJobs
    <3>3. CalmSubs'
      <4>1. ASSUME NEW x \in Subs, sub'[x].client = "open", x # slot'
            PROVE  \E u \in Threads : job'[u].victim = x
        <5>1. sub[x].client = "open"
          BY <1>1, <2>3, <3>1, <4>1
        <5>2. PICK u \in Threads : job[u].victim = x
          BY <1>1, <3>1, <4>1, <5>1 DEF CalmInv, CalmSubs
        <5>3. u # t
          BY <1>1, <4>1, <5>2
        <5> QED BY <2>4, <5>2, <5>3
      <4>2. \A x \in Subs : sub'[x].client # "free" => sub'[x].fp = Now
        BY <1>1, <2>2, <2>3, <3>1 DEF CalmInv, CalmSubs
      <4> QED BY <3>1, <4>1, <4>2 DEF CalmSubs
    <3> QED BY <1>1, <3>1, <3>2, <3>3 DEF CalmInv, NotBegun
  <2> QED BY <1>1, <2>5, <2>6, <2>7, <2>8, <2>9 DEF IInv, Owned
<1> QED BY <1>2, <1>3 DEF Dial

\* The reservation is given back, and with it the slot if it is still this one.
LEMMA GiveBackKeeps ==
    ASSUME IInv, NEW t \in Threads, GiveBack(t)
    PROVE  IInv'
<1> DEFINE m == job[t].mine
<1>1. /\ pc[t] = "giveBack" /\ job[t] \in Jobs /\ m \in Subs /\ sub[m].client = "none"
      /\ job[t].victim = None
      /\ slot' = (IF slot = m THEN None ELSE slot) /\ sub' = [sub EXCEPT ![m] = FreeSub]
      /\ UNCHANGED <<row, cfg, apiUp, calm, faults, saves>> /\ "idle" \in Steps
  BY DEF GiveBack, IInv, TypeOK, Owned, JobsFit, Reserved, Jobs, Busy, Steps
<1>2. /\ sub' \in [Subs -> Subscriptions]
      /\ \A x \in Subs : sub'[x] = IF x = m THEN FreeSub ELSE sub[x]
  BY <1>1, FreeFields, SubSet
<1>3. /\ pc' \in [Threads -> Steps] /\ job' \in [Threads -> Jobs]
      /\ \A u \in Threads : /\ pc'[u] = IF u = t THEN "idle" ELSE pc[u]
                            /\ job'[u] = IF u = t THEN NoJob ELSE job[u]
  BY <1>1, FreeFields, JobSet DEF GiveBack, Return, Goto
<1>4. TypeOK'
  BY <1>1, <1>2, <1>3 DEF IInv, TypeOK
<1>5. JobsFit'
  BY <1>3, FreeFields DEF IInv, Owned, JobsFit, Busy
<1>6. Reserved'
  <2>1. \A u \in Threads : u # t /\ job[u].mine # None =>
            job[u].mine \in Subs /\ job[u].mine # m
    BY <1>1 DEF IInv, Owned, Reserved, TypeOK, Jobs
  <2>2. \A u \in Threads : job'[u].mine # None => sub'[job'[u].mine].client = "none"
    BY <1>2, <1>3, <2>1, FreeFields DEF IInv, Owned, Reserved
  <2>3. \A u, v \in Threads : job'[u].mine = job'[v].mine /\ job'[u].mine # None => u = v
    BY <1>3, FreeFields DEF IInv, Owned, Reserved
  <2>4. ASSUME NEW x \in Subs, sub'[x].client = "none"
        PROVE  \E u \in Threads : job'[u].mine = x
    <3>1. x # m /\ sub[x].client = "none"
      BY <1>2, <2>4, FreeFields
    <3>2. PICK u \in Threads : job[u].mine = x
      BY <3>1 DEF IInv, Owned, Reserved
    <3> QED BY <1>3, <3>1, <3>2
  <2> QED BY <2>2, <2>3, <2>4 DEF Reserved
<1>7. SlotInUse' /\ LinksFit'
  BY <1>1, <1>2, <1>3, FreeFields DEF IInv, Owned, SlotInUse, LinksFit, TypeOK
<1>8. ASSUME calm PROVE CalmInv'
  <2>1. CalmInv /\ Now' = Now /\ row # "absent" /\ m = slot /\ slot' = None
    BY <1>1, <1>8 DEF IInv, CalmInv, CalmJobs, NotBegun, Now
  <2>2. \A u \in Threads : u # t => job[u].mine = None
    BY <1>1, <2>1 DEF IInv, Owned, Reserved, CalmInv, CalmJobs
  <2>3. CalmJobs'
    BY <1>1, <1>3, <2>1, <2>2, FreeFields DEF CalmInv, CalmJobs
  <2>4. CalmSubs'
    <3>1. ASSUME NEW x \in Subs, sub'[x].client = "open"
          PROVE  \E u \in Threads : job'[u].victim = x
      <4>1. x # m /\ sub[x].client = "open"
        BY <1>2, <3>1, FreeFields
      <4>2. PICK u \in Threads : job[u].victim = x
        BY <2>1, <4>1 DEF CalmInv, CalmSubs
      <4>3. u # t
        BY <1>1, <4>2
      <4> QED BY <1>3, <4>2, <4>3
    <3>2. \A x \in Subs : sub'[x].client # "free" => sub'[x].fp = Now
      BY <1>2, <2>1, FreeFields DEF CalmInv, CalmSubs
    <3> QED BY <2>1, <3>1, <3>2 DEF CalmSubs
  <2> QED BY <1>1, <2>1, <2>3, <2>4 DEF CalmInv, NotBegun
<1> QED BY <1>1, <1>4, <1>5, <1>6, <1>7, <1>8 DEF IInv, Owned

\* The slot is emptied.  While all is calm only the loop does so, before the
\* trigger is there, and the slot is empty.
LEMMA DropKeeps ==
    ASSUME IInv, NEW t \in Threads, Drop(t)
    PROVE  IInv'
<1> DEFINE j == [NoJob EXCEPT !.victim = slot]
<1>1. /\ pc[t] = "drop" /\ job[t].mine = None /\ job[t].victim = None
      /\ slot \in Subs \cup {None} /\ slot' = None /\ "close" \in Steps
      /\ UNCHANGED <<row, cfg, apiUp, sub, calm, faults, saves>>
  BY NothingReserved DEF Drop, IInv, TypeOK, Busy, Steps
<1>2. j \in Jobs /\ j.mine = None /\ j.victim = slot
  BY <1>1 DEF Jobs, NoJob, Fingerprints
<1>3. /\ pc' \in [Threads -> Steps] /\ job' \in [Threads -> Jobs]
      /\ \A u \in Threads : /\ pc'[u] = IF u = t THEN "close" ELSE pc[u]
                            /\ job'[u] = IF u = t THEN j ELSE job[u]
  <2> HIDE DEF j
  <2>1. pc' = [pc EXCEPT ![t] = "close"] /\ job' = [job EXCEPT ![t] = j]
    BY DEF Drop, Goto, j
  <2> QED BY <1>1, <1>2, <2>1, JobSet
<1> HIDE DEF j
<1>4. TypeOK'
  BY <1>1, <1>3 DEF IInv, TypeOK
<1>5. \A u \in Threads : job'[u].mine = job[u].mine
  BY <1>1, <1>2, <1>3
<1>6. JobsFit'
  BY <1>2, <1>3 DEF IInv, Owned, JobsFit, Busy
<1>7. Reserved' /\ SlotInUse' /\ LinksFit'
  BY <1>1, <1>5 DEF IInv, Owned, Reserved, SlotInUse, LinksFit
<1>8. ASSUME calm PROVE CalmInv'
  <2>1. CalmInv /\ Now' = Now /\ t = Loop /\ row = "absent" /\ slot = None
    BY <1>1, <1>8 DEF IInv, CalmInv, CalmJobs, NotBegun, Now
  <2>2. CalmJobs' /\ NotBegun'
    BY <1>1, <1>2, <1>3, <2>1 DEF CalmInv, CalmJobs, NotBegun
  <2>3. CalmSubs'
    BY <1>1, <2>1 DEF CalmInv, CalmSubs, NotBegun
  <2> QED BY <1>1, <2>1, <2>2, <2>3 DEF CalmInv
<1> QED BY <1>1, <1>4, <1>6, <1>7, <1>8 DEF IInv, Owned

\* The broker side.
LEMMA LinkKeeps ==
    ASSUME IInv, NEW s \in Subs, Connect(s) \/ ConnectionLost(s)
    PROVE  IInv'
<1>1. /\ sub[s].client = "open" /\ sub[s] \in Subscriptions
      /\ UNCHANGED <<row, cfg, apiUp, slot, pc, job, calm, faults, saves>>
  BY DEF Connect, ConnectionLost, IInv, TypeOK
<1>2. PICK r \in Subscriptions :
          /\ sub' = [sub EXCEPT ![s] = r]
          /\ r.client = "open" /\ r.fp = sub[s].fp /\ (r.link = "accepted" => ~r.failed)
  <2>1. CASE sub' = [sub EXCEPT ![s].link = "accepted", ![s].failed = FALSE]
    <3> DEFINE r == [sub[s] EXCEPT !.link = "accepted", !.failed = FALSE]
    <3>1. r \in Subscriptions /\ r.client = "open" /\ r.fp = sub[s].fp /\ r.failed = FALSE
      BY <1>1 DEF Subscriptions
    <3>2. sub' = [sub EXCEPT ![s] = r]
      BY <2>1 DEF IInv, TypeOK
    <3> QED BY <3>1, <3>2
  <2>2. CASE sub' = [sub EXCEPT ![s].link = "rejected", ![s].failed = TRUE]
    <3> DEFINE r == [sub[s] EXCEPT !.link = "rejected", !.failed = TRUE]
    <3>1. r \in Subscriptions /\ r.client = "open" /\ r.fp = sub[s].fp /\ r.link = "rejected"
      BY <1>1 DEF Subscriptions
    <3>2. sub' = [sub EXCEPT ![s] = r]
      BY <2>2 DEF IInv, TypeOK
    <3> QED BY <3>1, <3>2
  <2>3. CASE sub' = [sub EXCEPT ![s].link = "down"]
    <3> DEFINE r == [sub[s] EXCEPT !.link = "down"]
    <3>1. r \in Subscriptions /\ r.client = "open" /\ r.fp = sub[s].fp /\ r.link = "down"
      BY <1>1 DEF Subscriptions
    <3>2. sub' = [sub EXCEPT ![s] = r]
      BY <2>3
    <3> QED BY <3>1, <3>2
  <2> QED BY <2>1, <2>2, <2>3 DEF Connect, ConnectionLost
<1>3. /\ sub' \in [Subs -> Subscriptions]
      /\ \A x \in Subs : sub'[x] = IF x = s THEN r ELSE sub[x]
  BY <1>2, SubSet
<1>4. /\ \A x \in Subs : sub'[x].client = sub[x].client /\ sub'[x].fp = sub[x].fp
      /\ LinksFit'
  BY <1>1, <1>2, <1>3 DEF IInv, Owned, LinksFit
<1>5. TypeOK'
  BY <1>1, <1>3 DEF IInv, TypeOK
<1>6. JobsFit' /\ SlotInUse'
  BY <1>1, <1>4 DEF IInv, Owned, JobsFit, SlotInUse, TypeOK
<1>7. Reserved'
  BY <1>1, <1>4 DEF IInv, Owned, Reserved, TypeOK, Jobs
<1>8. calm => CalmInv'
  BY <1>1, <1>4 DEF IInv, CalmInv, CalmJobs, CalmSubs, NotBegun, Now
<1> QED BY <1>1, <1>4, <1>5, <1>6, <1>7, <1>8 DEF IInv, Owned

-----------------------------------------------------------------------------
(* The theorems.                                                           *)

LEMMA NextKeeps == IInv /\ [Next]_vars => IInv'
<1> SUFFICES ASSUME IInv, [Next]_vars PROVE IInv'
  OBVIOUS
<1>1. CASE Wake \/ ApiOutage \/ ApiBack \/ UNCHANGED vars
  BY <1>1, WakeKeeps, ApiKeeps
<1>2. CASE \E h \in Handlers : Save(h) \/ Delete(h)
  BY <1>2, SaveKeeps, DeleteKeeps
<1>3. ASSUME NEW t \in Threads, Step(t) PROVE IInv'
  <2>1. CASE ReadRow(t) \/ Lease(t) \/ RemoveTrigger(t)
    BY <2>1, ReadRowKeeps, LeaseKeeps, RemoveTriggerKeeps
  <2>2. CASE Parse(t) \/ Refresh(t) \/ Reserve(t)
    BY <2>2, ParseKeeps, RefreshKeeps, ReserveKeeps
  <2>3. CASE ClosePrevious(t) \/ Dial(t) \/ GiveBack(t)
    BY <2>3, ClosePreviousKeeps, DialKeeps, GiveBackKeeps
  <2>4. CASE Drop(t) \/ Close(t)
    BY <2>4, DropKeeps, CloseKeeps
  <2> QED BY <1>3, <2>1, <2>2, <2>3, <2>4 DEF Step, Ensure
<1>4. CASE \E s \in Subs : Connect(s) \/ ConnectionLost(s)
  BY <1>4, LinkKeeps
<1> QED BY <1>1, <1>2, <1>3, <1>4 DEF Next

\* Who has reserved a subscription, who may close it and what they know of it:
\* the inductive invariant of ensure, dial, disconnect and their callers.
THEOREM ConnectionInvariant == Spec => []IInv
BY InitIInv, NextKeeps, PTL DEF Spec

THEOREM ConnectionTypes == Spec => []TypeOK
<1>1. IInv => TypeOK
  BY DEF IInv
<1> QED BY <1>1, ConnectionInvariant, PTL

\* "Give the slot back": when every goroutine is done the slot is empty or its
\* subscription has a client, whatever was edited, deleted, denied or rejected.
THEOREM NoDeadSlot == Spec => []SlotIsBacked
<1>1. IInv => SlotIsBacked
  <2> SUFFICES ASSUME IInv, Quiet, slot # None PROVE sub[slot].client = "open"
    BY DEF SlotIsBacked
  <2>1. slot \in Subs /\ sub[slot].client \in {"none", "open"}
    BY DEF IInv, TypeOK, Owned, SlotInUse, Subscriptions
  <2>2. \A t \in Threads : job[t].mine = None
    BY DEF IInv, Owned, JobsFit, Quiet, Busy
  <2>3. sub[slot].client # "none"
    BY <2>1, <2>2 DEF IInv, Owned, Reserved
  <2> QED BY <2>1, <2>3
<1> QED BY <1>1, ConnectionInvariant, PTL

\* Reserving the slot makes two clients impossible, as long as all that happens
\* is saves of an unchanged configuration.
THEOREM ReservationSuffices == Spec => []OneClientWhileCalm
<1>1. IInv => OneClientWhileCalm
  <2> SUFFICES ASSUME IInv, calm PROVE Cardinality(Clients) <= 1
    BY DEF OneClientWhileCalm, OneClient
  <2>1. CalmInv
    BY DEF IInv
  <2>2. ASSUME NEW t \in Threads, job[t].victim # None
        PROVE  job[t].mine # None /\ slot = job[t].mine /\ sub[slot].client = "none"
    BY <2>1, <2>2 DEF IInv, Owned, JobsFit, Reserved, CalmInv, CalmJobs, Busy
  <2>3. ASSUME NEW x \in Clients, NEW y \in Clients PROVE x = y
    <3>1. /\ x \in Subs /\ sub[x].client = "open"
          /\ y \in Subs /\ sub[y].client = "open"
      BY DEF Clients
    <3>2. /\ x = slot \/ \E t \in Threads : job[t].victim = x
          /\ y = slot \/ \E t \in Threads : job[t].victim = y
      BY <2>1, <3>1 DEF CalmInv, CalmSubs
    <3>3. CASE x = slot \/ y = slot
      BY <2>2, <3>1, <3>2, <3>3
    <3>4. CASE x # slot /\ y # slot
      <4>1. PICK t \in Threads : job[t].victim = x
        BY <3>2, <3>4
      <4>2. PICK u \in Threads : job[u].victim = y
        BY <3>2, <3>4
      <4>3. t = u
        BY <2>2, <3>1, <4>1, <4>2 DEF IInv, Owned, Reserved
      <4> QED BY <4>1, <4>2, <4>3
    <3> QED BY <3>3, <3>4
  <2>4. CASE Clients = {}
    BY <2>4, FS_EmptySet
  <2>5. CASE Clients # {}
    <3>1. PICK x \in Clients : TRUE
      BY <2>5
    <3>2. Clients = {x}
      BY <2>3, <3>1
    <3>3. Cardinality(Clients) = 1
      BY <3>2, FS_Singleton
    <3> QED BY <3>3
  <2> QED BY <2>4, <2>5
<1> QED BY <1>1, ConnectionInvariant, PTL

\* An accepted connection on the same configuration is left alone: ensure keeps
\* it, nobody gives it back and nobody drops it.
THEOREM AcceptedStays == Spec => HealthyLeftAlone
<1>1. IInv /\ [Next]_vars => (calm' /\ slot # None /\ sub[slot].link = "accepted" => slot' = slot)
  <2> SUFFICES ASSUME IInv, [Next]_vars, calm', slot # None, sub[slot].link = "accepted",
                      slot' # slot
               PROVE  FALSE
    OBVIOUS
  <2>1. PICK t \in Threads : Reserve(t) \/ GiveBack(t) \/ Drop(t)
    BY DEF Next, Wake, ApiOutage, ApiBack, Save, Delete, Step, Ensure, ReadRow, Lease, Parse,
           Refresh, ClosePrevious, Dial, Close, RemoveTrigger, Connect, ConnectionLost, vars
  <2>2. calm /\ CalmInv
    BY <2>1 DEF Reserve, GiveBack, Drop, IInv
  <2>3. slot \in Subs /\ sub[slot].client = "open" /\ ~sub[slot].failed /\ sub[slot].fp = Now
    BY <2>2 DEF IInv, TypeOK, Owned, LinksFit, CalmInv, CalmSubs
  <2>4. CASE Reserve(t)
    <3>1. job[t].fp = Now
      BY <2>2, <2>4 DEF Reserve, CalmInv, CalmJobs
    <3> QED BY <2>3, <2>4, <3>1 DEF Reserve, Keeps
  <2>5. CASE GiveBack(t)
    BY <2>3, <2>5 DEF GiveBack, IInv, Owned, Reserved
  <2>6. CASE Drop(t)
    BY <2>2, <2>6 DEF Drop, CalmInv, CalmJobs, NotBegun
  <2> QED BY <2>1, <2>4, <2>5, <2>6
<1> QED BY <1>1, ConnectionInvariant, PTL DEF Spec, HealthyLeftAlone
=============================================================================
