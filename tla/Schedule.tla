------------------------------ MODULE Schedule ------------------------------
(***************************************************************************)
(* One schedule trigger and the Launch instances that poll it              *)
(* (internal/schedule/service.go).                                         *)
(*                                                                         *)
(* Every instance reads its clock, takes the trigger's lease, reads the    *)
(* time of the last run, decides, stores the new time and only then starts *)
(* the flow.  The time of the last run is a row of trigger_state, and each *)
(* instance keeps a copy in memory that it never reads again from the row. *)
(* The other instances, the clock and a crash come between any two steps.  *)
(*                                                                         *)
(* The calendar is abstracted from: here a schedule is due once            *)
(* in every period, from its target on ("daily"), or when the last run is  *)
(* a period old ("interval").                                              *)
(***************************************************************************)
EXTENDS TriggerLease, Sequences

CONSTANTS Period,      \* the interval, or the length of a day
          Target,      \* time_of_day
          Holidays,    \* days that are excluded
          Overrun,     \* whether a check can outlive its lease
          MaxTime,     \* bound on the clock
          MaxFaults,   \* bound on failed statements and calls
          None

ASSUME ScheduleAssumption ==
    /\ Period \in Nat \ {0} /\ Target \in 0 .. Period - 1
    /\ Holidays \subseteq Nat /\ Overrun \in BOOLEAN
    /\ MaxTime \in Nat /\ MaxFaults \in Nat
    /\ None \notin Nat

Times == 0 .. MaxTime

VARIABLES
    mode,      \* the trigger's configured mode
    clock,
    stored,    \* the last_fired row of trigger_state, or None
    process,   \* process[i]: "new" (not started), "up", "crashed"
    cache,     \* cache[i]: lastFired in memory, or None
    check,     \* check[i]: where checkTrigger is and the time it works with
    history,   \* the times stored so far: the first sight, then the runs
    runs,      \* the runs so far: who started the flow, and with which time
    late,      \* who lost its lease while it was checking or remembered a time
    outlived,  \* whether any of them has stored a time nevertheless
    faults

scheduleVars == <<mode, clock, stored, process, cache, check, history, runs,
                  late, outlived, faults>>
vars == <<leaseVars, scheduleVars>>

Idle == [at |-> "idle", now |-> 0]
Checks == [at : {"idle", "lease", "read", "first", "store", "fire"}, now : Times]

TypeOK ==
    /\ LeaseTypeOK
    /\ mode \in {"daily", "interval"}
    /\ clock \in Times /\ stored \in Times \cup {None}
    /\ process \in [Instances -> {"new", "up", "crashed"}]
    /\ cache \in [Instances -> Times \cup {None}]
    /\ check \in [Instances -> Checks]
    /\ history \in Seq(Times) /\ runs \in Seq([by : Instances, at : Times])
    /\ late \subseteq Instances /\ outlived \in BOOLEAN
    /\ faults \in 0 .. MaxFaults

Init ==
    /\ LeaseInit
    /\ mode \in {"daily", "interval"}
    /\ clock = 0 /\ stored = None
    /\ process = [i \in Instances |-> "new"]
    /\ cache = [i \in Instances |-> None]
    /\ check = [i \in Instances |-> Idle]
    /\ history = <<>> /\ runs = <<>>
    /\ late = {} /\ outlived = FALSE
    /\ faults = 0

Fault == faults < MaxFaults /\ faults' = faults + 1
Goto(i, l) == check' = [check EXCEPT ![i].at = l]
Return(i) == check' = [check EXCEPT ![i] = Idle]

-----------------------------------------------------------------------------
(* ShouldFire *)

TargetOf(now) == (now \div Period) * Period + Target

DueDaily(last, now) == now > TargetOf(now) /\ last < TargetOf(now)

DueInterval(last, now) == now - last >= Period

Due(last, now) == IF mode = "daily" THEN DueDaily(last, now) ELSE DueInterval(last, now)

Excluded(now) == (now \div Period) \in Holidays

ShouldRun(last, now) == ~Excluded(now) /\ Due(last, now)

-----------------------------------------------------------------------------
(* Processes. *)

\* NewService: a fresh instanceID and an empty lastFired.
Start(i) ==
    /\ process[i] = "new"
    /\ process' = [process EXCEPT ![i] = "up"]
    /\ UNCHANGED <<leaseVars, mode, clock, stored, cache, check, history, runs, late, outlived, faults>>

\* Somebody is left to go on.
Crash(i) ==
    /\ process[i] = "up"
    /\ \E j \in Instances \ {i} : process[j] # "crashed"
    /\ process' = [process EXCEPT ![i] = "crashed"]
    /\ cache' = [cache EXCEPT ![i] = None]
    /\ Return(i)
    /\ UNCHANGED <<leaseVars, mode, clock, stored, history, runs, late, outlived, faults>>

-----------------------------------------------------------------------------
(* checkTrigger *)

\* A tick of the poll loop: time.Now() is read before the lease is asked for.
ReadClock(i) ==
    /\ process[i] = "up" /\ check[i].at = "idle"
    /\ check' = [check EXCEPT ![i] = [at |-> "lease", now |-> clock]]
    /\ UNCHANGED <<leaseVars, clock, stored, process, cache, history, runs, late, outlived, faults>>

\* An owner of a lapsed lease is late when another instance is granted the
\* lease while it is in the middle of a check, or remembers a time.
Holding(i) == check[i].at \in {"read", "first", "store", "fire"} \/ cache[i] # None

TakeLease(i) ==
    /\ TryAcquireLease(i)
    /\ late' = late \cup {j \in Instances \ {i} :
                             leaseOwner = j /\ leaseTtl < 0 /\ Holding(j)}

LeaseGranted(i) ==
    /\ check[i].at = "lease"
    /\ TakeLease(i)
    /\ Goto(i, "read")
    /\ UNCHANGED <<clock, stored, process, cache, history, runs, outlived, faults>>

LeaseDenied(i) ==
    /\ check[i].at = "lease" /\ ~Grantable(i)
    /\ Return(i)
    /\ UNCHANGED <<leaseVars, clock, stored, process, cache, history, runs, late, outlived, faults>>

\* The call fails; the lease may have been taken nevertheless.
LeaseFails(i) ==
    /\ check[i].at = "lease" /\ Fault
    /\ TakeLease(i) \/ UNCHANGED <<leaseVars, late>>
    /\ Return(i)
    /\ UNCHANGED <<clock, stored, process, cache, history, runs, outlived>>

\* Faulty variant: a missing row is taken for a very old run.
Decision_FiresUnseen(last, now) ==
    IF last = None \/ ShouldRun(last, now) THEN "store" ELSE "idle"

\* What checkTrigger goes on to: no row means first sight.
Decision(last, now) ==
    IF last = None THEN "first"
    ELSE IF ShouldRun(last, now) THEN "store" ELSE "idle"

\* readLastFired: memory first, the row only when memory has nothing.
LastKnown(i) == IF cache[i] # None THEN cache[i] ELSE stored

ReadLastFired(i) ==
    /\ check[i].at = "read"
    /\ cache' = [cache EXCEPT ![i] = LastKnown(i)]
    /\ LET d == Decision(LastKnown(i), check[i].now) IN
         IF d = "idle" THEN Return(i) ELSE Goto(i, d)
    /\ UNCHANGED <<leaseVars, clock, stored, process, history, runs, late, outlived, faults>>

\* GetTriggerState fails.
ReadFails(i) ==
    /\ check[i].at = "read" /\ cache[i] = None /\ Fault
    /\ Return(i)
    /\ UNCHANGED <<leaseVars, clock, stored, process, cache, history, runs, late, outlived>>

\* Faulty variant: an insert that leaves an existing row alone.
Stored_KeepsFirst(i) ==
    /\ stored' = IF stored = None THEN check[i].now ELSE stored
    /\ history' = Append(history, stored')
    /\ outlived' = (outlived \/ i \in late)

\* UpsertTriggerState, the first half of writeLastFired.
Stored(i) ==
    /\ stored' = check[i].now
    /\ history' = Append(history, check[i].now)
    /\ outlived' = (outlived \/ i \in late)

\* First sight: the time is noted and nothing is started.
WriteFirst(i) ==
    /\ check[i].at = "first"
    /\ Stored(i)
    /\ cache' = [cache EXCEPT ![i] = check[i].now]
    /\ Return(i)
    /\ UNCHANGED <<leaseVars, clock, process, runs, late, faults>>

WriteLastFired(i) ==
    /\ check[i].at = "store"
    /\ Stored(i)
    /\ cache' = [cache EXCEPT ![i] = check[i].now]
    /\ Goto(i, "fire")
    /\ UNCHANGED <<leaseVars, clock, process, runs, late, faults>>

\* Faulty variant: the flow is started although the time could not be stored.
WriteFails_FiresAnyway(i) ==
    /\ check[i].at = "store" /\ Fault
    /\ Goto(i, "fire")
    /\ UNCHANGED <<leaseVars, clock, stored, process, cache, history, runs, late, outlived>>

\* The upsert fails, or its answer is lost: nothing is started.
WriteFails(i) ==
    /\ check[i].at \in {"first", "store"} /\ Fault
    /\ Stored(i) \/ UNCHANGED <<stored, history, outlived>>
    /\ Return(i)
    /\ UNCHANGED <<leaseVars, clock, process, cache, runs, late>>

\* Trigger; when it fails the run is lost, which the code prefers to two runs.
Fire(i) ==
    /\ check[i].at = "fire"
    /\ \/ runs' = Append(runs, [by |-> i, at |-> check[i].now]) /\ UNCHANGED faults
       \/ Fault /\ UNCHANGED runs
    /\ Return(i)
    /\ UNCHANGED <<leaseVars, clock, stored, process, cache, history, late, outlived>>

-----------------------------------------------------------------------------
\* Unless checks can overrun, the clock waits for an owner that is about to
\* lose its lease in the middle of one.
LapsesInCheck ==
    /\ ~Overrun
    /\ \E i \in Instances :
         /\ process[i] = "up" /\ leaseOwner = i /\ leaseTtl = 0
         /\ check[i].at \notin {"idle", "lease"}

\* Past MaxTime only the leases go on ageing.
Tick ==
    /\ ~LapsesInCheck
    /\ LeaseTick
    /\ clock' = IF clock < MaxTime THEN clock + 1 ELSE clock
    /\ UNCHANGED <<mode, stored, process, cache, check, history, runs, late, outlived, faults>>

CheckTrigger(i) ==
    /\ UNCHANGED mode
    /\ \/ ReadClock(i) \/ LeaseGranted(i) \/ LeaseDenied(i) \/ LeaseFails(i)
       \/ ReadLastFired(i) \/ ReadFails(i)
       \/ WriteFirst(i) \/ WriteLastFired(i) \/ WriteFails(i) \/ Fire(i)

Next ==
    \/ Tick
    \/ \E i \in Instances : Start(i) \/ Crash(i) \/ CheckTrigger(i)

\* Deployments start their instances, the ticker keeps each polling.
Fairness ==
    /\ WF_vars(Tick)
    /\ \A i \in Instances : WF_vars(Start(i)) /\ WF_vars(CheckTrigger(i))

Spec == Init /\ [][Next]_vars
FairSpec == Spec /\ Fairness

-----------------------------------------------------------------------------
\* Two times that are not due to the same window.
Apart(a, b) == Due(a, b) \/ Due(b, a)

\* "The lease-acquire + persisted lastFired pair makes the firing decision
\* authoritative across restarts and horizontal scale" (checkTrigger): no
\* window is run twice, by whichever instances.
OncePerWindow ==
    \A j, k \in DOMAIN runs : j # k => Apart(runs[j].at, runs[k].at)

\* What that comes to: no process runs a window twice, and two processes run
\* the same window only after one of them has stored a time that it decided on
\* by a memory, or in a check, from before it lost the lease to another one.
OnceWithinLease ==
    /\ \A j, k \in DOMAIN runs :
         j # k /\ runs[j].by = runs[k].by => Apart(runs[j].at, runs[k].at)
    /\ ~outlived => OncePerWindow

\* Each run was stored before it started, so that no restart can repeat it.
\* As long as nobody stores what outlived its lease the row is the latest time
\* and never moves back.
RecordedFirst ==
    /\ \A k \in DOMAIN runs : \E h \in DOMAIN history : history[h] = runs[k].at
    /\ ~outlived =>
         /\ \A k \in DOMAIN runs : runs[k].at <= stored
         /\ \A k \in 1 .. Len(history) - 1 : history[k] <= history[k + 1]

\* "We deliberately do NOT treat absence of state as fire now": a run is due
\* after a time at which the trigger had been seen already.
SilentFirstSight ==
    \A k \in DOMAIN runs : \E h \in DOMAIN history : Due(history[h], runs[k].at)

\* A schedule that is due is noticed by whoever is running: a time that covers
\* the window is stored in the end, also when the lease's owner crashed before.
DueIsNoticed ==
    clock = MaxTime ~> \E h \in DOMAIN history : ~ShouldRun(history[h], MaxTime)

-----------------------------------------------------------------------------
(* The inductive invariant behind the safety properties.                   *)

\* Only a running process does or remembers anything; what it decides on is
\* not from the future.
OnlyUp ==
    \A i \in Instances :
        /\ check[i].at # "idle" \/ cache[i] # None => process[i] = "up"
        /\ check[i].now <= clock

\* Who does or remembers anything has the lease, or is late.
UnderLease == \A i \in Instances : Holding(i) => leaseOwner = i \/ i \in late

\* What an instance does and remembers can be relied on.
Sound(i) == i \notin late /\ ~outlived

Pending(i) == check[i].at = "fire"

\* The row is the last time stored, and never behind a run that has started or
\* is about to.
RowIsLatest ==
    /\ stored = None => history = <<>>
    /\ stored # None =>
         stored <= clock /\ history # <<>> /\ stored = history[Len(history)]
    /\ ~outlived =>
         /\ \A k \in DOMAIN runs : stored # None /\ runs[k].at <= stored
         /\ \A i \in Instances : Pending(i) => stored # None /\ check[i].now <= stored

\* A memory is a time that was stored, and not older than what its process has
\* run.  When it is sound it lies between all the runs and the row, which may
\* be ahead because the answer of an upsert was lost.
MemoryFits ==
    \A i \in Instances :
        /\ cache[i] # None =>
             /\ stored # None /\ cache[i] <= clock
             /\ \E h \in DOMAIN history : history[h] = cache[i]
             /\ \A k \in DOMAIN runs : runs[k].by = i => runs[k].at <= cache[i]
        /\ cache[i] # None /\ Sound(i) =>
             /\ cache[i] <= stored
             /\ check[i].at \in {"lease", "read"} => stored <= check[i].now
             /\ \A k \in DOMAIN runs : runs[k].at <= cache[i]
             /\ \A j \in Instances : Pending(j) => check[j].now <= cache[i]
        /\ cache[i] = None /\ process[i] # "crashed" =>
             \A k \in DOMAIN runs : runs[k].by # i

\* What is about to be stored or run is due after a time seen before, and after
\* what the same process ran; when it is sound it is later than the row and due
\* after every run.
CheckFits ==
    \A i \in Instances :
        /\ check[i].at = "first" => cache[i] = None /\ (Sound(i) => stored = None)
        /\ check[i].at \in {"store", "fire"} =>
             /\ cache[i] # None
             /\ \E h \in DOMAIN history : Due(history[h], check[i].now)
             /\ \A k \in DOMAIN runs : runs[k].by = i => Due(runs[k].at, check[i].now)
        /\ check[i].at = "store" /\ Sound(i) =>
             /\ stored <= check[i].now
             /\ \A k \in DOMAIN runs : Due(runs[k].at, check[i].now)
             /\ \A j \in Instances : Pending(j) => Due(check[j].now, check[i].now)
        /\ check[i].at = "fire" =>
             /\ cache[i] = check[i].now
             /\ \E h \in DOMAIN history : history[h] = check[i].now

\* What is about to run is apart from the runs and from what others are about
\* to run.
PendingApart ==
    ~outlived =>
        \A i \in Instances : Pending(i) =>
            /\ \A k \in DOMAIN runs : Apart(runs[k].at, check[i].now)
            /\ \A j \in Instances \ {i} : Pending(j) => Apart(check[j].now, check[i].now)

IInv ==
    /\ TypeOK /\ OnlyUp /\ UnderLease /\ RowIsLatest /\ MemoryFits /\ CheckFits
    /\ PendingApart /\ OnceWithinLease /\ RecordedFirst /\ SilentFirstSight
=============================================================================
