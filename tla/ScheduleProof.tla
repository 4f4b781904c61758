--------------------------- MODULE ScheduleProof ---------------------------
(***************************************************************************)
(* Proofs about Schedule: for any number of instances, any period, any     *)
(* number of failures and crashes, and checks as slow as they like, IInv   *)
(* is inductive and a window runs twice only after an instance has stored  *)
(* a time that outlived its lease.  MC_Schedule_handover shows that this   *)
(* does happen, and that the claim of the code without it is false.        *)
(*                                                                         *)
(* The argument: who decides, stores or remembers anything holds the lease *)
(* or is late (UnderLease), so at most one memory is sound; it is never    *)
(* ahead of the row nor behind a run that has started or is about to       *)
(* (MemoryFits, RowIsLatest).  Being due is monotone (DueFacts): what is   *)
(* due after the memory is due after every run before it.  A process'      *)
(* own memory is never behind its own runs, late or not.                   *)
(***************************************************************************)
EXTENDS Schedule, TLAPS

\* ShouldFire is monotone: a run is later than the one it is due after, and
\* due after every earlier one too.
LEMMA DueFacts ==
    ASSUME mode \in {"daily", "interval"}, NEW a \in Nat, NEW n \in Nat, Due(a, n)
    PROVE  /\ a < n
           /\ \A b \in Nat : b <= a => Due(b, n)
<1>1. TargetOf(n) \in Int
  BY ScheduleAssumption DEF TargetOf
<1>2. CASE mode = "daily"
  <2>1. n > TargetOf(n) /\ a < TargetOf(n)
    BY <1>2 DEF Due, DueDaily
  <2>2. QED
    BY <1>1, <1>2, <2>1 DEF Due, DueDaily
<1>3. CASE mode = "interval"
  BY <1>3, ScheduleAssumption DEF Due, DueInterval
<1>4. QED
  BY <1>2, <1>3

\* What Append does, element by element.
LEMMA Appended ==
    ASSUME NEW S, NEW s \in Seq(S), NEW x \in S
    PROVE  /\ Append(s, x) \in Seq(S)
           /\ DOMAIN s = 1 .. Len(s) /\ Len(s) \in Nat
           /\ Append(s, x) # <<>>
           /\ DOMAIN Append(s, x) = 1 .. Len(s) + 1 /\ Len(Append(s, x)) = Len(s) + 1
           /\ \A k \in DOMAIN s : Append(s, x)[k] = s[k]
           /\ Append(s, x)[Len(s) + 1] = x
           /\ s # <<>> => Len(s) >= 1
           /\ s = <<>> => Len(s) = 0
  OBVIOUS

\* The elements of a sequence.
LEMMA Elements == ASSUME NEW S, NEW s \in Seq(S) PROVE \A k \in DOMAIN s : s[k] \in S
  OBVIOUS

\* The check of one instance moves on, the others stay.
LEMMA GotoEffect ==
    ASSUME check \in [Instances -> Checks], NEW i \in Instances,
           NEW l \in {"idle", "lease", "read", "first", "store", "fire"}, Goto(i, l)
    PROVE  /\ check' \in [Instances -> Checks]
           /\ check'[i].at = l /\ check'[i].now = check[i].now
           /\ \A j \in Instances \ {i} : check'[j] = check[j]
  BY DEF Goto, Checks

\* checkTrigger returns in one instance, the others stay.
LEMMA ReturnEffect ==
    ASSUME check \in [Instances -> Checks], NEW i \in Instances, Return(i)
    PROVE  /\ check' \in [Instances -> Checks]
           /\ check'[i].at = "idle" /\ check'[i].now = 0
           /\ \A j \in Instances \ {i} : check'[j] = check[j]
  BY ScheduleAssumption DEF Return, Checks, Idle, Times


\* Who does or remembers anything and is not late holds the lease: everyone
\* else is idle, is asking for it, or is late.
LEMMA OneHolder ==
    ASSUME UnderLease, NEW i \in Instances, Holding(i), i \notin late,
           NEW j \in Instances \ {i}
    PROVE  ~Holding(j) \/ j \in late
  BY DEF UnderLease

\* A lease that is granted makes its former owner late.
LEMMA Granted ==
    ASSUME UnderLease, TypeOK, NEW i \in Instances, TakeLease(i)
    PROVE  /\ leaseOwner' = i /\ LeaseTypeOK'
           /\ late \subseteq late' /\ late' \subseteq Instances
           /\ \A j \in Instances \ {i} : Holding(j) => j \in late'
<1>1. leaseOwner' = i /\ leaseTtl' = LeaseDuration /\ Grantable(i)
  BY DEF TakeLease, TryAcquireLease
<1>2. late' = late \cup {j \in Instances \ {i} : leaseOwner = j /\ leaseTtl < 0 /\ Holding(j)}
  BY DEF TakeLease
<1>3. late \subseteq late' /\ late' \subseteq Instances
  BY <1>2 DEF TypeOK
<1>4. ASSUME NEW j \in Instances \ {i}, Holding(j) PROVE j \in late'
  <2>1. CASE j \in late
    BY <1>3, <2>1
  <2>2. CASE leaseOwner = j
    BY <1>1, <1>2, <1>4, <2>2, NoOwnerAssumption DEF Grantable
  <2>3. QED
    BY <1>4, <2>1, <2>2 DEF UnderLease
<1>5. LeaseTypeOK'
  BY <1>1, LeaseDurationAssumption DEF LeaseTypeOK
<1>6. QED
  BY <1>1, <1>3, <1>4, <1>5

\* Steps that touch neither the row, memory, history nor runs, and end with a
\* check that is about nothing yet.
LEMMA OnlyCheckMoves ==
    ASSUME IInv, NEW i \in Instances, process[i] = "up",
           check' \in [Instances -> Checks],
           \A j \in Instances \ {i} : check'[j] = check[j],
           check'[i].at \in {"idle", "lease", "read"}, check'[i].now <= clock,
           LeaseTypeOK', UnderLease', late \subseteq late', late' \subseteq Instances,
           check'[i].at # "idle" /\ cache[i] # None /\ Sound(i) => stored <= check'[i].now,
           UNCHANGED <<mode, clock, stored, process, cache, history, runs, outlived>>,
           faults' \in 0 .. MaxFaults
    PROVE  IInv'
<1> USE DEF IInv
<1>1. TypeOK'
  BY DEF TypeOK
<1>2. OnlyUp'
  BY DEF OnlyUp
<1>3. OnceWithinLease' /\ RecordedFirst' /\ SilentFirstSight'
  BY DEF OnceWithinLease, OncePerWindow, RecordedFirst, SilentFirstSight, Apart, Due, DueDaily, DueInterval, TargetOf
<1>4. \A j \in Instances : (Pending(j)' => Pending(j) /\ check'[j] = check[j]) /\ (Sound(j)' => Sound(j))
  BY DEF Pending, Sound
<1>5. RowIsLatest'
  BY <1>4 DEF RowIsLatest
<1>6. MemoryFits'
  <2> SUFFICES ASSUME NEW j \in Instances, cache[j] # None, Sound(j)
               PROVE  /\ cache[j] <= stored
                      /\ check'[j].at \in {"lease", "read"} => stored <= check'[j].now
                      /\ \A k \in DOMAIN runs : runs[k].at <= cache[j]
                      /\ \A m \in Instances : Pending(m) => check[m].now <= cache[j]
    BY <1>4 DEF MemoryFits
  <2>1. QED
    BY DEF MemoryFits
<1>7. CheckFits'
  <2> SUFFICES ASSUME NEW j \in Instances \ {i} PROVE
        /\ check[j].at = "first" => cache[j] = None /\ (Sound(j) => stored = None)
        /\ check[j].at \in {"store", "fire"} =>
             /\ cache[j] # None
             /\ (\E h \in DOMAIN history : Due(history[h], check[j].now))'
             /\ \A k \in DOMAIN runs : runs[k].by = j => Due(runs[k].at, check[j].now)'
        /\ check[j].at = "store" /\ Sound(j) =>
             /\ stored <= check[j].now
             /\ \A k \in DOMAIN runs : Due(runs[k].at, check[j].now)'
             /\ \A m \in Instances : Pending(m) => Due(check[m].now, check[j].now)
        /\ check[j].at = "fire" =>
             /\ cache[j] = check[j].now
             /\ \E h \in DOMAIN history : history[h] = check[j].now
    BY <1>4 DEF CheckFits, Due, DueDaily, DueInterval, TargetOf
  <2>1. QED
    BY DEF CheckFits, Due, DueDaily, DueInterval, TargetOf
<1>8. PendingApart'
  BY <1>4 DEF PendingApart, Apart, Due, DueDaily, DueInterval, TargetOf
<1>9. QED
  BY <1>1, <1>2, <1>3, <1>5, <1>6, <1>7, <1>8

\* One lemma for each action of Next: it preserves the inductive invariant.
LEMMA StartKeeps == ASSUME IInv, NEW i \in Instances, Start(i) PROVE IInv'
<1> USE DEF IInv, Start, leaseVars
<1>1. TypeOK'
  BY DEF TypeOK, LeaseTypeOK
<1>2. OnlyUp' /\ UnderLease'
  BY DEF OnlyUp, UnderLease, Holding, TypeOK
<1>3. OnceWithinLease' /\ RecordedFirst' /\ SilentFirstSight' /\ RowIsLatest' /\ PendingApart'
  BY DEF OnceWithinLease, OncePerWindow, RecordedFirst, SilentFirstSight, RowIsLatest,
         PendingApart, Pending, Apart, Due, DueDaily, DueInterval, TargetOf
<1>4. CheckFits'
  BY DEF CheckFits, Pending, Sound, Due, DueDaily, DueInterval, TargetOf
<1>5. \A j \in Instances : process'[j] # "crashed" => process[j] # "crashed"
  BY DEF TypeOK
<1>6. MemoryFits'
  BY <1>5 DEF MemoryFits, Pending, Sound
<1>7. QED
  BY <1>1, <1>2, <1>3, <1>4, <1>6

\* A crash forgets the memory and the check.
LEMMA CrashKeeps == ASSUME IInv, NEW i \in Instances, Crash(i) PROVE IInv'
<1> USE DEF IInv, Crash, leaseVars
<1>0. /\ check' \in [Instances -> Checks]
      /\ check'[i].at = "idle" /\ check'[i].now = 0
      /\ \A j \in Instances \ {i} : check'[j] = check[j]
  BY ReturnEffect DEF TypeOK
<1>1. TypeOK'
  BY <1>0 DEF TypeOK, LeaseTypeOK
<1>2. OnlyUp'
  BY <1>0 DEF OnlyUp, TypeOK, Times
<1>3. UnderLease'
  BY <1>0 DEF UnderLease, Holding, TypeOK
<1>4. OnceWithinLease' /\ RecordedFirst' /\ SilentFirstSight'
  BY DEF OnceWithinLease, OncePerWindow, RecordedFirst, SilentFirstSight, Apart, Due, DueDaily, DueInterval, TargetOf
<1>5. /\ \A j \in Instances : (Pending(j)' => Pending(j) /\ check'[j] = check[j] /\ j # i) /\ (Sound(j)' => Sound(j))
      /\ cache'[i] = None /\ process'[i] = "crashed"
      /\ \A j \in Instances \ {i} : cache'[j] = cache[j] /\ process'[j] = process[j]
  BY <1>0 DEF Pending, Sound, TypeOK
<1>6. RowIsLatest'
  BY <1>5 DEF RowIsLatest
<1>7. MemoryFits'
  BY <1>0, <1>5 DEF MemoryFits
<1>8. CheckFits'
  BY <1>0, <1>5 DEF CheckFits, Due, DueDaily, DueInterval, TargetOf
<1>9. PendingApart'
  BY <1>0, <1>5 DEF PendingApart, Apart, Due, DueDaily, DueInterval, TargetOf
<1>10. QED
  BY <1>1, <1>2, <1>3, <1>4, <1>6, <1>7, <1>8, <1>9

\* The clock is read before the lease is asked for.
LEMMA ReadClockKeeps == ASSUME IInv, NEW i \in Instances, UNCHANGED mode, ReadClock(i) PROVE IInv'
<1> USE DEF ReadClock, leaseVars
<1>1. /\ check' \in [Instances -> Checks]
      /\ check'[i].at = "lease" /\ check'[i].now = clock
      /\ \A j \in Instances \ {i} : check'[j] = check[j]
  BY DEF IInv, TypeOK, Checks
<1>2. LeaseTypeOK' /\ UnderLease'
  BY <1>1 DEF IInv, TypeOK, LeaseTypeOK, UnderLease, Holding
<1>3. cache[i] # None => stored <= clock
  BY DEF IInv, MemoryFits, RowIsLatest
<1>4. clock <= clock /\ late' \subseteq Instances /\ late \subseteq late'
  BY DEF IInv, TypeOK, Times
<1>5. QED
  BY <1>1, <1>2, <1>3, <1>4, OnlyCheckMoves DEF IInv, TypeOK

\* A granted lease: who held anything before is late.
LEMMA LeaseGrantedKeeps == ASSUME IInv, NEW i \in Instances, UNCHANGED mode, LeaseGranted(i) PROVE IInv'
<1> USE DEF LeaseGranted
<1>1. /\ check' \in [Instances -> Checks]
      /\ check'[i].at = "read" /\ check'[i].now = check[i].now
      /\ \A j \in Instances \ {i} : check'[j] = check[j]
  BY GotoEffect DEF IInv, TypeOK
<1>2. process[i] = "up" /\ check[i].now <= clock
  BY DEF IInv, OnlyUp
<1>3. /\ leaseOwner' = i /\ LeaseTypeOK'
      /\ late \subseteq late' /\ late' \subseteq Instances
      /\ \A j \in Instances \ {i} : Holding(j) => j \in late'
  BY Granted DEF IInv
<1>4. UnderLease'
  BY <1>1, <1>3 DEF UnderLease, Holding
<1>5. cache[i] # None /\ Sound(i) => stored <= check[i].now
  BY DEF IInv, MemoryFits
<1>6. QED
  BY <1>1, <1>2, <1>3, <1>4, <1>5, OnlyCheckMoves DEF IInv, TypeOK

\* A check that ends with nothing but its own return.
LEMMA ReturnKeeps ==
    ASSUME IInv, NEW i \in Instances, check[i].at # "idle", Return(i),
           UNCHANGED <<leaseVars, mode, clock, stored, process, cache, history, runs,
                       late, outlived>>,
           faults' \in 0 .. MaxFaults
    PROVE  IInv'
<1>1. /\ check' \in [Instances -> Checks]
      /\ check'[i].at = "idle" /\ check'[i].now = 0
      /\ \A j \in Instances \ {i} : check'[j] = check[j]
  BY ReturnEffect DEF IInv, TypeOK
<1>2. process[i] = "up" /\ 0 <= clock
  BY DEF IInv, OnlyUp, TypeOK, Times
<1>3. LeaseTypeOK' /\ UnderLease' /\ late \subseteq late' /\ late' \subseteq Instances
  BY <1>1 DEF IInv, TypeOK, LeaseTypeOK, UnderLease, Holding, leaseVars
<1>4. QED
  BY <1>1, <1>2, <1>3, OnlyCheckMoves

\* A denied lease ends the check.
LEMMA LeaseDeniedKeeps == ASSUME IInv, NEW i \in Instances, UNCHANGED mode, LeaseDenied(i) PROVE IInv'
  BY ReturnKeeps DEF LeaseDenied, IInv, TypeOK

\* A failed call ends the check, whether or not it was carried out.
LEMMA LeaseFailsKeeps == ASSUME IInv, NEW i \in Instances, UNCHANGED mode, LeaseFails(i) PROVE IInv'
<1> USE DEF LeaseFails, leaseVars
<1>1. /\ check' \in [Instances -> Checks]
      /\ check'[i].at = "idle" /\ check'[i].now = 0
      /\ \A j \in Instances \ {i} : check'[j] = check[j]
  BY ReturnEffect DEF IInv, TypeOK
<1>2. process[i] = "up" /\ 0 <= clock /\ faults' \in 0 .. MaxFaults
  BY ScheduleAssumption DEF IInv, OnlyUp, TypeOK, Times, Fault
<1>3. CASE TakeLease(i)
  <2>1. /\ leaseOwner' = i /\ LeaseTypeOK'
        /\ late \subseteq late' /\ late' \subseteq Instances
        /\ \A j \in Instances \ {i} : Holding(j) => j \in late'
    BY <1>3, Granted DEF IInv
  <2>2. UnderLease'
    BY <1>1, <2>1 DEF UnderLease, Holding
  <2>3. QED
    BY <1>1, <1>2, <2>1, <2>2, OnlyCheckMoves
<1>4. CASE UNCHANGED <<leaseVars, late>>
  BY <1>2, <1>4, ReturnKeeps
<1>5. QED
  BY <1>3, <1>4

\* A failed read ends the check.
LEMMA ReadFailsKeeps == ASSUME IInv, NEW i \in Instances, UNCHANGED mode, ReadFails(i) PROVE IInv'
  BY ReturnKeeps, ScheduleAssumption DEF ReadFails, IInv, TypeOK, Fault

\* The decision: what is due after the memory is due after every run the
\* memory knows of.
LEMMA ReadLastFiredKeeps == ASSUME IInv, NEW i \in Instances, UNCHANGED mode, ReadLastFired(i) PROVE IInv'
<1> USE DEF ReadLastFired, leaseVars
<1> DEFINE last == LastKnown(i)
           now == check[i].now
           d == Decision(last, now)
<1>1. /\ check' \in [Instances -> Checks]
      /\ check'[i].at = d /\ (d # "idle" => check'[i].now = now) /\ check'[i].now <= clock
      /\ \A j \in Instances \ {i} : check'[j] = check[j]
  <2>1. d \in {"idle", "first", "store"}
    BY DEF Decision
  <2>2. CASE d = "idle"
    BY <2>2, ReturnEffect DEF IInv, TypeOK, Times
  <2>3. CASE d # "idle"
    <3>1. Goto(i, d)
      BY <2>3
    <3>2. QED
      BY <2>1, <2>3, <3>1, GotoEffect DEF IInv, TypeOK, OnlyUp
  <2>4. QED
    BY <2>2, <2>3
<1>2. /\ cache' = [cache EXCEPT ![i] = last] /\ last \in Times \cup {None}
      /\ cache \in [Instances -> Times \cup {None}]
      /\ process[i] = "up" /\ (leaseOwner = i \/ i \in late)
      /\ d \in {"idle", "first", "store"}
  BY DEF IInv, LastKnown, TypeOK, OnlyUp, UnderLease, Holding, Decision
<1>3. last # None =>
        /\ stored # None /\ last <= clock
        /\ \E h \in DOMAIN history : history[h] = last
        /\ \A k \in DOMAIN runs : runs[k].by = i => runs[k].at <= last
  <2>1. CASE cache[i] # None
    BY <2>1 DEF IInv, LastKnown, MemoryFits
  <2>2. CASE cache[i] = None /\ stored # None
    <3>1. history \in Seq(Times) /\ history # <<>> /\ stored = history[Len(history)] /\ stored <= clock
      BY <2>2 DEF IInv, RowIsLatest, TypeOK
    <3>2. Len(history) \in DOMAIN history
      BY <3>1
    <3>3. \A k \in DOMAIN runs : runs[k].by # i
      BY <1>2, <2>2 DEF IInv, MemoryFits
    <3>4. QED
      BY <2>2, <3>1, <3>2, <3>3 DEF LastKnown
  <2>3. QED
    BY <2>1, <2>2 DEF LastKnown
<1>4. Sound(i) =>
        /\ stored # None => last # None
        /\ last # None =>
             /\ last <= stored
             /\ \A k \in DOMAIN runs : runs[k].at <= last
             /\ \A j \in Instances : Pending(j) => check[j].now <= last
             /\ cache[i] # None => stored <= now
  <2> SUFFICES ASSUME Sound(i) PROVE
        /\ stored # None => last # None
        /\ last # None =>
             /\ last <= stored
             /\ \A k \in DOMAIN runs : runs[k].at <= last
             /\ \A j \in Instances : Pending(j) => check[j].now <= last
             /\ cache[i] # None => stored <= now
    OBVIOUS
  <2>1. CASE cache[i] # None
    BY <2>1 DEF IInv, LastKnown, MemoryFits
  <2>2. CASE cache[i] = None
    BY <2>2, <1>2 DEF IInv, LastKnown, RowIsLatest, Sound, Times
  <2>3. QED
    BY <2>1, <2>2
<1>5. /\ now \in Nat
      /\ \A k \in DOMAIN runs : runs[k].at \in Nat
      /\ \A j \in Instances : check[j].now \in Nat
  <2>1. \A k \in DOMAIN runs : runs[k] \in [by : Instances, at : Times]
    BY Elements DEF IInv, TypeOK
  <2>2. QED
    BY <2>1 DEF IInv, TypeOK, Checks, Times
<1>6. ASSUME d = "store"
      PROVE  /\ last # None
             /\ \E h \in DOMAIN history : Due(history[h], now)
             /\ \A k \in DOMAIN runs : runs[k].by = i => Due(runs[k].at, now)
             /\ Sound(i) =>
                  /\ stored <= now
                  /\ \A k \in DOMAIN runs : Due(runs[k].at, now)
                  /\ \A j \in Instances : Pending(j) => Due(check[j].now, now)
  <2>1. last # None /\ Due(last, now)
    BY <1>6 DEF Decision, ShouldRun
  <2>2. last \in Nat
    BY <1>2, <2>1 DEF Times
  <2>3. last < now /\ \A b \in Nat : b <= last => Due(b, now)
    BY <1>5, <2>1, <2>2, DueFacts DEF IInv, TypeOK
  <2>4. Sound(i) => stored <= now
    BY <1>4, <2>1, <2>2, <2>3, <1>5, <1>3 DEF LastKnown
  <2>5. QED
    BY <1>3, <1>4, <1>5, <2>1, <2>3, <2>4
<1>7. TypeOK'
  BY <1>1, <1>2 DEF IInv, TypeOK, LeaseTypeOK
<1>8. OnlyUp' /\ UnderLease'
  BY <1>1, <1>2 DEF IInv, TypeOK, OnlyUp, UnderLease, Holding
<1>9. OnceWithinLease' /\ RecordedFirst' /\ SilentFirstSight'
  BY DEF IInv, OnceWithinLease, OncePerWindow, RecordedFirst, SilentFirstSight, Apart, Due, DueDaily, DueInterval, TargetOf
<1>10. \A j \in Instances : (Pending(j)' => Pending(j) /\ check'[j] = check[j] /\ j # i) /\ (Sound(j)' => Sound(j))
  BY <1>1, <1>2 DEF Pending, Sound
<1>11. RowIsLatest' /\ PendingApart'
  BY <1>10 DEF IInv, RowIsLatest, PendingApart, Apart, Due, DueDaily, DueInterval, TargetOf
<1>12. MemoryFits'
  <2>1. check'[i].at \notin {"lease", "read"}
    BY <1>1, <1>2
  <2>2. cache'[i] = None => cache[i] = None
    BY <1>2 DEF LastKnown
  <2>3. QED
    BY <1>1, <1>2, <1>3, <1>4, <1>10, <2>1, <2>2 DEF IInv, MemoryFits
<1>13. CheckFits'
  <2>1. d = "first" => last = None /\ (Sound(i) => stored = None)
    BY <1>4 DEF Decision
  <2>2. d # "fire" /\ cache'[i] = last /\ \A j \in Instances \ {i} : cache'[j] = cache[j]
    BY <1>2
  <2>3. d = "store" =>
          /\ (\E h \in DOMAIN history : Due(history[h], now))'
          /\ (\A k \in DOMAIN runs : runs[k].by = i => Due(runs[k].at, now))'
          /\ Sound(i) =>
               /\ (\A k \in DOMAIN runs : Due(runs[k].at, now))'
               /\ \A j \in Instances \ {i} : Pending(j) => Due(check[j].now, now)
    BY <1>1, <1>6 DEF Due, DueDaily, DueInterval, TargetOf
  <2>4. ASSUME NEW j \in Instances \ {i}
        PROVE
        /\ check[j].at = "first" => cache[j] = None /\ (Sound(j) => stored = None)
        /\ check[j].at \in {"store", "fire"} =>
             /\ cache[j] # None
             /\ \E h \in DOMAIN history : Due(history[h], check[j].now)
             /\ \A k \in DOMAIN runs : runs[k].by = j => Due(runs[k].at, check[j].now)
        /\ check[j].at = "store" /\ Sound(j) =>
             /\ stored <= check[j].now
             /\ \A k \in DOMAIN runs : Due(runs[k].at, check[j].now)
             /\ \A m \in Instances : Pending(m) => Due(check[m].now, check[j].now)
        /\ check[j].at = "fire" =>
             /\ cache[j] = check[j].now
             /\ \E h \in DOMAIN history : history[h] = check[j].now
    BY DEF IInv, CheckFits
  <2>5. QED
    BY <1>1, <1>2, <1>6, <1>10, <2>1, <2>2, <2>3, <2>4 DEF CheckFits, Due, DueDaily, DueInterval, TargetOf
<1>14. QED
  BY <1>7, <1>8, <1>9, <1>11, <1>12, <1>13 DEF IInv

\* What UpsertTriggerState does to the row and to what was stored before.
LEMMA StoredEffect ==
    ASSUME IInv, NEW i \in Instances, check[i].at \in {"first", "store"}, Stored(i),
           UNCHANGED <<mode, clock, runs, late>>
    PROVE  /\ stored' = check[i].now /\ check[i].now \in Times /\ stored' # None
           /\ stored' <= clock /\ stored' \in Nat
           /\ history' \in Seq(Times) /\ history' # <<>> /\ stored' = history'[Len(history')]
           /\ \A h \in DOMAIN history : h \in DOMAIN history' /\ history'[h] = history[h]
           /\ \E h \in DOMAIN history' : history'[h] = check[i].now
           /\ outlived' \in BOOLEAN
           /\ ~outlived' =>
                /\ Sound(i)
                /\ stored # None => stored <= check[i].now
                /\ \A k \in DOMAIN runs : runs[k].at <= check[i].now
                /\ \A j \in Instances : Pending(j) => check[j].now <= check[i].now
                /\ \A j \in Instances \ {i} : Holding(j) => j \in late
           /\ OnceWithinLease' /\ RecordedFirst' /\ SilentFirstSight'
<1> DEFINE now == check[i].now
<1>1. /\ stored' = now /\ history' = Append(history, now)
      /\ now \in Times /\ now \in Nat /\ now <= clock /\ now # None
      /\ outlived' = (outlived \/ i \in late)
  BY ScheduleAssumption DEF Stored, IInv, TypeOK, Checks, OnlyUp, Times
<1>2. history \in Seq(Times) /\ stored \in Times \cup {None}
  BY DEF IInv, TypeOK
<1>3. /\ history' \in Seq(Times) /\ history' # <<>>
      /\ DOMAIN history = 1 .. Len(history) /\ Len(history) \in Nat
      /\ Len(history') = Len(history) + 1
      /\ DOMAIN history' = 1 .. Len(history) + 1
      /\ \A h \in DOMAIN history : history'[h] = history[h]
      /\ history'[Len(history) + 1] = now
      /\ history # <<>> => Len(history) >= 1
      /\ history = <<>> => Len(history) = 0
  BY <1>1, <1>2, Appended
<1>4. /\ \A h \in DOMAIN history : h \in DOMAIN history'
      /\ Len(history) + 1 \in DOMAIN history'
  BY <1>3
<1>5. /\ \A h \in DOMAIN history : history[h] \in Nat
      /\ \A k \in DOMAIN runs : runs[k].at \in Nat
      /\ \A j \in Instances : check[j].now \in Nat
      /\ stored # None => stored \in Nat
  <2>1. /\ \A h \in DOMAIN history : history[h] \in Times
        /\ \A k \in DOMAIN runs : runs[k] \in [by : Instances, at : Times]
    BY <1>2, Elements DEF IInv, TypeOK
  <2>2. QED
    BY <1>2, <2>1 DEF IInv, TypeOK, Checks, Times
<1>6. ASSUME ~outlived'
      PROVE  /\ Sound(i)
             /\ stored # None => stored <= now
             /\ \A k \in DOMAIN runs : runs[k].at <= now
             /\ \A j \in Instances : Pending(j) => check[j].now <= now
             /\ \A j \in Instances \ {i} : Holding(j) => j \in late
  <2>1. Sound(i)
    BY <1>1, <1>6 DEF Sound
  <2>2. \A j \in Instances \ {i} : Holding(j) => j \in late
    <3>1. Holding(i) /\ i \notin late
      BY <2>1 DEF Sound, Holding
    <3>2. QED
      BY <3>1, OneHolder DEF IInv
  <2>3. CASE check[i].at = "first"
    <3>1. stored = None
      BY <2>1, <2>3 DEF IInv, CheckFits
    <3>2. QED
      BY <1>6, <2>1, <2>2, <3>1 DEF IInv, RowIsLatest, Sound
  <2>4. CASE check[i].at = "store"
    <3>1. /\ stored <= now
          /\ \A k \in DOMAIN runs : Due(runs[k].at, now)
          /\ \A j \in Instances : Pending(j) => Due(check[j].now, now)
      BY <2>1, <2>4 DEF IInv, CheckFits
    <3>2. \A a \in Nat : Due(a, now) => a <= now
      BY <1>1, DueFacts DEF IInv, TypeOK
    <3>3. stored # None => stored <= now
      BY <3>1
    <3>4. \A k \in DOMAIN runs : runs[k].at <= now
      BY <1>5, <3>1, <3>2
    <3>5. \A j \in Instances : Pending(j) => check[j].now <= now
      BY <1>5, <3>1, <3>2
    <3>6. QED
      BY <2>1, <2>2, <3>3, <3>4, <3>5
  <2>5. QED
    BY <2>3, <2>4
<1>7. OnceWithinLease'
  BY <1>1 DEF IInv, OnceWithinLease, OncePerWindow, Apart, Due, DueDaily, DueInterval, TargetOf
<1>8. RecordedFirst'
  <2>1. ASSUME NEW h \in 1 .. Len(history') - 1, ~outlived'
        PROVE  history'[h] <= history'[h + 1]
    <3>1. CASE h < Len(history)
      <4>1. history[h] <= history[h + 1]
        <5>1. ~outlived
          BY <1>6, <2>1 DEF Sound
        <5>2. h \in 1 .. Len(history) - 1
          BY <1>3, <2>1, <3>1
        <5>3. QED
          BY <5>1, <5>2 DEF IInv, RecordedFirst
      <4>2. h \in DOMAIN history /\ h + 1 \in DOMAIN history
        BY <1>3, <2>1, <3>1
      <4>3. QED
        BY <1>3, <4>1, <4>2
    <3>2. CASE h = Len(history)
      <4>1. stored # None /\ stored = history[Len(history)]
        BY <1>3, <2>1, <3>2 DEF IInv, RowIsLatest
      <4>2. QED
        BY <1>3, <1>6, <2>1, <3>2, <4>1
    <3>3. QED
      BY <1>3, <2>1, <3>1, <3>2
  <2>2. \A k \in DOMAIN runs : \E h \in DOMAIN history' : history'[h] = runs[k].at
    BY <1>3, <1>4 DEF IInv, RecordedFirst
  <2>3. QED
    BY <1>1, <1>6, <2>1, <2>2 DEF RecordedFirst
<1>9. SilentFirstSight'
  BY <1>3, <1>4 DEF IInv, SilentFirstSight, Due, DueDaily, DueInterval, TargetOf
<1>10. QED
  BY <1>1, <1>3, <1>4, <1>6, <1>7, <1>8, <1>9 DEF IInv, TypeOK

\* After a store, what everybody else holds is as sound as it was, or nothing.
LEMMA OthersKeep ==
    ASSUME IInv, NEW i \in Instances, check[i].at \in {"first", "store"}, Stored(i),
           UNCHANGED <<mode, clock, process, runs, late>>,
           cache' \in [Instances -> Times \cup {None}],
           check' \in [Instances -> Checks],
           \A j \in Instances \ {i} : check'[j] = check[j] /\ cache'[j] = cache[j],
           NEW j \in Instances \ {i}
    PROVE  /\ cache[j] # None =>
                /\ stored' # None /\ cache[j] <= clock
                /\ \E h \in DOMAIN history' : history'[h] = cache[j]
                /\ \A k \in DOMAIN runs : runs[k].by = j => runs[k].at <= cache[j]
                /\ ~Sound(j)'
           /\ cache[j] = None /\ process[j] # "crashed" =>
                \A k \in DOMAIN runs : runs[k].by # j
           /\ check[j].at = "first" => cache[j] = None
           /\ check[j].at \in {"first", "store"} => ~Sound(j)'
           /\ check[j].at \in {"store", "fire"} =>
                /\ cache[j] # None
                /\ (\E h \in DOMAIN history : Due(history[h], check[j].now))'
                /\ (\A k \in DOMAIN runs : runs[k].by = j => Due(runs[k].at, check[j].now))'
           /\ check[j].at = "fire" =>
                /\ cache[j] = check[j].now
                /\ \E h \in DOMAIN history' : history'[h] = check[j].now
<1>1. /\ stored' # None
      /\ \A h \in DOMAIN history : h \in DOMAIN history' /\ history'[h] = history[h]
      /\ ~outlived' => (Holding(j) => j \in late)
  BY StoredEffect
<1>2. Holding(j) => ~Sound(j)'
  BY <1>1 DEF Sound
<1>3. /\ check[j].at \in {"store", "fire"} =>
           /\ \E h \in DOMAIN history : Due(history[h], check[j].now)
           /\ \A k \in DOMAIN runs : runs[k].by = j => Due(runs[k].at, check[j].now)
      /\ check[j].at = "fire" => \E h \in DOMAIN history : history[h] = check[j].now
      /\ cache[j] # None => \E h \in DOMAIN history : history[h] = cache[j]
  BY DEF IInv, CheckFits, MemoryFits
<1>4. check[j].at \in {"store", "fire"} =>
        /\ (\E h \in DOMAIN history : Due(history[h], check[j].now))'
        /\ (\A k \in DOMAIN runs : runs[k].by = j => Due(runs[k].at, check[j].now))'
  BY <1>1, <1>3 DEF Due, DueDaily, DueInterval, TargetOf
<1>5. QED
  BY <1>1, <1>2, <1>3, <1>4 DEF IInv, CheckFits, MemoryFits, Holding

\* The first sight is stored.
LEMMA WriteFirstKeeps ==
    ASSUME IInv, NEW i \in Instances, UNCHANGED mode, WriteFirst(i) PROVE IInv'
<1> USE DEF WriteFirst, leaseVars
<1> DEFINE now == check[i].now
<1>1. /\ check' \in [Instances -> Checks]
      /\ check'[i].at = "idle" /\ check'[i].now = 0
      /\ \A j \in Instances \ {i} : check'[j] = check[j]
  BY ReturnEffect DEF IInv, TypeOK
<1>2. /\ cache' = [cache EXCEPT ![i] = now] /\ cache \in [Instances -> Times \cup {None}]
      /\ now \in Times /\ cache'[i] = now
      /\ cache' \in [Instances -> Times \cup {None}]
      /\ \A j \in Instances \ {i} : cache'[j] = cache[j]
  BY DEF IInv, TypeOK, Checks
<1>3. /\ stored' = now /\ stored' # None /\ stored' <= clock /\ stored' \in Nat
      /\ history' \in Seq(Times) /\ history' # <<>> /\ stored' = history'[Len(history')]
      /\ \E h \in DOMAIN history' : history'[h] = now
      /\ outlived' \in BOOLEAN
      /\ ~outlived' =>
           /\ \A k \in DOMAIN runs : runs[k].at <= now
           /\ \A j \in Instances : Pending(j) => check[j].now <= now
      /\ OnceWithinLease' /\ RecordedFirst' /\ SilentFirstSight'
  BY StoredEffect
<1>4. process[i] = "up" /\ (leaseOwner = i \/ i \in late) /\ cache[i] = None
      /\ \A k \in DOMAIN runs : runs[k].by # i
  BY DEF IInv, OnlyUp, UnderLease, Holding, CheckFits, MemoryFits
<1>5. TypeOK'
  BY <1>1, <1>2, <1>3 DEF IInv, TypeOK, LeaseTypeOK
<1>6. OnlyUp' /\ UnderLease'
  BY <1>1, <1>2, <1>4 DEF IInv, TypeOK, OnlyUp, UnderLease, Holding, Times
<1>7. \A j \in Instances : Pending(j)' => Pending(j) /\ check'[j] = check[j] /\ j # i
  BY <1>1 DEF Pending
<1>8. RowIsLatest'
  BY <1>3, <1>7 DEF RowIsLatest
<1>9. MemoryFits'
  <2>1. now <= now
    BY <1>3
  <2>2. QED
    BY <1>1, <1>2, <1>3, <1>4, <1>7, <2>1, OthersKeep DEF MemoryFits, Sound
<1>10. CheckFits'
  BY <1>1, <1>2, <1>3, OthersKeep DEF CheckFits
<1>11. PendingApart'
  <2>1. ~outlived' => ~outlived
    BY DEF Stored
  <2>2. QED
    BY <1>7, <2>1 DEF IInv, PendingApart, Apart, Due, DueDaily, DueInterval, TargetOf
<1>12. QED
  BY <1>3, <1>5, <1>6, <1>8, <1>9, <1>10, <1>11 DEF IInv

\* The time is stored before the run.
LEMMA WriteLastFiredKeeps ==
    ASSUME IInv, NEW i \in Instances, UNCHANGED mode, WriteLastFired(i) PROVE IInv'
<1> USE DEF WriteLastFired, leaseVars
<1> DEFINE now == check[i].now
<1>1. /\ check' \in [Instances -> Checks]
      /\ check'[i].at = "fire" /\ check'[i].now = now
      /\ \A j \in Instances \ {i} : check'[j] = check[j]
  BY GotoEffect DEF IInv, TypeOK
<1>2. /\ cache' = [cache EXCEPT ![i] = now] /\ cache \in [Instances -> Times \cup {None}]
      /\ now \in Times /\ cache'[i] = now
      /\ cache' \in [Instances -> Times \cup {None}]
      /\ \A j \in Instances \ {i} : cache'[j] = cache[j]
  BY DEF IInv, TypeOK, Checks
<1>3. /\ stored' = now /\ stored' # None /\ stored' <= clock /\ stored' \in Nat
      /\ history' \in Seq(Times) /\ history' # <<>> /\ stored' = history'[Len(history')]
      /\ \A h \in DOMAIN history : h \in DOMAIN history' /\ history'[h] = history[h]
      /\ \E h \in DOMAIN history' : history'[h] = now
      /\ outlived' \in BOOLEAN
      /\ ~outlived' =>
           /\ Sound(i)
           /\ \A k \in DOMAIN runs : runs[k].at <= now
           /\ \A j \in Instances : Pending(j) => check[j].now <= now
      /\ OnceWithinLease' /\ RecordedFirst' /\ SilentFirstSight'
  BY StoredEffect
<1>4. /\ process[i] = "up" /\ (leaseOwner = i \/ i \in late) /\ cache[i] # None
      /\ \E h \in DOMAIN history : Due(history[h], now)
      /\ \A k \in DOMAIN runs : runs[k].by = i => Due(runs[k].at, now)
      /\ Sound(i) =>
           /\ \A k \in DOMAIN runs : Due(runs[k].at, now)
           /\ \A j \in Instances : Pending(j) => Due(check[j].now, now)
  BY DEF IInv, OnlyUp, UnderLease, Holding, CheckFits
<1>5. TypeOK'
  BY <1>1, <1>2, <1>3 DEF IInv, TypeOK, LeaseTypeOK
<1>6. OnlyUp' /\ UnderLease'
  BY <1>1, <1>2, <1>4 DEF IInv, TypeOK, OnlyUp, UnderLease, Holding, Times
<1>7. \A j \in Instances \ {i} : Pending(j)' <=> Pending(j)
  BY <1>1 DEF Pending
<1>8. now <= now /\ ~Pending(i)
  BY <1>3 DEF Pending
<1>9. RowIsLatest'
  BY <1>1, <1>3, <1>7, <1>8 DEF RowIsLatest
<1>10. \A k \in DOMAIN runs : runs[k].by = i => runs[k].at <= now
  <2>1. \A k \in DOMAIN runs : runs[k].at \in Nat
    <3>1. \A k \in DOMAIN runs : runs[k] \in [by : Instances, at : Times]
      BY Elements DEF IInv, TypeOK
    <3>2. QED
      BY <3>1 DEF Times
  <2>2. \A a \in Nat : Due(a, now) => a <= now
    BY <1>3, DueFacts DEF IInv, TypeOK
  <2>3. QED
    BY <1>4, <2>1, <2>2
<1>11. MemoryFits'
  <2>1. ~outlived' => \A j \in Instances : Pending(j)' => check'[j].now <= now
    BY <1>1, <1>3, <1>7, <1>8
  <2>2. QED
    BY <1>1, <1>2, <1>3, <1>4, <1>8, <1>10, <2>1, OthersKeep DEF MemoryFits, Sound
<1>12. CheckFits'
  <2>1. /\ (\E h \in DOMAIN history : Due(history[h], now))'
        /\ (\A k \in DOMAIN runs : runs[k].by = i => Due(runs[k].at, now))'
    BY <1>1, <1>3, <1>4 DEF Due, DueDaily, DueInterval, TargetOf
  <2>2. QED
    BY <1>1, <1>2, <1>3, <2>1, OthersKeep DEF CheckFits
<1>13. PendingApart'
  <2>1. ~outlived' => ~outlived
    BY DEF Stored
  <2>2. ASSUME ~outlived', NEW j \in Instances \ {i}, Pending(j)
        PROVE  /\ \A k \in DOMAIN runs : Apart(runs[k].at, check[j].now)
               /\ \A m \in Instances \ {j} : Pending(m) => Apart(check[m].now, check[j].now)
               /\ Apart(now, check[j].now) /\ Apart(check[j].now, now)
    BY <1>3, <1>4, <2>1, <2>2 DEF IInv, PendingApart, Apart
  <2>3. ~outlived' => \A k \in DOMAIN runs : Apart(runs[k].at, now)
    BY <1>3, <1>4 DEF Apart
  <2>4. \A a, b : Apart(a, b)' <=> Apart(a, b)
    BY DEF Apart, Due, DueDaily, DueInterval, TargetOf
  <2>5. QED
    BY <1>1, <1>7, <2>2, <2>3, <2>4 DEF PendingApart, Apart, Due, DueDaily, DueInterval, TargetOf
<1>14. QED
  BY <1>3, <1>5, <1>6, <1>9, <1>11, <1>12, <1>13 DEF IInv

\* A failed upsert ends the check, whether or not it was carried out.
LEMMA WriteFailsKeeps ==
    ASSUME IInv, NEW i \in Instances, UNCHANGED mode, WriteFails(i) PROVE IInv'
<1> USE DEF WriteFails, leaseVars
<1> DEFINE now == check[i].now
<1>1. /\ check' \in [Instances -> Checks]
      /\ check'[i].at = "idle" /\ check'[i].now = 0
      /\ \A j \in Instances \ {i} : check'[j] = check[j]
  BY ReturnEffect DEF IInv, TypeOK
<1>2. faults' \in 0 .. MaxFaults
  BY ScheduleAssumption DEF IInv, TypeOK, Fault
<1>3. CASE UNCHANGED <<stored, history, outlived>>
  BY <1>2, <1>3, ReturnKeeps
<1>4. CASE Stored(i)
  <2>1. /\ stored' = now /\ stored' # None /\ stored' <= clock /\ stored' \in Nat
        /\ now \in Times
        /\ history' \in Seq(Times) /\ history' # <<>> /\ stored' = history'[Len(history')]
        /\ \A h \in DOMAIN history : h \in DOMAIN history' /\ history'[h] = history[h]
        /\ outlived' \in BOOLEAN
        /\ ~outlived' =>
             /\ Sound(i)
             /\ stored # None => stored <= now
             /\ \A k \in DOMAIN runs : runs[k].at <= now
             /\ \A j \in Instances : Pending(j) => check[j].now <= now
        /\ OnceWithinLease' /\ RecordedFirst' /\ SilentFirstSight'
    BY <1>4, StoredEffect
  <2>2. TypeOK'
    BY <1>1, <1>2, <2>1 DEF IInv, TypeOK, LeaseTypeOK
  <2>3. OnlyUp' /\ UnderLease'
    BY <1>1 DEF IInv, TypeOK, OnlyUp, UnderLease, Holding, Times
  <2>4. \A j \in Instances : Pending(j)' => Pending(j) /\ check'[j] = check[j] /\ j # i
    BY <1>1 DEF Pending
  <2>5. RowIsLatest'
    BY <2>1, <2>4 DEF RowIsLatest
  <2>6. MemoryFits'
    <3>1. cache[i] # None =>
            /\ stored # None /\ cache[i] <= clock
            /\ \E h \in DOMAIN history : history[h] = cache[i]
            /\ \A k \in DOMAIN runs : runs[k].by = i => runs[k].at <= cache[i]
            /\ Sound(i) =>
                 /\ cache[i] <= stored
                 /\ \A k \in DOMAIN runs : runs[k].at <= cache[i]
                 /\ \A j \in Instances : Pending(j) => check[j].now <= cache[i]
      BY DEF IInv, MemoryFits
    <3>2. cache[i] # None /\ ~outlived' => cache[i] <= stored'
      <4>1. /\ cache[i] # None => cache[i] \in Nat
            /\ stored # None => stored \in Nat
            /\ now \in Nat
        BY <2>1 DEF IInv, TypeOK, Times
      <4>2. QED
        BY <2>1, <3>1, <4>1
    <3>3. cache[i] = None => \A k \in DOMAIN runs : runs[k].by # i
      BY DEF IInv, MemoryFits, OnlyUp
    <3>4. \A j \in Instances \ {i} : cache'[j] = cache[j] /\ process'[j] = process[j]
      OBVIOUS
    <3>5. cache' \in [Instances -> Times \cup {None}]
      BY <2>2 DEF TypeOK
    <3>6. QED
      BY <1>1, <1>4, <2>1, <2>4, <3>1, <3>2, <3>3, <3>4, <3>5, OthersKeep DEF MemoryFits, Sound
  <2>7. CheckFits'
    <3>1. cache' \in [Instances -> Times \cup {None}]
      BY <2>2 DEF TypeOK
    <3>2. QED
      BY <1>1, <1>4, <2>1, <3>1, OthersKeep DEF CheckFits
  <2>8. PendingApart'
    <3>1. ~outlived' => ~outlived
      BY <2>1 DEF Sound
    <3>2. QED
      BY <2>4, <3>1 DEF IInv, PendingApart, Apart, Due, DueDaily, DueInterval, TargetOf
  <2>9. QED
    BY <2>1, <2>2, <2>3, <2>5, <2>6, <2>7, <2>8 DEF IInv
<1>5. QED
  BY <1>3, <1>4

\* The run starts, or is lost.
LEMMA FireKeeps ==
    ASSUME IInv, NEW i \in Instances, UNCHANGED mode, Fire(i) PROVE IInv'
<1> USE DEF Fire, leaseVars
<1> DEFINE now == check[i].now
           run == [by |-> i, at |-> now]
<1>1. /\ check' \in [Instances -> Checks]
      /\ check'[i].at = "idle" /\ check'[i].now = 0
      /\ \A j \in Instances \ {i} : check'[j] = check[j]
  BY ReturnEffect DEF IInv, TypeOK
<1>2. CASE Fault /\ UNCHANGED runs
  <2>1. faults' \in 0 .. MaxFaults
    BY <1>2, ScheduleAssumption DEF IInv, TypeOK, Fault
  <2>2. QED
    BY <1>2, <2>1, ReturnKeeps
<1>3. CASE runs' = Append(runs, run) /\ UNCHANGED faults
  <2>1. run \in [by : Instances, at : Times] /\ now \in Nat /\ now \in Times
    BY DEF IInv, TypeOK, Checks, Times
  <2>2. /\ runs' \in Seq([by : Instances, at : Times])
        /\ DOMAIN runs = 1 .. Len(runs) /\ Len(runs) \in Nat
        /\ DOMAIN runs' = 1 .. Len(runs) + 1
        /\ \A k \in DOMAIN runs : runs'[k] = runs[k]
        /\ runs'[Len(runs) + 1] = run
    BY <1>3, <2>1, Appended DEF IInv, TypeOK
  <2>3. \A k \in DOMAIN runs' : (k \in DOMAIN runs /\ runs'[k] = runs[k])
                                  \/ (k = Len(runs) + 1 /\ runs'[k].by = i /\ runs'[k].at = now)
    BY <2>2
  <2>4. /\ process[i] = "up" /\ (leaseOwner = i \/ i \in late)
        /\ cache[i] = now
        /\ \E h \in DOMAIN history : history[h] = now
        /\ \E h \in DOMAIN history : Due(history[h], now)
        /\ \A k \in DOMAIN runs : runs[k].by = i => Due(runs[k].at, now)
    BY DEF IInv, OnlyUp, UnderLease, Holding, CheckFits
  <2>5. ~outlived =>
          /\ stored # None /\ now <= stored
          /\ \A k \in DOMAIN runs : Apart(runs[k].at, now)
          /\ \A j \in Instances \ {i} : Pending(j) => Apart(check[j].now, now) /\ Apart(now, check[j].now)
    BY DEF IInv, RowIsLatest, PendingApart, Pending, Apart
  <2>6. \A j \in Instances : Pending(j)' => Pending(j) /\ check'[j] = check[j] /\ j # i
    BY <1>1 DEF Pending
  <2>7. \A a, b : Apart(a, b)' <=> Apart(a, b)
    BY DEF Apart, Due, DueDaily, DueInterval, TargetOf
  <2>8. \A a, b : Due(a, b)' <=> Due(a, b)
    BY DEF Due, DueDaily, DueInterval, TargetOf
  <2>9. TypeOK'
    BY <1>1, <1>3, <2>2 DEF IInv, TypeOK, LeaseTypeOK
  <2>10. OnlyUp' /\ UnderLease'
    <3>1. 0 <= clock
      BY DEF IInv, TypeOK, Times
    <3>2. OnlyUp'
      BY <1>1, <2>4, <3>1 DEF IInv, OnlyUp
    <3>3. UnderLease'
      BY <1>1, <2>4 DEF IInv, UnderLease, Holding
    <3>4. QED
      BY <3>2, <3>3
  <2>11. RowIsLatest'
    BY <2>3, <2>5, <2>6 DEF IInv, RowIsLatest
  <2>12. RecordedFirst' /\ SilentFirstSight'
    <3>1. SilentFirstSight'
      <4>1. \A k \in DOMAIN runs' : \E h \in DOMAIN history : Due(history[h], runs'[k].at)
        BY <2>3, <2>4 DEF IInv, SilentFirstSight
      <4>2. QED
        BY <4>1 DEF SilentFirstSight, Due, DueDaily, DueInterval, TargetOf
    <3>2. RecordedFirst'
      <4>1. \A k \in DOMAIN runs' : \E h \in DOMAIN history : history[h] = runs'[k].at
        BY <2>3, <2>4 DEF IInv, RecordedFirst
      <4>2. ~outlived => \A k \in DOMAIN runs' : runs'[k].at <= stored
        BY <2>3, <2>5 DEF IInv, RecordedFirst
      <4>3. QED
        BY <4>1, <4>2 DEF IInv, RecordedFirst
    <3>3. QED
      BY <3>1, <3>2
  <2>13. OnceWithinLease'
    <3>1. ASSUME NEW j \in DOMAIN runs', NEW k \in DOMAIN runs', j # k,
                 runs'[j].by = runs'[k].by \/ ~outlived
          PROVE  Apart(runs'[j].at, runs'[k].at)
      <4>1. CASE j \in DOMAIN runs /\ k \in DOMAIN runs
        BY <2>2, <3>1, <4>1 DEF IInv, OnceWithinLease, OncePerWindow
      <4>2. CASE j = Len(runs) + 1 /\ k \in DOMAIN runs
        BY <2>2, <2>4, <2>5, <3>1, <4>2 DEF Apart
      <4>3. CASE k = Len(runs) + 1 /\ j \in DOMAIN runs
        BY <2>2, <2>4, <2>5, <3>1, <4>3 DEF Apart
      <4>4. QED
        BY <2>3, <3>1, <4>1, <4>2, <4>3
    <3>2. QED
      BY <3>1 DEF OnceWithinLease, OncePerWindow, Apart, Due, DueDaily, DueInterval, TargetOf
  <2>14. MemoryFits'
    <3>1. now <= now
      BY <2>1
    <3>2. Pending(i)
      BY DEF Pending
    <3>3. \A j \in Instances : cache[j] # None /\ Sound(j) => now <= cache[j]
      BY <3>2 DEF IInv, MemoryFits
    <3>4. ASSUME NEW j \in Instances
          PROVE  /\ cache[j] # None =>
                      \A k \in DOMAIN runs' : runs'[k].by = j => runs'[k].at <= cache[j]
                 /\ cache[j] # None /\ Sound(j) => \A k \in DOMAIN runs' : runs'[k].at <= cache[j]
                 /\ cache[j] = None /\ process[j] # "crashed" =>
                      \A k \in DOMAIN runs' : runs'[k].by # j
      <4>1. cache[j] = None => j # i
        BY <2>1, <2>4, ScheduleAssumption
      <4>2. QED
        BY <2>3, <2>4, <3>1, <3>3, <4>1 DEF IInv, MemoryFits
    <3>5. QED
      BY <1>1, <2>6, <3>4 DEF IInv, MemoryFits, Sound
  <2>15. CheckFits'
    <3>1. ASSUME NEW j \in Instances \ {i}
          PROVE
          /\ check[j].at = "first" => cache[j] = None /\ (Sound(j) => stored = None)
          /\ check[j].at \in {"store", "fire"} =>
               /\ cache[j] # None
               /\ (\E h \in DOMAIN history : Due(history[h], check[j].now))'
               /\ (\A k \in DOMAIN runs : runs[k].by = j => Due(runs[k].at, check[j].now))'
          /\ check[j].at = "store" /\ Sound(j) =>
               /\ stored <= check[j].now
               /\ (\A k \in DOMAIN runs : Due(runs[k].at, check[j].now))'
               /\ (\A m \in Instances : Pending(m) => Due(check[m].now, check[j].now))'
          /\ check[j].at = "fire" =>
               /\ cache[j] = check[j].now
               /\ \E h \in DOMAIN history : history[h] = check[j].now
      <4>1. /\ check[j].at = "first" => cache[j] = None /\ (Sound(j) => stored = None)
            /\ check[j].at \in {"store", "fire"} =>
                 /\ cache[j] # None
                 /\ \E h \in DOMAIN history : Due(history[h], check[j].now)
                 /\ \A k \in DOMAIN runs : runs[k].by = j => Due(runs[k].at, check[j].now)
            /\ check[j].at = "store" /\ Sound(j) =>
                 /\ stored <= check[j].now
                 /\ \A k \in DOMAIN runs : Due(runs[k].at, check[j].now)
                 /\ \A m \in Instances : Pending(m) => Due(check[m].now, check[j].now)
            /\ check[j].at = "fire" =>
                 /\ cache[j] = check[j].now
                 /\ \E h \in DOMAIN history : history[h] = check[j].now
        BY DEF IInv, CheckFits
      <4>2. Pending(i)
        BY DEF Pending
      <4>3. /\ check[j].at \in {"store", "fire"} =>
                 \A k \in DOMAIN runs' : runs'[k].by = j => Due(runs'[k].at, check[j].now)
            /\ check[j].at = "store" /\ Sound(j) =>
                 \A k \in DOMAIN runs' : Due(runs'[k].at, check[j].now)
        BY <2>3, <4>1, <4>2
      <4>4. QED
        BY <1>1, <2>6, <2>8, <4>1, <4>3 DEF Due, DueDaily, DueInterval, TargetOf
    <3>2. QED
      BY <1>1, <3>1 DEF CheckFits, Sound
  <2>16. PendingApart'
    <3>1. ASSUME ~outlived, NEW j \in Instances \ {i}, Pending(j)
          PROVE  /\ \A k \in DOMAIN runs' : Apart(runs'[k].at, check[j].now)
                 /\ \A m \in Instances \ {j} : Pending(m) => Apart(check[m].now, check[j].now)
      BY <2>3, <2>5, <3>1 DEF IInv, PendingApart
    <3>2. QED
      BY <2>6, <2>7, <3>1 DEF PendingApart
  <2>17. QED
    BY <2>9, <2>10, <2>11, <2>12, <2>13, <2>14, <2>15, <2>16 DEF IInv
<1>4. QED
  BY <1>2, <1>3

\* Time passes.
LEMMA TickKeeps == ASSUME IInv, Tick PROVE IInv'
<1> USE DEF Tick
<1>1. clock \in Nat /\ clock' \in Times /\ clock <= clock' /\ clock' \in Nat
  BY ScheduleAssumption DEF IInv, TypeOK, Times
<1>2. LeaseTypeOK' /\ leaseOwner' = leaseOwner
  BY LeaseDurationAssumption DEF IInv, TypeOK, LeaseTypeOK, LeaseTick
<1>3. TypeOK'
  BY <1>1, <1>2 DEF IInv, TypeOK
<1>4. OnlyUp'
  <2>1. \A i \in Instances : check[i].now \in Nat
    BY DEF IInv, TypeOK, Checks, Times
  <2>2. QED
    BY <1>1, <2>1 DEF IInv, OnlyUp
<1>5. UnderLease'
  BY <1>2 DEF IInv, UnderLease, Holding
<1>6. RowIsLatest'
  <2>1. stored # None => stored \in Nat
    BY DEF IInv, TypeOK, Times
  <2>2. QED
    BY <1>1, <2>1 DEF IInv, RowIsLatest, Pending
<1>7. OnceWithinLease' /\ RecordedFirst' /\ SilentFirstSight' /\ PendingApart'
  BY DEF IInv, OnceWithinLease, OncePerWindow, RecordedFirst, SilentFirstSight, PendingApart,
         Pending, Apart, Due, DueDaily, DueInterval, TargetOf
<1>8. MemoryFits'
  <2>1. \A i \in Instances : cache[i] # None => cache[i] \in Nat
    BY DEF IInv, TypeOK, Times
  <2>2. QED
    BY <1>1, <2>1 DEF IInv, MemoryFits, Pending, Sound
<1>9. CheckFits'
  BY DEF IInv, CheckFits, Pending, Sound, Due, DueDaily, DueInterval, TargetOf
<1>10. QED
  BY <1>3, <1>4, <1>5, <1>6, <1>7, <1>8, <1>9 DEF IInv

\* The initial states.
LEMMA InitHolds == Init => IInv
<1> SUFFICES ASSUME Init PROVE IInv
  OBVIOUS
<1> USE DEF Init
<1>1. TypeOK
  <2>1. runs \in Seq([by : Instances, at : Times])
    OBVIOUS
  <2>2. LeaseTypeOK
    BY LeaseDurationAssumption DEF LeaseInit, LeaseTypeOK
  <2>3. check \in [Instances -> Checks] /\ clock \in Times /\ faults \in 0 .. MaxFaults
    BY ScheduleAssumption DEF Checks, Idle, Times
  <2>4. history \in Seq(Times)
    OBVIOUS
  <2>5. process \in [Instances -> {"new", "up", "crashed"}]
    OBVIOUS
  <2>6. cache \in [Instances -> Times \cup {None}]
    OBVIOUS
  <2>7. mode \in {"daily", "interval"} /\ stored \in Times \cup {None}
        /\ late \subseteq Instances /\ outlived \in BOOLEAN
    OBVIOUS
  <2>8. QED
    BY <2>1, <2>2, <2>3, <2>4, <2>5, <2>6, <2>7 DEF TypeOK
<1>2. OnlyUp /\ MemoryFits /\ CheckFits /\ PendingApart
  BY DEF OnlyUp, MemoryFits, CheckFits, PendingApart, Pending, Idle
<1>3. UnderLease
  BY DEF UnderLease, Holding, Idle
<1>4. RowIsLatest /\ OnceWithinLease /\ RecordedFirst /\ SilentFirstSight
  BY DEF RowIsLatest, OnceWithinLease, OncePerWindow, RecordedFirst, SilentFirstSight, Pending, Idle
<1>5. QED
  BY <1>1, <1>2, <1>3, <1>4 DEF IInv

\* A step that changes nothing.
LEMMA StutterKeeps == IInv /\ UNCHANGED vars => IInv'
  BY DEF vars, scheduleVars, leaseVars, IInv, TypeOK, LeaseTypeOK, OnlyUp, UnderLease, Holding,
     RowIsLatest, MemoryFits, CheckFits, PendingApart, Pending, Sound, OnceWithinLease,
     OncePerWindow, RecordedFirst, SilentFirstSight, Apart, Due, DueDaily, DueInterval, TargetOf

\* Every step, by the lemmas above.
LEMMA NextKeeps == ASSUME IInv, Next PROVE IInv'
<1>1. CASE Tick
  BY <1>1, TickKeeps
<1>2. ASSUME NEW i \in Instances, Start(i) PROVE IInv'
  BY <1>2, StartKeeps
<1>3. ASSUME NEW i \in Instances, Crash(i) PROVE IInv'
  BY <1>3, CrashKeeps
<1>4. ASSUME NEW i \in Instances, CheckTrigger(i) PROVE IInv'
  BY <1>4, ReadClockKeeps, LeaseGrantedKeeps, LeaseDeniedKeeps, LeaseFailsKeeps,
     ReadLastFiredKeeps, ReadFailsKeeps, WriteFirstKeeps, WriteLastFiredKeeps,
     WriteFailsKeeps, FireKeeps
  DEF CheckTrigger
<1>5. QED
  BY <1>1, <1>2, <1>3, <1>4 DEF Next

-----------------------------------------------------------------------------
\* The inductive invariant of Schedule: what an instance remembers and decides
\* fits the row, the runs and what the others do, unless it is late.
THEOREM Invariance == Spec => []IInv
<1>1. IInv /\ [Next]_vars => IInv'
  BY NextKeeps, StutterKeeps
<1>2. QED
  BY InitHolds, <1>1, PTL DEF Spec

\* checkTrigger's state is well typed at every step.
THEOREM TypeCorrect == Spec => []TypeOK
<1>1. IInv => TypeOK
  BY DEF IInv
<1>2. QED
  BY Invariance, <1>1, PTL

\* No process runs a window twice, whatever crashes, fails or is slow; two
\* processes do so only after one has stored a time although, since it read
\* what it decided on, its lease had lapsed and gone to another.
THEOREM RunsOncePerWindow == Spec => []OnceWithinLease
<1>1. IInv => OnceWithinLease
  BY DEF IInv
<1>2. QED
  BY Invariance, <1>1, PTL

\* Every run is stored before it starts, and the row moves back only after
\* somebody has stored what outlived its lease.
THEOREM StoredBeforeStarted == Spec => []RecordedFirst
<1>1. IInv => RecordedFirst
  BY DEF IInv
<1>2. QED
  BY Invariance, <1>1, PTL

\* Nothing runs that is not due after a time at which the trigger was seen.
THEOREM FirstSightIsSilent == Spec => []SilentFirstSight
<1>1. IInv => SilentFirstSight
  BY DEF IInv
<1>2. QED
  BY Invariance, <1>1, PTL
=============================================================================
