-------------------------- MODULE MqttHandoverProof --------------------------
(***************************************************************************)
(* For any number of instances and any timing that satisfies SafeTiming,   *)
(* two instances are never subscribed at once, and the subscribed          *)
(* instances implement ExclusiveHolder.                                    *)
(***************************************************************************)
EXTENDS MqttHandover, TLAPS

USE NoOwnerAssumption, LeaseDurationAssumption, TimingAssumption DEF NotHeld

\* Whoever is engaged with a trigger that still exists keeps every other
\* instance out of the lease (the WHERE clause of TryAcquireLease).
LEMMA EngagedExcludes ==
    ASSUME SafeTiming, IInv, row # "deleted",
           NEW i \in Instances, NEW j \in Instances, i # j, Engaged(j)
    PROVE  ~Grantable(i)
<1>1. leaseOwner = j /\ leaseTtl >= 0
  <2>1. CASE held[j] # NotHeld
    <3>1. held[j] >= SafetyMargin - SweepGap + sweepIn[j]
      BY <2>1 DEF IInv, SweptInTime, Subscribed
    <3>2. leaseOwner = j /\ leaseTtl >= held[j] - ResolveDelay
      BY <2>1 DEF IInv, LeaseCovers
    <3> QED BY <3>1, <3>2 DEF SafeTiming, IInv, TypeOK, LeaseTypeOK
  <2>2. CASE loop[j] = "granted"
    BY <2>2 DEF SafeTiming, IInv, LeaseCovers, TypeOK, LeaseTypeOK
  <2>3. CASE http[j] = "granted"
    BY <2>3 DEF SafeTiming, IInv, LeaseCovers, TypeOK, LeaseTypeOK
  <2> QED BY <2>1, <2>2, <2>3 DEF Engaged
<1> QED BY <1>1 DEF Grantable, IInv, TypeOK, LeaseTypeOK

\* The initial states satisfy the invariant.
LEMMA InitIInv == Init => IInv
  BY DEF Init, LeaseInit, IInv, TypeOK, LeaseTypeOK, OnlyUp, SweptInTime,
         LeaseCovers, OneEngaged, Engaged, Subscribed

\* Steps of one instance that touch neither the lease row nor the slot and
\* that grant nothing.
LEMMA QuietSteps ==
    ASSUME IInv, NEW i \in Instances,
           \/ Start(i) \/ ListTriggers(i) \/ ListFails(i) \/ LoopLeaseRejected(i)
           \/ CreateTrigger \/ DisableTrigger
    PROVE  IInv'
<1> USE DEF IInv, TypeOK, LeaseTypeOK, OnlyUp, SweptInTime, LeaseCovers, OneEngaged,
            Engaged, Subscribed, leaseVars, Fault
<1>1. CASE Start(i) BY <1>1 DEF Start
<1>2. CASE ListTriggers(i) BY <1>2 DEF ListTriggers
<1>3. CASE ListFails(i) BY <1>3 DEF ListFails
<1>4. CASE LoopLeaseRejected(i) BY <1>4 DEF LoopLeaseRejected
<1>5. CASE CreateTrigger BY <1>5 DEF CreateTrigger
<1>6. CASE DisableTrigger BY <1>6 DEF DisableTrigger
<1> QED BY <1>1, <1>2, <1>3, <1>4, <1>5, <1>6

\* Steps that can only let go of the slot.
LEMMA ReleasingSteps ==
    ASSUME IInv, NEW i \in Instances,
           Crash(i) \/ LoopDenied(i) \/ DropStale(i) \/ Sweep(i) \/ Deregister(i) \/ RemoveTrigger(i)
    PROVE  IInv'
<1> USE DEF IInv, TypeOK, LeaseTypeOK, OnlyUp, SweptInTime, LeaseCovers, OneEngaged,
            Engaged, Subscribed, leaseVars, Fault
<1>1. CASE Crash(i) BY <1>1 DEF Crash
<1>2. CASE LoopDenied(i) BY <1>2 DEF LoopDenied
<1>3. CASE DropStale(i) BY <1>3 DEF DropStale
<1>4. CASE Sweep(i) BY <1>4 DEF Sweep, Lapsing
<1>5. CASE Deregister(i) BY <1>5 DEF Deregister
<1>6. CASE RemoveTrigger(i) BY <1>6 DEF RemoveTrigger, LeaseCascade
<1> QED BY <1>1, <1>2, <1>3, <1>4, <1>5, <1>6

\* A granted lease: nobody else was engaged, and the row is fresh.
LEMMA GrantingSteps ==
    ASSUME SafeTiming, IInv, NEW i \in Instances,
           LoopGranted(i) \/ RegisterGranted(i) \/ LoopLeaseFails(i)
    PROVE  IInv'
<1> USE DEF IInv, TypeOK, LeaseTypeOK, OnlyUp, SweptInTime, LeaseCovers, OneEngaged,
            Engaged, Subscribed, leaseVars, Fault
<1>1. ASSUME row # "deleted", Grantable(i)
      PROVE  \A j \in Instances \ {i} : ~Engaged(j)
  BY <1>1, EngagedExcludes
<1>2. CASE LoopGranted(i)
  <2>1. \A j \in Instances \ {i} : ~Engaged(j)
    BY <1>1, <1>2 DEF LoopGranted, TryAcquireLease
  <2> QED BY <1>2, <2>1 DEF LoopGranted, TryAcquireLease
<1>3. CASE RegisterGranted(i)
  <2>1. \A j \in Instances \ {i} : ~Engaged(j)
    BY <1>1, <1>3 DEF RegisterGranted, TryAcquireLease
  <2> QED BY <1>3, <2>1 DEF RegisterGranted, TryAcquireLease
<1>4. CASE LoopLeaseFails(i)
  <2>1. CASE row # "deleted" /\ TryAcquireLease(i)
    <3>1. \A j \in Instances \ {i} : ~Engaged(j)
      BY <1>1, <2>1 DEF TryAcquireLease
    <3> QED BY <1>4, <2>1, <3>1 DEF LoopLeaseFails, TryAcquireLease
  <2>2. CASE UNCHANGED leaseVars
    BY <1>4, <2>2 DEF LoopLeaseFails
  <2> QED BY <1>4, <2>1, <2>2 DEF LoopLeaseFails
<1> QED BY <1>2, <1>3, <1>4

\* The slot is filled while the grant it rests on is fresh.
LEMMA EnsuringSteps ==
    ASSUME SafeTiming, IInv, NEW i \in Instances, LoopEnsure(i) \/ RegisterEnsure(i)
    PROVE  IInv'
<1> USE DEF IInv, TypeOK, LeaseTypeOK, OnlyUp, SweptInTime, LeaseCovers, OneEngaged,
            Engaged, Subscribed, leaseVars, Fault, EnsuredBy
<1>1. CASE LoopEnsure(i)
  <2>1. CASE held' = [held EXCEPT ![i] = LeaseDuration] /\ UNCHANGED faults
    BY <1>1, <2>1 DEF LoopEnsure, SafeTiming
  <2>2. CASE Fault /\ held' \in {held, [held EXCEPT ![i] = NotHeld]}
    BY <1>1, <2>2 DEF LoopEnsure
  <2> QED BY <1>1, <2>1, <2>2 DEF LoopEnsure
<1>2. CASE RegisterEnsure(i)
  <2>1. CASE held' = [held EXCEPT ![i] = LeaseDuration] /\ UNCHANGED faults
    BY <1>2, <2>1 DEF RegisterEnsure, SafeTiming
  <2>2. CASE Fault /\ held' \in {held, [held EXCEPT ![i] = NotHeld]}
    BY <1>2, <2>2 DEF RegisterEnsure
  <2> QED BY <1>2, <2>1, <2>2 DEF RegisterEnsure
<1> QED BY <1>1, <1>2

\* Time passes only while every deadline has something left.
LEMMA TickStep == ASSUME SafeTiming, IInv, Tick PROVE IInv'
<1> USE DEF IInv, TypeOK, LeaseTypeOK
<1>1. TypeOK'
  BY DEF Tick, LeaseTick, Down
<1>2. OnlyUp'
  BY DEF Tick, Down, OnlyUp, Engaged
<1>3. OneEngaged'
  BY DEF Tick, Down, OneEngaged, Engaged
<1>4. ASSUME NEW i \in Instances, held'[i] # NotHeld
      PROVE  /\ held[i] # NotHeld
             /\ process[i] = "up" /\ sweepIn[i] > 0
             /\ held[i] > 0 /\ held'[i] = held[i] - 1 /\ sweepIn'[i] = sweepIn[i] - 1
  <2>1. held[i] # NotHeld
    BY <1>4 DEF Tick, Down
  <2>2. process[i] = "up" /\ sweepIn[i] > 0
    BY <2>1 DEF OnlyUp, Engaged, Tick, InTime
  <2>3. held[i] >= SafetyMargin - SweepGap + sweepIn[i]
    BY <2>1 DEF SweptInTime, Subscribed
  <2> QED BY <2>1, <2>2, <2>3 DEF Tick, Down, SafeTiming
<1>5. SweptInTime'
  BY <1>4 DEF SweptInTime, Subscribed
<1>6. LeaseCovers'
  <2> SUFFICES ASSUME row' # "deleted", NEW i \in Instances
               PROVE  /\ held'[i] # NotHeld =>
                          leaseOwner' = i /\ leaseTtl' >= held'[i] - ResolveDelay
                      /\ loop'[i] = "granted" =>
                          leaseOwner' = i /\ leaseTtl' >= LeaseDuration - ResolveDelay + loopLeft'[i]
                      /\ http'[i] = "granted" =>
                          leaseOwner' = i /\ leaseTtl' >= LeaseDuration - ResolveDelay + httpLeft'[i]
    BY DEF LeaseCovers
  <2>1. row # "deleted" /\ leaseOwner' = leaseOwner
    BY DEF Tick, LeaseTick
  <2>2. leaseTtl' >= leaseTtl - 1
    BY DEF Tick, LeaseTick
  <2>0. /\ leaseTtl \in Int /\ leaseTtl' \in Int /\ held[i] \in Int
        /\ loopLeft[i] \in Int /\ httpLeft[i] \in Int
    BY DEF Tick, LeaseTick
  <2>3. ASSUME held'[i] # NotHeld
        PROVE  leaseOwner' = i /\ leaseTtl' >= held'[i] - ResolveDelay
    <3>1. leaseOwner = i /\ leaseTtl >= held[i] - ResolveDelay /\ held'[i] = held[i] - 1
      BY <1>4, <2>1, <2>3 DEF LeaseCovers
    <3> QED BY <2>0, <2>1, <2>2, <3>1
  <2>4. ASSUME loop'[i] = "granted"
        PROVE  leaseOwner' = i /\ leaseTtl' >= LeaseDuration - ResolveDelay + loopLeft'[i]
    <3>1. loop[i] = "granted" /\ loopLeft'[i] = loopLeft[i] - 1
      BY <2>4 DEF Tick, InTime, Down, OnlyUp, Engaged
    <3>2. leaseOwner = i /\ leaseTtl >= LeaseDuration - ResolveDelay + loopLeft[i]
      BY <2>1, <3>1 DEF LeaseCovers
    <3> QED BY <2>0, <2>1, <2>2, <3>1, <3>2
  <2>5. ASSUME http'[i] = "granted"
        PROVE  leaseOwner' = i /\ leaseTtl' >= LeaseDuration - ResolveDelay + httpLeft'[i]
    <3>1. http[i] = "granted" /\ httpLeft'[i] = httpLeft[i] - 1
      BY <2>5 DEF Tick, InTime, Down, OnlyUp, Engaged
    <3>2. leaseOwner = i /\ leaseTtl >= LeaseDuration - ResolveDelay + httpLeft[i]
      BY <2>1, <3>1 DEF LeaseCovers
    <3> QED BY <2>0, <2>1, <2>2, <3>1, <3>2
  <2> QED BY <2>3, <2>4, <2>5
<1> QED BY <1>1, <1>2, <1>3, <1>5, <1>6

\* Every step preserves it when a lease outlives the sweep that gives it up.
LEMMA NextIInv == ASSUME SafeTiming PROVE IInv /\ [Next]_vars => IInv'
<1> SUFFICES ASSUME IInv, [Next]_vars PROVE IInv'
  OBVIOUS
<1>1. CASE CreateTrigger \/ DisableTrigger
  <2>1. CASE Instances = {}
    BY <1>1, <2>1 DEF IInv, TypeOK, LeaseTypeOK, OnlyUp, SweptInTime, LeaseCovers, OneEngaged,
                      Engaged, Subscribed, leaseVars, CreateTrigger, DisableTrigger
  <2>2. CASE Instances # {}
    BY <1>1, <2>2, QuietSteps
  <2> QED BY <2>1, <2>2
<1>2. CASE Tick BY <1>2, TickStep
<1>3. ASSUME NEW i \in Instances, Start(i) \/ Crash(i) \/ Reconcile(i) \/ Handler(i)
      PROVE  IInv'
  BY <1>3, QuietSteps, ReleasingSteps, GrantingSteps, EnsuringSteps DEF Reconcile, Handler
<1>4. CASE UNCHANGED vars
  BY <1>4 DEF vars, leaseVars, handoverVars, IInv, TypeOK, LeaseTypeOK, OnlyUp, SweptInTime,
              LeaseCovers, OneEngaged, Engaged, Subscribed
<1> QED BY <1>1, <1>2, <1>3, <1>4 DEF Next

\* The strengthening that everything else rests on.
THEOREM Invariant == ASSUME SafeTiming PROVE Spec => []IInv
  BY InitIInv, NextIInv, PTL DEF Spec

\* Every variable keeps its type.
THEOREM TypeCorrect == ASSUME SafeTiming PROVE Spec => []TypeOK
<1>1. IInv => TypeOK BY DEF IInv
<1> QED BY <1>1, Invariant, PTL

\* Two instances are never subscribed at once.
THEOREM AtMostOneSubscriber == ASSUME SafeTiming PROVE Spec => []SingleSubscriber
<1>1. IInv => SingleSubscriber
  BY DEF IInv, OneEngaged, Engaged, SingleSubscriber, Subscribed
<1> QED BY <1>1, Invariant, PTL

\* Whoever is subscribed owns an unexpired lease on a trigger that exists.
THEOREM SubscribedUnderLease == ASSUME SafeTiming PROVE Spec => []HeldUnderLease
<1>1. ASSUME IInv, row # "deleted", NEW i \in Subscribed
      PROVE  leaseOwner = i /\ leaseTtl >= 0
  <2>1. held[i] >= SafetyMargin - SweepGap + sweepIn[i]
    BY <1>1 DEF IInv, SweptInTime
  <2>2. leaseOwner = i /\ leaseTtl >= held[i] - ResolveDelay
    BY <1>1 DEF IInv, LeaseCovers, Subscribed
  <2>3. held[i] \in Int /\ leaseTtl \in Int /\ sweepIn[i] \in Nat
    BY <1>1 DEF IInv, TypeOK, LeaseTypeOK, Subscribed
  <2> QED BY <2>1, <2>2, <2>3 DEF SafeTiming
<1>2. IInv => HeldUnderLease
  BY <1>1 DEF HeldUnderLease
<1> QED BY <1>2, Invariant, PTL

\* The lease changes hands only after its last owner has let go of the
\* subscription: a step that writes a new owner found the row grantable.
THEOREM HandoverIsOrdered == ASSUME SafeTiming PROVE Spec => HandoverOrdered
<1>1. ASSUME IInv, [Next]_vars, NEW i \in Instances,
             leaseOwner = i, leaseOwner' \in Instances \ {i}
      PROVE  held[i] = NotHeld
  <2>1. \E j \in Instances : TryAcquireLease(j) /\ row # "deleted"
    BY <1>1 DEF Next, Reconcile, Handler, vars, leaseVars, CreateTrigger, DisableTrigger, Tick, LeaseTick,
           Start, Crash, ListTriggers, ListFails, LoopGranted, LoopDenied, LoopLeaseFails,
           LoopLeaseRejected, LoopEnsure, DropStale, Sweep, RegisterGranted, RegisterEnsure,
           Deregister, RemoveTrigger, LeaseCascade
  <2>2. PICK j \in Instances : TryAcquireLease(j) /\ row # "deleted"
    BY <2>1
  <2>3. Grantable(j) /\ i # j
    BY <1>1, <2>2 DEF TryAcquireLease
  <2> QED BY <1>1, <2>2, <2>3, EngagedExcludes DEF Engaged
<1>2. IInv /\ [Next]_vars =>
        [\A i \in Instances :
            leaseOwner = i /\ leaseOwner' \in Instances \ {i} => held[i] = NotHeld]_vars
  BY <1>1
<1> QED BY <1>2, Invariant, PTL DEF Spec, HandoverOrdered

\* Steps only let go, except for ensure, which fills the slot of an instance
\* that was engaged already and is therefore the only one.
LEMMA SubscribedStep ==
    ASSUME IInv, [Next]_vars
    PROVE  \/ Subscribed' \subseteq Subscribed
           \/ \E i \in Instances : Subscribed \subseteq {i} /\ Subscribed' = {i}
<1>1. ASSUME NEW i \in Instances, LoopEnsure(i) \/ RegisterEnsure(i)
      PROVE  \/ Subscribed' \subseteq Subscribed
             \/ Subscribed \subseteq {i} /\ Subscribed' = {i}
  <2>1. Subscribed \subseteq {i}
    BY <1>1 DEF IInv, OneEngaged, Engaged, Subscribed, LoopEnsure, RegisterEnsure
  <2>2. \/ held' = [held EXCEPT ![i] = LeaseDuration]
        \/ held' \in {held, [held EXCEPT ![i] = NotHeld]}
    BY <1>1 DEF LoopEnsure, RegisterEnsure, EnsuredBy
  <2> QED BY <2>1, <2>2 DEF IInv, TypeOK, Subscribed
<1>2. CASE Tick
  BY <1>2 DEF Tick, Down, Subscribed, IInv, TypeOK
<1>3. ASSUME NEW i \in Instances,
             \/ Start(i) \/ Crash(i) \/ ListTriggers(i) \/ ListFails(i) \/ LoopGranted(i)
             \/ LoopDenied(i) \/ LoopLeaseFails(i) \/ LoopLeaseRejected(i) \/ DropStale(i)
             \/ Sweep(i) \/ RegisterGranted(i) \/ Deregister(i) \/ RemoveTrigger(i)
      PROVE  Subscribed' \subseteq Subscribed
  <2>1. held' = held \/ held' = [held EXCEPT ![i] = NotHeld]
    BY <1>3 DEF Start, Crash, ListTriggers, ListFails, LoopGranted, LoopDenied, LoopLeaseFails,
           LoopLeaseRejected, DropStale, Sweep, RegisterGranted, Deregister, RemoveTrigger
  <2> QED BY <2>1 DEF Subscribed, IInv, TypeOK
<1>4. CASE CreateTrigger \/ DisableTrigger \/ UNCHANGED vars
  BY <1>4 DEF CreateTrigger, DisableTrigger, vars, handoverVars, Subscribed
<1> QED BY <1>1, <1>2, <1>3, <1>4 DEF Next, Reconcile, Handler

\* The subscribed instances implement the abstract exclusive holder: a step
\* takes the empty resource, drops it, or leaves it alone.
THEOREM Refinement == ASSUME SafeTiming PROVE Spec => ImplementsExclusive
<1>1. Init => Exclusive!Init
  BY DEF Init, Exclusive!Init, Subscribed
<1>2. ASSUME IInv, IInv', [Next]_vars
      PROVE  [Exclusive!Next]_Subscribed
  <2>1. \A i, j \in Subscribed : i = j
    BY <1>2 DEF IInv, OneEngaged, Engaged, Subscribed
  <2>2. CASE Subscribed' \subseteq Subscribed /\ Subscribed' # Subscribed
    <3>1. PICK i \in Subscribed : Subscribed' = Subscribed \ {i}
      BY <2>1, <2>2
    <3>2. i \in Instances
      BY DEF Subscribed
    <3> QED BY <3>1, <3>2 DEF Exclusive!Next, Exclusive!Drop
  <2>3. ASSUME NEW i \in Instances, Subscribed \subseteq {i}, Subscribed' = {i}
        PROVE  [Exclusive!Next]_Subscribed
    BY <2>3 DEF Exclusive!Next, Exclusive!Take
  <2> QED BY <1>2, <2>2, <2>3, SubscribedStep
<1> QED BY <1>1, <1>2, InitIInv, NextIInv, PTL DEF Spec, ImplementsExclusive, Exclusive!Spec
=============================================================================
