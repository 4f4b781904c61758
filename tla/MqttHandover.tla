---------------------------- MODULE MqttHandover ----------------------------
(***************************************************************************)
(* Several Launch instances, one MQTT trigger, and the question the lease  *)
(* is there to answer: who is subscribed, and for how long.                *)
(*                                                                         *)
(* Each instance runs the reconcile loop of internal/mqtt/service.go, and  *)
(* a flow save or a trigger deletion may be handled by any of them.  The   *)
(* loop reads the trigger list, takes the lease, resolves the              *)
(* configuration, records the lease expiry by its own clock and finally    *)
(* sweeps what is about to lapse; other instances and the clock move       *)
(* between any two of those steps.  Other triggers of the same instance    *)
(* are handled in the same loop and only make its steps slower: they are   *)
(* covered by SweepGap and ResolveDelay.                                   *)
(*                                                                         *)
(* One instance's connections, and the races inside it, are the subject of *)
(* MqttConnection; here to hold the map slot is to be subscribed.          *)
(***************************************************************************)
EXTENDS TriggerLease

CONSTANTS SafetyMargin,   \* leaseSafetyMargin
          SweepGap,       \* longest time between two sweeps of a live instance
          ResolveDelay,   \* longest time from the lease grant to the moment
                          \* ensure reads its clock
          MaxFaults       \* bound on failed calls and unusable configurations

ASSUME TimingAssumption ==
    /\ SafetyMargin \in Nat /\ SweepGap \in Nat \ {0} /\ ResolveDelay \in Nat
    /\ SafetyMargin <= LeaseDuration
    /\ MaxFaults \in Nat

VARIABLES
    row,        \* the trigger's row: "absent", "live", "disabled", "deleted"
    process,    \* process[i]: "new" (not started), "up", "crashed"
    held,       \* held[i]: what is left of subs[id].leaseExpiry, or NotHeld
    loop,       \* loop[i]: where the reconcile loop is
    loopLeft,   \* time left to the loop between grant and ensure
    sweepIn,    \* time left until the next sweep must have been made
    http,       \* http[i]: where the save or delete handler is
    httpLeft,   \* time left to the handler between grant and ensure
    faults

handoverVars == <<row, process, held, loop, loopLeft, sweepIn, http, httpLeft, faults>>
vars == <<leaseVars, handoverVars>>

NotHeld == -1

TypeOK ==
    /\ LeaseTypeOK
    /\ row \in {"absent", "live", "disabled", "deleted"}
    /\ process \in [Instances -> {"new", "up", "crashed"}]
    /\ held \in [Instances -> NotHeld .. LeaseDuration]
    /\ loop \in [Instances -> {"idle", "listed", "unlisted", "granted", "sweep"}]
    /\ loopLeft \in [Instances -> 0 .. ResolveDelay]
    /\ sweepIn \in [Instances -> 0 .. SweepGap]
    /\ http \in [Instances -> {"idle", "granted", "removing"}]
    /\ httpLeft \in [Instances -> 0 .. ResolveDelay]
    /\ faults \in 0 .. MaxFaults

Init ==
    /\ LeaseInit
    /\ row = "absent"
    /\ process = [i \in Instances |-> "new"]
    /\ held = [i \in Instances |-> NotHeld]
    /\ loop = [i \in Instances |-> "idle"]
    /\ loopLeft = [i \in Instances |-> 0]
    /\ sweepIn = [i \in Instances |-> SweepGap]
    /\ http = [i \in Instances |-> "idle"]
    /\ httpLeft = [i \in Instances |-> 0]
    /\ faults = 0

Fault == faults < MaxFaults /\ faults' = faults + 1

-----------------------------------------------------------------------------
(* The process and the trigger table. *)

\* NewService: a fresh instanceID and an empty map.
Start(i) ==
    /\ process[i] = "new"
    /\ process' = [process EXCEPT ![i] = "up"]
    /\ sweepIn' = [sweepIn EXCEPT ![i] = SweepGap]
    /\ UNCHANGED <<leaseVars, row, held, loop, loopLeft, http, httpLeft, faults>>

\* The process dies: its connections go with it, its lease row stays.
Crash(i) ==
    /\ process[i] = "up"
    /\ process' = [process EXCEPT ![i] = "crashed"]
    /\ held' = [held EXCEPT ![i] = NotHeld]
    /\ loop' = [loop EXCEPT ![i] = "idle"]
    /\ http' = [http EXCEPT ![i] = "idle"]
    /\ UNCHANGED <<leaseVars, row, loopLeft, sweepIn, httpLeft, faults>>

\* createTrigger's upsert of a new row.
CreateTrigger ==
    /\ row = "absent"
    /\ row' = "live"
    /\ UNCHANGED <<leaseVars, process, held, loop, loopLeft, sweepIn, http, httpLeft, faults>>

\* disabled_at is only ever set from outside Launch.
DisableTrigger ==
    /\ row = "live"
    /\ row' = "disabled"
    /\ UNCHANGED <<leaseVars, process, held, loop, loopLeft, sweepIn, http, httpLeft, faults>>

-----------------------------------------------------------------------------
(* The reconcile loop. *)

\* GetTriggersByType: only rows that are not disabled.  The loop waits for its
\* ticker, so time has passed since the last sweep.
ListTriggers(i) ==
    /\ process[i] = "up" /\ loop[i] = "idle" /\ sweepIn[i] < SweepGap
    /\ loop' = [loop EXCEPT ![i] = IF row = "live" THEN "listed" ELSE "unlisted"]
    /\ UNCHANGED <<leaseVars, row, process, held, loopLeft, sweepIn, http, httpLeft, faults>>

\* Faulty variant: an early return that forgets releaseExpiringLeases.
ListFails_NoSweep(i) ==
    /\ process[i] = "up" /\ loop[i] = "idle" /\ sweepIn[i] < SweepGap
    /\ Fault
    /\ sweepIn' = [sweepIn EXCEPT ![i] = SweepGap]
    /\ UNCHANGED <<leaseVars, row, process, held, loop, loopLeft, http, httpLeft>>

\* The list cannot be read: straight to releaseExpiringLeases.
ListFails(i) ==
    /\ process[i] = "up" /\ loop[i] = "idle" /\ sweepIn[i] < SweepGap
    /\ Fault
    /\ loop' = [loop EXCEPT ![i] = "sweep"]
    /\ UNCHANGED <<leaseVars, row, process, held, loopLeft, sweepIn, http, httpLeft>>

\* The lease is granted or renewed; the configuration is still to be resolved.
LoopGranted(i) ==
    /\ loop[i] = "listed" /\ row # "deleted"
    /\ TryAcquireLease(i)
    /\ loop' = [loop EXCEPT ![i] = "granted"]
    /\ loopLeft' = [loopLeft EXCEPT ![i] = ResolveDelay]
    /\ UNCHANGED <<row, process, held, sweepIn, http, httpLeft, faults>>

\* Another instance owns it: let the subscription go.
LoopDenied(i) ==
    /\ loop[i] = "listed" /\ row # "deleted"
    /\ ~Grantable(i)
    /\ held' = [held EXCEPT ![i] = NotHeld]
    /\ loop' = [loop EXCEPT ![i] = "sweep"]
    /\ UNCHANGED <<leaseVars, row, process, loopLeft, sweepIn, http, httpLeft, faults>>

\* Faulty variant: a failed renewal is taken for a renewal.
LoopLeaseFails_Renews(i) ==
    /\ loop[i] = "listed"
    /\ Fault
    /\ held' = [held EXCEPT ![i] = IF @ # NotHeld THEN LeaseDuration ELSE @]
    /\ loop' = [loop EXCEPT ![i] = "sweep"]
    /\ UNCHANGED <<leaseVars, row, process, loopLeft, sweepIn, http, httpLeft>>

\* TryAcquireLease fails: the trigger stays wanted and nothing is renewed here,
\* although the statement may have been carried out before the answer was lost.
LoopLeaseFails(i) ==
    /\ loop[i] = "listed"
    /\ Fault
    /\ \/ row # "deleted" /\ TryAcquireLease(i)
       \/ UNCHANGED leaseVars
    /\ loop' = [loop EXCEPT ![i] = "sweep"]
    /\ UNCHANGED <<row, process, held, loopLeft, sweepIn, http, httpLeft>>

\* The row went away after it was listed: the foreign key rejects the lease.
LoopLeaseRejected(i) ==
    /\ loop[i] = "listed" /\ row = "deleted"
    /\ loop' = [loop EXCEPT ![i] = "sweep"]
    /\ UNCHANGED <<leaseVars, row, process, held, loopLeft, sweepIn, http, httpLeft, faults>>

\* ensure keeps the connection or builds a new one; either way the slot's
\* expiry is the local clock plus leaseDuration.  An unusable configuration
\* leaves the slot as it was, settings dial cannot use empty it.
EnsuredBy(i) ==
    \/ /\ held' = [held EXCEPT ![i] = LeaseDuration]
       /\ UNCHANGED faults
    \/ /\ Fault
       /\ held' \in {held, [held EXCEPT ![i] = NotHeld]}

LoopEnsure(i) ==
    /\ loop[i] = "granted"
    /\ EnsuredBy(i)
    /\ loop' = [loop EXCEPT ![i] = "sweep"]
    /\ UNCHANGED <<leaseVars, row, process, loopLeft, sweepIn, http, httpLeft>>

\* The slot's trigger was not in the list.
DropStale(i) ==
    /\ loop[i] = "unlisted"
    /\ held' = [held EXCEPT ![i] = NotHeld]
    /\ loop' = [loop EXCEPT ![i] = "sweep"]
    /\ UNCHANGED <<leaseVars, row, process, loopLeft, sweepIn, http, httpLeft, faults>>

\* Faulty variant: the sweep waits for the expiry itself.
Lapsing_AtExpiry(i) == held[i] = 0

\* releaseExpiringLeases: cutoff.After(leaseExpiry) with cutoff = now + margin.
Lapsing(i) == held[i] # NotHeld /\ held[i] < SafetyMargin

Sweep(i) ==
    /\ loop[i] = "sweep"
    /\ held' = IF Lapsing(i) THEN [held EXCEPT ![i] = NotHeld] ELSE held
    /\ loop' = [loop EXCEPT ![i] = "idle"]
    /\ sweepIn' = [sweepIn EXCEPT ![i] = SweepGap]
    /\ UNCHANGED <<leaseVars, row, process, loopLeft, http, httpLeft, faults>>

-----------------------------------------------------------------------------
(* The HTTP handlers: Register after a flow save, Deregister on deletion. *)

\* Faulty variant: Register goes on although the lease was denied.
RegisterGranted_Anyway(i) ==
    /\ process[i] = "up" /\ http[i] = "idle" /\ row = "live"
    /\ TryAcquireLease(i) \/ (~Grantable(i) /\ UNCHANGED leaseVars)
    /\ http' = [http EXCEPT ![i] = "granted"]
    /\ httpLeft' = [httpLeft EXCEPT ![i] = ResolveDelay]
    /\ UNCHANGED <<row, process, held, loop, loopLeft, sweepIn, faults>>

RegisterGranted(i) ==
    /\ process[i] = "up" /\ http[i] = "idle" /\ row = "live"
    /\ TryAcquireLease(i)
    /\ http' = [http EXCEPT ![i] = "granted"]
    /\ httpLeft' = [httpLeft EXCEPT ![i] = ResolveDelay]
    /\ UNCHANGED <<row, process, held, loop, loopLeft, sweepIn, faults>>

RegisterEnsure(i) ==
    /\ http[i] = "granted"
    /\ EnsuredBy(i)
    /\ http' = [http EXCEPT ![i] = "idle"]
    /\ UNCHANGED <<leaseVars, row, process, loop, loopLeft, sweepIn, httpLeft>>

\* deleteTrigger closes the subscription first ...
Deregister(i) ==
    /\ process[i] = "up" /\ http[i] = "idle" /\ row \in {"live", "disabled"}
    /\ held' = [held EXCEPT ![i] = NotHeld]
    /\ http' = [http EXCEPT ![i] = "removing"]
    /\ UNCHANGED <<leaseVars, row, process, loop, loopLeft, sweepIn, httpLeft, faults>>

\* ... and removes the row, with its lease, after.
RemoveTrigger(i) ==
    /\ http[i] = "removing"
    /\ \/ /\ row' = "deleted"
          /\ LeaseCascade
          /\ UNCHANGED faults
       \/ /\ Fault
          /\ UNCHANGED <<row, leaseVars>>
    /\ http' = [http EXCEPT ![i] = "idle"]
    /\ UNCHANGED <<process, held, loop, loopLeft, sweepIn, httpLeft>>

-----------------------------------------------------------------------------
(* The clock.  It waits for whoever has used up the time the constants give. *)

InTime(i) ==
    process[i] = "up" =>
        /\ sweepIn[i] > 0
        /\ loop[i] = "granted" => loopLeft[i] > 0
        /\ http[i] = "granted" => httpLeft[i] > 0

Down(n) == IF n > 0 THEN n - 1 ELSE n

Tick ==
    /\ \A i \in Instances : InTime(i)
    /\ LeaseTick
    /\ held' = [i \in Instances |-> Down(held[i])]
    /\ sweepIn' = [i \in Instances |-> Down(sweepIn[i])]
    /\ loopLeft' = [i \in Instances |-> Down(loopLeft[i])]
    /\ httpLeft' = [i \in Instances |-> Down(httpLeft[i])]
    /\ UNCHANGED <<row, process, loop, http, faults>>

-----------------------------------------------------------------------------
Reconcile(i) ==
    \/ ListTriggers(i) \/ ListFails(i)
    \/ LoopGranted(i) \/ LoopDenied(i) \/ LoopLeaseFails(i) \/ LoopLeaseRejected(i)
    \/ LoopEnsure(i) \/ DropStale(i) \/ Sweep(i)

Handler(i) ==
    RegisterGranted(i) \/ RegisterEnsure(i) \/ Deregister(i) \/ RemoveTrigger(i)

Next ==
    \/ CreateTrigger \/ DisableTrigger \/ Tick
    \/ \E i \in Instances : Start(i) \/ Crash(i) \/ Reconcile(i) \/ Handler(i)

Spec == Init /\ [][Next]_vars

\* The ticker keeps the loop going, a handler that was granted a lease goes on
\* to ensure, a deployment starts its instances, and time passes.
Fairness ==
    /\ WF_vars(Tick)
    /\ \A i \in Instances :
         WF_vars(Start(i)) /\ WF_vars(Reconcile(i)) /\ WF_vars(RegisterEnsure(i))
         /\ WF_vars(RemoveTrigger(i))

FairSpec == Spec /\ Fairness

-----------------------------------------------------------------------------
Subscribed == {i \in Instances : held[i] # NotHeld}

\* On the way to the slot or in it.
Engaged(i) == held[i] # NotHeld \/ loop[i] = "granted" \/ http[i] = "granted"

\* Two instances are never subscribed to the trigger at once, so no message
\* runs the flow twice (internal/mqtt/service.go, releaseExpiringLeases).
SingleSubscriber == \A i, j \in Subscribed : i = j

\* The same guarantee seen from the lease: whoever holds the slot of a trigger
\* that still exists owns the database lease, and it has not lapsed.
HeldUnderLease ==
    row # "deleted" =>
        \A i \in Subscribed : leaseOwner = i /\ leaseTtl >= 0

\* The lease row moves to another instance only after the last owner has let
\* go: "we are gone before anyone else can arrive".
HandoverOrdered ==
    [][\A i \in Instances :
         leaseOwner = i /\ leaseOwner' \in Instances \ {i} => held[i] = NotHeld]_vars

\* The subscribed instances behave as ExclusiveHolder says.
Exclusive == INSTANCE ExclusiveHolder WITH Holders <- Instances, holding <- Subscribed
ImplementsExclusive == Exclusive!Spec

\* A trigger that stays live is picked up by whoever is running: after the
\* owner crashed, once the row lapses.
TakenOver ==
    \A i \in Instances :
        row = "live" /\ process[i] = "up"
            ~> Subscribed # {} \/ row # "live" \/ process[i] = "crashed"

-----------------------------------------------------------------------------
(* The inductive invariant behind SingleSubscriber. *)

\* Only a running process holds or does anything.
OnlyUp == \A i \in Instances :
            Engaged(i) \/ loop[i] # "idle" \/ http[i] # "idle" => process[i] = "up"

\* A slot that survived a sweep has the margin left, less the time since.
SweptInTime == \A i \in Subscribed :
                 held[i] >= SafetyMargin - SweepGap + sweepIn[i]

\* The database row outlives the local expiry less the delay, and a granted
\* lease is as fresh as the time its holder has left to use it.
LeaseCovers ==
    row # "deleted" =>
        \A i \in Instances :
            /\ held[i] # NotHeld =>
                 leaseOwner = i /\ leaseTtl >= held[i] - ResolveDelay
            /\ loop[i] = "granted" =>
                 leaseOwner = i /\ leaseTtl >= LeaseDuration - ResolveDelay + loopLeft[i]
            /\ http[i] = "granted" =>
                 leaseOwner = i /\ leaseTtl >= LeaseDuration - ResolveDelay + httpLeft[i]

\* Once the row is deleted its lease is gone too; what is left is that at most
\* one instance ever got past the lease.
OneEngaged == \A i, j \in Instances : Engaged(i) /\ Engaged(j) => i = j

\* What the constants must satisfy: a lease outlives the sweep that gives it
\* up.  With reconcileInterval 30s and leaseSafetyMargin 45s this leaves 15s
\* for resolving the configuration.
SafeTiming == SweepGap + ResolveDelay <= SafetyMargin

IInv == TypeOK /\ OnlyUp /\ SweptInTime /\ LeaseCovers /\ OneEngaged
=============================================================================
