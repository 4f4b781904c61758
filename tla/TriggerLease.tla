---------------------------- MODULE TriggerLease ----------------------------
(***************************************************************************)
(* The row of trigger_lease that guards one trigger, as TryAcquireLease    *)
(* and the cascade from the trigger table change it.  Every Launch         *)
(* instance talks to the same Postgres, so the row is the only state the   *)
(* instances share.                                                        *)
(*                                                                         *)
(* Time is counted in units; leaseTtl is what is left of expires_at, and   *)
(* -1 stands for every instant past it: the statement grants a row only    *)
(* when expires_at < NOW(), so a row at 0 is still its owner's.            *)
(***************************************************************************)
EXTENDS Integers

CONSTANTS Instances,      \* instance ids; a restarted process is a new one
          NoOwner,        \* there is no row
          LeaseDuration   \* the duration argument of TryAcquireLease

ASSUME NoOwnerAssumption == NoOwner \notin Instances
ASSUME LeaseDurationAssumption == LeaseDuration \in Nat \ {0}

VARIABLES leaseOwner, leaseTtl

leaseVars == <<leaseOwner, leaseTtl>>

LeaseTypeOK ==
    /\ leaseOwner \in Instances \cup {NoOwner}
    /\ leaseTtl \in -1 .. LeaseDuration

LeaseInit ==
    /\ leaseOwner = NoOwner
    /\ leaseTtl = -1

\* Faulty variants of Grantable: a row that is granted to anyone, and one that
\* is never granted to anyone else.
Grantable_Anyone(i) == leaseOwner \in Instances \cup {NoOwner}
Grantable_OwnerOnly(i) == leaseOwner \in {NoOwner, i}

\* The WHERE clause of the upsert, and the insert when there is no row.
Grantable(i) == leaseOwner \in {NoOwner, i} \/ leaseTtl < 0

\* TryAcquireLease returning true: one statement, so the test and the write
\* are one step.
TryAcquireLease(i) ==
    /\ Grantable(i)
    /\ leaseOwner' = i
    /\ leaseTtl' = LeaseDuration

\* ON DELETE CASCADE from trigger.
LeaseCascade == leaseOwner' = NoOwner /\ leaseTtl' = -1

LeaseTick ==
    /\ leaseTtl' = IF leaseTtl >= 0 THEN leaseTtl - 1 ELSE leaseTtl
    /\ UNCHANGED leaseOwner
=============================================================================
