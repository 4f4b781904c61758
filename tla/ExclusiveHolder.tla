-------------------------- MODULE ExclusiveHolder --------------------------
(***************************************************************************)
(* What a lease promises the component that uses it: a resource has at     *)
(* most one holder, and a new one comes only after the last one has let    *)
(* go.  MqttHandover is shown to implement this module.                    *)
(***************************************************************************)
CONSTANT Holders

VARIABLE holding   \* who holds the resource

Init == holding = {}

Take(h) ==
    /\ holding = {}
    /\ holding' = {h}

Drop(h) ==
    /\ h \in holding
    /\ holding' = holding \ {h}

Next == \E h \in Holders : Take(h) \/ Drop(h)

Spec == Init /\ [][Next]_holding
=============================================================================
