------------------------------ MODULE MC_Mqtt ------------------------------
(* Model checking of MqttHandover and of MqttDispatch, side by side: a      *)
(* behaviour is one of the first or one of the second, and leaves the       *)
(* variables of the other as they began.  In the first one unit is 15       *)
(* seconds: leaseDuration 2m, leaseSafetyMargin 45s, reconcileInterval 30s; *)
(* in the second the channel is shorter than the burst.                     *)
EXTENDS MqttHandover, MqttDispatch

VARIABLE model

MCInit == Init /\ DispatchInit /\ model \in {"handover", "dispatch"}

MCNext ==
    /\ UNCHANGED model
    /\ \/ model = "handover" /\ Next /\ UNCHANGED dispatchVars
       \/ model = "dispatch" /\ DispatchNext /\ UNCHANGED vars

\* The fairness of MqttHandover where it is the one that moves; nothing that
\* DispatchFairness is about is enabled before a message is published.
HandoverFairness ==
    LET Moves == model = "handover"
    IN  /\ WF_vars(Moves /\ Tick)
        /\ \A i \in Instances :
             /\ WF_vars(Moves /\ Start(i)) /\ WF_vars(Moves /\ Reconcile(i))
             /\ WF_vars(Moves /\ RegisterEnsure(i)) /\ WF_vars(Moves /\ RemoveTrigger(i))

MCSpec ==
    /\ MCInit /\ [][MCNext]_<<vars, dispatchVars, model>>
    /\ HandoverFairness /\ DispatchFairness
=============================================================================
