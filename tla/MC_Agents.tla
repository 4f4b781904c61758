------------------------------ MODULE MC_Agents ------------------------------
(* Model checking of Agents and of AgentMessages, side by side: a behaviour *)
(* is one of the first or one of the second, and leaves the variables of    *)
(* the other as they began.                                                 *)
EXTENDS Agents, AgentMessages

VARIABLE model

MCInit ==
    /\ Init /\ MessageInit
    /\ \/ model = "agent" /\ row = "none" /\ serving = {}
       \/ model = "message" /\ reg = "none"

MCNext ==
    /\ UNCHANGED model
    /\ \/ model = "agent" /\ Next /\ UNCHANGED messageVars
       \/ model = "message" /\ MessageNext /\ UNCHANGED vars

MCSpec == MCInit /\ [][MCNext]_<<vars, messageVars, model>> /\ Fairness
=============================================================================
