------------------------------ MODULE MC_Pollers ------------------------------
(* Model checking of Pollers: two instances that poll one trigger of each  *)
(* kind in turn.                                                           *)
EXTENDS Pollers
=============================================================================
