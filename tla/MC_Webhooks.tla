----------------------------- MODULE MC_Webhooks -----------------------------
(* Model checking of Webhooks: one trigger of each provider in turn.       *)
EXTENDS Webhooks, TLC

Symmetry == Permutations(Savers)
=============================================================================
