---------------------------- MODULE MC_FormDraft ----------------------------
(* Model checking of FormDraft: two tabs, so that every pair of requests   *)
(* can overlap.                                                            *)
EXTENDS FormDraft, TLC

Symmetry ==
    Permutations(Tabs) \cup Permutations(Sids)
        \cup Permutations(Sessions) \cup Permutations(Answers)
=============================================================================
