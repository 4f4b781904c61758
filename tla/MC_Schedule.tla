---------------------------- MODULE MC_Schedule ----------------------------
(* Model checking of Schedule: days of three units, the middle one of      *)
(* three days excluded, and a lease of one unit.                           *)
EXTENDS Schedule
=============================================================================
