----------------------------- MODULE MCTimerList ------------------------------
(* Four timers, so that a node can be unlinked from the middle and put back  *)
(* in the middle; delays and clock small enough to make ties and expiries.   *)
EXTENDS TimerList, TLC

Symmetry == Permutations(Timers)
===============================================================================
