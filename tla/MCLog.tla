--------------------------------- MODULE MCLog ---------------------------------
(* The event loop and two workers, a new file every second line and at midnight: *)
(* lines of the day before that come late, files changed while others write.     *)
EXTENDS Log, TLC

Symmetry == Permutations(Workers)
================================================================================
