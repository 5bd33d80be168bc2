------------------------------ MODULE MCProactor ------------------------------
(* Two clients, two workers and a list with one place: one client is served   *)
(* while the other connects, sends, is closed by a tick or finds no place in   *)
(* the list.                                                                  *)
EXTENDS Proactor, TLC

Symmetry == Permutations(Clients) \cup Permutations(Workers)
===============================================================================
