------------------------------- MODULE MCAccounts ------------------------------
(* Two workers over two names and two passwords: the same name at once, with   *)
(* the same and with another password, beside another name.                   *)
EXTENDS Accounts, TLC

Symmetry == Permutations(Names) \cup Permutations(Passwords) \cup Permutations(Workers)
================================================================================
