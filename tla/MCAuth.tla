------------------------------- MODULE MCAuth -------------------------------
(* Callers on an administrator and one more account.                       *)
EXTENDS Auth, TLC

Alike == Permutations(Callers)
=============================================================================
