------------------------------- MODULE MCAuth -------------------------------
(* Small instances of Auth. *)
EXTENDS Auth, TLC

Perms == Permutations(Attempts)
=============================================================================
