--------------------------- MODULE MCRateLimiter ---------------------------
(* A small instance of RateLimiter: three servers that share a counter. *)
EXTENDS RateLimiter, TLC

Perms == Permutations(Slots)
=============================================================================
