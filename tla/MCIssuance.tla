----------------------------- MODULE MCIssuance -----------------------------
(* Small instances of Issuance. *)
EXTENDS Issuance, TLC

Mint(admin, wallet, amount, key) ==
  [admin |-> admin, wallet |-> wallet, amount |-> amount, key |-> key,
   reason |-> "given"]

MCWallets == 1..2
MCOpening == (1 :> 1) @@ (2 :> 0)

\* One issuance, the same key with another body and of another admin, and the
\* inputs that are refused.
MCWanted ==
  {Mint("ann", 1, 1, "k"), Mint("ann", 2, 2, "k"), Mint("bob", 1, 1, "k"),
   Mint("ann", 3, 1, "k"), Mint("ann", 1, 0, "k"), Mint("ann", 1, 3, "k"),
   Mint("ann", 1, 1, NoKey),
   [Mint("ann", 1, 1, "k") EXCEPT !.reason = "short"]}

Perms == Permutations(Attempts)
=============================================================================
