----------------------------- MODULE MCPayment -----------------------------
(* Small instances of Payment. *)
EXTENDS Payment, TLC

Pay(from, to, amount, key) ==
  [from |-> from, to |-> to, amount |-> amount, key |-> key,
   reference |-> "fits"]

MCWallets == 1..2
MCOpening == (1 :> 2) @@ (2 :> 1)

\* A payment that empties the wallet, the same key with another amount, the same
\* key of another wallet, which restores the balance, one with another key; and
\* the inputs that are refused.
MCWanted ==
  {Pay(1, 2, 2, "k"), Pay(1, 2, 1, "k"), Pay(2, 1, 1, "k"), Pay(1, 2, 1, "l"),
   Pay(1, 2, 0, "k"), Pay(1, 2, 1, NoKey), Pay(1, 1, 1, "k"), Pay(1, 3, 1, "k"),
   [Pay(1, 2, 1, "k") EXCEPT !.reference = "long"]}

Perms == Permutations(Attempts)
=============================================================================
