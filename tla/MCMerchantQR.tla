---------------------------- MODULE MCMerchantQR ----------------------------
(* Small instances of MerchantQR. *)
EXTENDS MerchantQR, TLC

\* Wallet 1 is the merchant's.
MCWallets == 1..3
MCOpening == (1 :> 0) @@ (2 :> 2) @@ (3 :> 1)

\* Two payers and the merchant himself; a payer who comes back with a new key.
MCWanted ==
  {[payer |-> w, key |-> "k"] : w \in MCWallets} \cup {[payer |-> 2, key |-> "l"]}

Perms == Permutations(Attempts)
=============================================================================
