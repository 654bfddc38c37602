------------------------------ MODULE MCLedger ------------------------------
(* A small instance of Ledger: three wallets, two connections, three calls that *)
(* compete for them.                                                             *)
EXTENDS Ledger, TLC

CONSTANTS r1, r2, r3

Transfer(s, r, a, k) ==
  [op |-> "Transfer", sender |-> s, receiver |-> r, amount |-> a, key |-> k]
Issue(r, a) ==
  [op |-> "Issue", sender |-> NoWallet, receiver |-> r, amount |-> a,
   key |-> NoKey]

MCWallets == 1..3
MCOpening == (1 :> 2) @@ (2 :> 1) @@ (3 :> 0)

\* Opposite transfers on one pair of wallets, a cycle over all three, a retry
\* with the same key and one that reuses the key for another amount, an
\* issuance that overflows the column unless wallet 2 has paid first, and the
\* calls behind the early returns.
CallList ==
  <<Transfer(1, 2, 2, "k"), Transfer(1, 2, 1, "k"), Transfer(2, 1, 1, NoKey),
    Transfer(2, 3, 1, "k"), Transfer(3, 1, 1, NoKey),
    Issue(2, 4),
    Transfer(1, 2, 0, NoKey), Transfer(1, 1, 1, "k"), Transfer(3, 4, 1, NoKey)>>

MCCalls == {CallList[i] : i \in DOMAIN CallList}

\* The requests differ in nothing but their calls, which are therefore handed out
\* in the order of the list.  (Symmetry would do the same, but not for liveness.)
MCInit ==
  /\ Init
  /\ \E i, j, k \in DOMAIN CallList :
       /\ i <= j /\ j <= k
       /\ call = (r1 :> CallList[i]) @@ (r2 :> CallList[j]) @@ (r3 :> CallList[k])

MCSpec == MCInit /\ [][Next]_vars /\ \A r \in Requests : WF_vars(Advance(r))
=============================================================================
