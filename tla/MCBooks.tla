------------------------------ MODULE MCBooks ------------------------------
(* A small instance of Books: two connections, two calls, one reader, one wallet *)
(* to seed.                                                                       *)
EXTENDS Books, TLC

CONSTANTS r1, r2

Transfer(s, r, a, k) ==
  [op |-> "Transfer", sender |-> s, receiver |-> r, amount |-> a, key |-> k]

MCWallets == 1..2
MCOpening == (1 :> 2) @@ (2 :> 1)

\* A retried key, and a debit that the seed program's credit may or may not
\* cover.
MCCalls == {Transfer(1, 2, 1, "k"), Transfer(2, 1, 2, NoKey)}

Query(e, w, m, t) == [endpoint |-> e, wallet |-> w, may_read |-> m, type |-> t]

MCQueries ==
  {Query("wallet", 2, TRUE, AnyType), Query("wallet", 1, FALSE, AnyType),
   Query("payment", 2, TRUE, "ISSUANCE")}

MCTargets == 2 :> 2

MCIds == Requests \cup SeedIds
MCHolders == Requests \cup {Seeder}

\* The first request pays with the key; the second is any call.
MCInit == BooksInit /\ call[r1] = Transfer(1, 2, 1, "k")

\* Bound: the seed program runs a second time only where the reader is refused.
MCNext == BooksNext /\ (reader.query.may_read => seed'.run <= 1)

MCSpec == MCInit /\ [][MCNext]_BooksVars
=============================================================================
