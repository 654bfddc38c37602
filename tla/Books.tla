-------------------------------- MODULE Books --------------------------------
(* The database under all who use it: the ledger engine posts, a browser pages *)
(* through a wallet's history and somebody runs the seed program.               *)
EXTENDS WalletReads, Seed

BooksVars == <<vars, readVars, seedVars>>

BooksInit == Init /\ ReadInit /\ SeedInit

BooksNext ==
  \/ Next /\ UNCHANGED <<readVars, seedVars>>
  \/ ReadNext /\ UNCHANGED seedVars
  \/ SeedNext /\ UNCHANGED readVars

BooksSpec == BooksInit /\ [][BooksNext]_BooksVars
=============================================================================
