-------------------------------- MODULE Seed --------------------------------
(***************************************************************************)
(* cmd/seed beside the running server: seedBalance for one wallet after the *)
(* other, in the random order of a Go map, on a pool of its own.            *)
(*                                                                          *)
(* The balance is read outside the transaction.  The transaction's first    *)
(* INSERT makes PostgreSQL lock the wallet row FOR KEY SHARE (the foreign   *)
(* key), which waits for a transfer's FOR UPDATE and keeps later ones out;  *)
(* so the row counts as locked by the program from there to the commit, but *)
(* what was read before may be old by then.                                 *)
(*                                                                          *)
(* Any error ends the program; it can be run again (its bound is MaxRuns).  *)
(***************************************************************************)
EXTENDS Ledger

CONSTANTS
  Targets,   \* [wallets of the demo users -> balance they shall have]
  MaxRuns,   \* bound: how often the program is run
  Seeder     \* the program's transaction, as a holder of row locks

\* A run inserts at most one transaction for a wallet: its id is named after both.
SeedIds == (1..MaxRuns) \X Wallets

ASSUME TargetsAssumption ==
  /\ DOMAIN Targets \subseteq Wallets
  /\ \A w \in DOMAIN Targets : Targets[w] \in 0..MaxBigint
  /\ MaxRuns \in Nat
  /\ SeedIds \subseteq Ids \ Requests
  /\ Seeder \in Holders \ Requests

VARIABLES
  seed,      \* the program: its next statement, its run, the wallets to do
  overtaken  \* history: a wallet's balance was no longer the one read when its
             \* row was locked

seedVars == <<seed, overtaken>>

-----------------------------------------------------------------------------
NotRunning ==
  [pc |-> "exited", run |-> 0, todo |-> {}, wallet |-> NoWallet,
   current |-> 0, now |-> 0]

SeedInit == seed = NotRunning /\ overtaken = FALSE

Exited(run) == [NotRunning EXCEPT !.run = run]

\* Users, wallets and merchants are there: their upserts change no balance.
SeedStart ==
  /\ seed.pc = "exited" /\ seed.run < MaxRuns
  /\ seed' = [seed EXCEPT !.pc = "next", !.run = @ + 1,
                          !.todo = {w \in DOMAIN Targets : Targets[w] # 0}]
  /\ UNCHANGED <<vars, overtaken>>

\* SELECT balance, without a lock; nothing to do for a wallet that has enough.
SeedRead(w) ==
  /\ seed.pc = "next" /\ w \in seed.todo
  /\ seed' = IF balance[w] >= Targets[w]
             THEN [seed EXCEPT !.todo = @ \ {w}]
             ELSE [seed EXCEPT !.pc = "begin", !.wallet = w,
                               !.current = balance[w]]
  /\ UNCHANGED <<vars, overtaken>>

SeedBegin ==
  /\ seed.pc = "begin"
  /\ clock' \in {clock + d : d \in Ticks}
  /\ seed' = [seed EXCEPT !.pc = "insert", !.now = clock']
  /\ UNCHANGED <<tables, lockedBy, call, pc, tx, result, overtaken>>

SeedInsert ==
  /\ seed.pc = "insert"
  /\ lockedBy[seed.wallet] = Nobody
  /\ lockedBy' = [lockedBy EXCEPT ![seed.wallet] = Seeder]
  /\ overtaken' = (overtaken \/ balance[seed.wallet] # seed.current)
  /\ seed' = [seed EXCEPT !.pc = "commit"]
  /\ UNCHANGED <<tables, clock, call, pc, tx, result>>

issueCents == Targets[seed.wallet] - seed.current

SeedId == <<seed.run, seed.wallet>>

\* (wrong) the amount of the entry is the balance aimed at.
SeedEntry_Target ==
  [txn |-> SeedId, entry_type |-> "CREDIT", amount |-> Targets[seed.wallet],
   balance_after |-> seed.current + issueCents, created_at |-> seed.now]

SeedEntry ==
  [txn |-> SeedId, entry_type |-> "CREDIT", amount |-> issueCents,
   balance_after |-> seed.current + issueCents, created_at |-> seed.now]

SeedTransaction ==
  [id |-> SeedId, type |-> "ISSUANCE", status |-> "SETTLED", sender |-> NoWallet,
   receiver |-> seed.wallet, amount |-> issueCents, key |-> NoKey]

Unlocked == [w \in Wallets |-> IF lockedBy[w] = Seeder THEN Nobody ELSE lockedBy[w]]

\* The entry, the absolute balance and the issuance record are written under the
\* lock and become visible together.  If the acknowledgement is lost the
\* program exits, as on any error.
SeedCommit ==
  /\ seed.pc = "commit"
  /\ transactions' = transactions \cup {SeedTransaction}
  /\ entries' = [entries EXCEPT ![seed.wallet] = Append(@, SeedEntry)]
  /\ balance' = [balance EXCEPT ![seed.wallet] = seed.current + issueCents]
  /\ issuances' = issuances \cup
       {[txn |-> SeedId, wallet |-> seed.wallet, amount |-> issueCents]}
  /\ lockedBy' = Unlocked
  /\ \/ seed' = [seed EXCEPT !.pc = "next", !.todo = @ \ {seed.wallet}]
     \/ seed' = Exited(seed.run)
  /\ UNCHANGED <<frozen, clock, call, pc, tx, result, overtaken>>

SeedDone ==
  /\ seed.pc = "next" /\ seed.todo = {}
  /\ seed' = Exited(seed.run)
  /\ UNCHANGED <<vars, overtaken>>

\* Any error: rolled back, os.Exit(1).
SeedFails ==
  /\ seed.pc # "exited"
  /\ seed' = Exited(seed.run)
  /\ lockedBy' = Unlocked
  /\ UNCHANGED <<tables, clock, call, pc, tx, result, overtaken>>

SeedAdvance ==
  \/ \E w \in DOMAIN Targets : SeedRead(w)
  \/ SeedBegin \/ SeedInsert \/ SeedCommit \/ SeedDone

SeedNext == SeedStart \/ SeedAdvance \/ SeedFails

-----------------------------------------------------------------------------
\* "Set balances directly via ledger entries so the bookkeeping is correct"
\* (cmd/seed/main.go): beside a live server, killed and run again, the program
\* leaves no half-posting, and every wallet's entries still add up to its
\* balance.  The one exception is the program's lost update: a posting that
\* committed between its SELECT and its first INSERT is overwritten by the
\* absolute balance.
SeedKeepsBooks == DoubleEntry /\ (overtaken \/ EntryChain)
=============================================================================
