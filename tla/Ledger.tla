------------------------------- MODULE Ledger -------------------------------
(***************************************************************************)
(* The ledger engine: Transfer and Issue of internal/ledger/service.go over *)
(* the SQL statements of internal/ledger/repository.go.                     *)
(*                                                                          *)
(* Every element of Requests is one call of Transfer or Issue, on its own   *)
(* goroutine; `pc` is the statement it executes next.  All writes between   *)
(* BeginTx and Commit are private to the request (`tx`) and reach the       *)
(* tables in one step, at Commit; a row locked with SELECT ... FOR UPDATE   *)
(* stays locked until then.  The tables are under READ COMMITTED: a         *)
(* statement sees the committed rows and its own transaction's writes.      *)
(*                                                                          *)
(* A statement can fail at any point (a lost connection, a cancelled        *)
(* context, the death of the server): PostgreSQL then rolls back.  The      *)
(* reply to COMMIT can be lost after the commit took effect.                *)
(***************************************************************************)
EXTENDS Integers, Sequences, FiniteSets

CONSTANTS
  Wallets,     \* live wallet rows; integers, ordered like the UUID strings
  Requests,    \* calls of the engine, each on its own goroutine
  Ids,         \* ids of transactions rows, among them those of the calls
  Holders,     \* those whose transactions lock rows, among them the calls
  Calls,       \* the parameters a call may have
  Opening,     \* [Wallets -> balance before the first posting]
  Freezable,   \* wallets an operator may freeze and unfreeze
  PoolSize,    \* connections of the database pool
  Ticks,       \* by how much NOW() may be later at one BEGIN than at the one
               \* before; it has microseconds, and two BEGINs may share one
  MaxBigint,   \* largest value of a BIGINT column
  NoKey,       \* the empty idempotency key (NULL in the table)
  NoWallet,    \* NULL in sender_wallet_id
  Nobody       \* nobody of these

ASSUME ConstantAssumption ==
  /\ Wallets \subseteq Int
  /\ Freezable \subseteq Wallets
  /\ MaxBigint \in Nat
  /\ Ticks \subseteq Nat
  /\ Opening \in [Wallets -> 0..MaxBigint]
  /\ NoWallet \notin Int
  /\ Requests \subseteq Ids
  /\ Requests \subseteq Holders
  /\ Nobody \notin Holders

ASSUME CallsAssumption ==
  \A c \in Calls :
    /\ c.op \in {"Transfer", "Issue"}
    /\ c.amount \in Int
    /\ c.receiver \in Int
    /\ c.op = "Transfer" => c.sender \in Int
    /\ c.op = "Issue" => c.sender = NoWallet /\ c.key = NoKey

VARIABLES
  balance,      \* wallets.balance, as committed
  frozen,       \* wallets.is_frozen
  transactions, \* committed rows of transactions
  entries,      \* committed rows of ledger_entries, per wallet, oldest first
  issuances,    \* committed rows of cbdc_issuance
  lockedBy,     \* who holds the wallet's row lock
  clock,        \* NOW() of the latest BEGIN
  call,         \* the parameters of each request
  pc,           \* the next statement of each request
  tx,           \* the open database transaction of each request
  result        \* what each request returned

tables == <<balance, frozen, transactions, entries, issuances>>
vars == <<balance, frozen, transactions, entries, issuances,
          lockedBy, clock, call, pc, tx, result>>

-----------------------------------------------------------------------------
\* Types of the rows.

KeysUsed == {c.key : c \in Calls} \cup {NoKey}

Transaction ==
  [id: Ids, type: {"TRANSFER", "ISSUANCE"}, status: {"PENDING", "SETTLED"},
   sender: Wallets \cup {NoWallet}, receiver: Wallets,
   amount: Nat \ {0}, key: KeysUsed]

\* created_at DEFAULT NOW() is the time of the transaction's BEGIN.
LedgerEntry ==
  [txn: Ids, entry_type: {"DEBIT", "CREDIT"}, amount: Nat \ {0},
   balance_after: 0..MaxBigint, created_at: Nat]

WalletRow == [balance: 0..MaxBigint, is_frozen: BOOLEAN]

Issuance == [txn: Ids, wallet: Wallets, amount: Nat \ {0}]

\* seen: the wallet rows SELECT ... FOR UPDATE returned;
\* rows, delta, posted, issued: the transaction's uncommitted writes.
Tx ==
  [now: Nat, seen: [Wallets -> WalletRow], rows: SUBSET Transaction,
   delta: [Wallets -> Int], posted: [Wallets -> Seq(LedgerEntry)],
   issued: SUBSET Issuance]

NoTx ==
  [now |-> 0, seen |-> [w \in Wallets |-> [balance |-> 0, is_frozen |-> FALSE]],
   rows |-> {}, delta |-> [w \in Wallets |-> 0],
   posted |-> [w \in Wallets |-> << >>], issued |-> {}]

Result ==
  [outcome: {"none", "ok", "replay", "ErrAmountZero", "ErrSelfTransfer",
             "ErrWalletNotFound", "ErrWalletFrozen", "ErrInsufficientFunds",
             "error"},
   txn: Ids \cup {Nobody}, sender_balance: Int, receiver_balance: Int]

\* The value a Go function returns beside a non-nil error.
Failure(outcome) ==
  [outcome |-> outcome, txn |-> Nobody, sender_balance |-> 0,
   receiver_balance |-> 0]

Init ==
  /\ balance = Opening
  /\ frozen = [w \in Wallets |-> FALSE]
  /\ transactions = {}
  /\ entries = [w \in Wallets |-> << >>]
  /\ issuances = {}
  /\ lockedBy = [w \in Wallets |-> Nobody]
  /\ clock = 0
  /\ call \in [Requests -> Calls]
  /\ pc = [r \in Requests |-> "start"]
  /\ tx = [r \in Requests |-> NoTx]
  /\ result = [r \in Requests |-> Failure("none")]

-----------------------------------------------------------------------------
\* Statements between BEGIN and COMMIT, in the order the code runs them.
InTx == {"lock1", "lock2", "create", "debit", "credit", "settle", "record",
         "commit"}

\* A connection of the pool is free.
ConnectionFree == Cardinality({r \in Requests : pc[r] \in InTx}) < PoolSize

Goto(r, label) == pc' = [pc EXCEPT ![r] = label]

\* Return before any transaction is open.
Return(r, res) ==
  /\ Goto(r, "done")
  /\ result' = [result EXCEPT ![r] = res]
  /\ UNCHANGED <<tables, lockedBy, clock, call, tx>>

\* COMMIT makes every write of the transaction visible at once.
ApplyWrites(r) ==
  /\ balance' = [w \in Wallets |-> balance[w] + tx[r].delta[w]]
  /\ transactions' = transactions \cup tx[r].rows
  /\ entries' = [w \in Wallets |-> entries[w] \o tx[r].posted[w]]
  /\ issuances' = issuances \cup tx[r].issued
  /\ UNCHANGED <<frozen, clock, call>>

\* COMMIT and ROLLBACK both end the transaction and free its row locks.
EndTx(r) ==
  /\ lockedBy' = [w \in Wallets |->
                    IF lockedBy[w] = r THEN Nobody ELSE lockedBy[w]]
  /\ tx' = [tx EXCEPT ![r] = NoTx]
  /\ Goto(r, "done")

\* (wrong) the rollback is forgotten: what was written so far stays.
Rollback_Commits(r, outcome) ==
  /\ EndTx(r)
  /\ ApplyWrites(r)
  /\ result' = [result EXCEPT ![r] = Failure(outcome)]

\* (wrong) the error path leaves the transaction, and its locks, open.
Rollback_KeepsLocks(r, outcome) ==
  /\ Goto(r, "done")
  /\ result' = [result EXCEPT ![r] = Failure(outcome)]
  /\ UNCHANGED <<tables, lockedBy, clock, call, tx>>

\* The deferred tx.Rollback of a request that returns an error.
Rollback(r, outcome) ==
  /\ EndTx(r)
  /\ result' = [result EXCEPT ![r] = Failure(outcome)]
  /\ UNCHANGED <<tables, clock, call>>

\* (wrong) the payer's row first.
orderedLockIDs_SenderFirst(a, b) == <<a, b>>

\* orderedLockIDs: the smaller id first, whichever wallet pays.
orderedLockIDs(a, b) == IF a < b THEN <<a, b>> ELSE <<b, a>>

LockTargets(r) ==
  IF call[r].op = "Issue" THEN <<call[r].receiver>>
  ELSE orderedLockIDs(call[r].sender, call[r].receiver)

-----------------------------------------------------------------------------
\* Input validation, before the database is touched.
Validate(r) ==
  /\ pc[r] = "start"
  /\ \/ call[r].amount <= 0 /\ Return(r, Failure("ErrAmountZero"))
     \/ /\ call[r].amount > 0
        /\ call[r].sender = call[r].receiver
        /\ Return(r, Failure("ErrSelfTransfer"))
     \/ /\ call[r].amount > 0
        /\ call[r].sender # call[r].receiver
        /\ Goto(r, IF call[r].key # NoKey THEN "check" ELSE "begin")
        /\ UNCHANGED <<tables, lockedBy, clock, call, tx, result>>

\* The committed transactions the lookup finds, on a connection of the pool and
\* outside any transaction of the request.
GetTransactionByIdempotencyKey(r) ==
  {t \in transactions : t.sender = call[r].sender /\ t.key = call[r].key}

\* A replay returns the transaction that was found, but no balances.
CheckKey(r) ==
  /\ pc[r] = "check"
  /\ ConnectionFree
  /\ \/ \E t \in GetTransactionByIdempotencyKey(r) :
          Return(r, [outcome |-> "replay", txn |-> t.id,
                     sender_balance |-> 0, receiver_balance |-> 0])
     \/ /\ GetTransactionByIdempotencyKey(r) = {}
        /\ Goto(r, "begin")
        /\ UNCHANGED <<tables, lockedBy, clock, call, tx, result>>

BeginTx(r) ==
  /\ pc[r] = "begin"
  /\ ConnectionFree
  /\ clock' \in {clock + d : d \in Ticks}
  /\ tx' = [tx EXCEPT ![r].now = clock']
  /\ Goto(r, "lock1")
  /\ UNCHANGED <<tables, lockedBy, call, result>>

\* (wrong) a plain SELECT: the row is read but not locked.
GetWalletForUpdate_PlainSelect(r, w, next) ==
  \/ /\ w \notin Wallets
     /\ Rollback(r, "ErrWalletNotFound")
  \/ /\ w \in Wallets
     /\ tx' = [tx EXCEPT ![r].seen[w] =
                 [balance |-> balance[w], is_frozen |-> frozen[w]]]
     /\ Goto(r, next)
     /\ UNCHANGED <<tables, lockedBy, clock, call, result>>

\* SELECT ... FOR UPDATE: waits while another transaction holds the row, then
\* reads it as committed.
GetWalletForUpdate(r, w, next) ==
  \/ /\ w \notin Wallets
     /\ Rollback(r, "ErrWalletNotFound")
  \/ /\ w \in Wallets
     /\ lockedBy[w] = Nobody
     /\ lockedBy' = [lockedBy EXCEPT ![w] = r]
     /\ tx' = [tx EXCEPT ![r].seen[w] =
                 [balance |-> balance[w], is_frozen |-> frozen[w]]]
     /\ Goto(r, next)
     /\ UNCHANGED <<tables, clock, call, result>>

LockFirst(r) ==
  /\ pc[r] = "lock1"
  /\ GetWalletForUpdate(r, LockTargets(r)[1],
                        IF call[r].op = "Issue" THEN "create" ELSE "lock2")

LockSecond(r) ==
  /\ pc[r] = "lock2"
  /\ GetWalletForUpdate(r, LockTargets(r)[2], "create")

\* The rules checked on the rows as they were read under the locks.
AnyFrozen(r) ==
  \/ tx[r].seen[call[r].receiver].is_frozen
  \/ call[r].op = "Transfer" /\ tx[r].seen[call[r].sender].is_frozen

Insufficient(r) ==
  /\ call[r].op = "Transfer"
  /\ tx[r].seen[call[r].sender].balance < call[r].amount

\* (wrong) the table has no unique index.
DuplicateKey_NoIndex(r) == FALSE

\* The unique index on (sender_wallet_id, idempotency_key) refuses the row.  A
\* row with this key that another transaction has yet to commit cannot be met:
\* its transaction still holds the sender's row lock.
DuplicateKey(r) ==
  /\ call[r].key # NoKey
  /\ \E t \in transactions : t.sender = call[r].sender /\ t.key = call[r].key

\* A call inserts at most one transaction: its id is named after the call.
TransactionRow(r, status) ==
  [id |-> r, type |-> IF call[r].op = "Issue" THEN "ISSUANCE" ELSE "TRANSFER",
   status |-> status, sender |-> call[r].sender, receiver |-> call[r].receiver,
   amount |-> call[r].amount, key |-> call[r].key]

\* Business rules, then the INSERT of the PENDING row.
CreateTransaction(r) ==
  /\ pc[r] = "create"
  /\ \/ AnyFrozen(r) /\ Rollback(r, "ErrWalletFrozen")
     \/ /\ ~AnyFrozen(r) /\ Insufficient(r)
        /\ Rollback(r, "ErrInsufficientFunds")
     \/ /\ ~AnyFrozen(r) /\ ~Insufficient(r) /\ DuplicateKey(r)
        /\ Rollback(r, "error")
     \/ /\ ~AnyFrozen(r) /\ ~Insufficient(r) /\ ~DuplicateKey(r)
        /\ tx' = [tx EXCEPT ![r].rows = {TransactionRow(r, "PENDING")}]
        /\ Goto(r, IF call[r].op = "Issue" THEN "credit" ELSE "debit")
        /\ UNCHANGED <<tables, lockedBy, clock, call, result>>

\* (wrong) the balance read under the lock, before the UPDATE.
EntryRow_BalanceBefore(r, w, entryType, after) ==
  [txn |-> r, entry_type |-> entryType, amount |-> call[r].amount,
   balance_after |-> tx[r].seen[w].balance, created_at |-> tx[r].now]

\* CreateLedgerEntry, with the balance that the UPDATE returned.
EntryRow(r, w, entryType, after) ==
  [txn |-> r, entry_type |-> entryType, amount |-> call[r].amount,
   balance_after |-> after, created_at |-> tx[r].now]

\* (wrong) no CHECK constraint, and arithmetic that does not overflow.
BalanceAccepted_Always(b) == TRUE

\* The CHECK constraint and the width of wallets.balance.
BalanceAccepted(b) == b \in 0..MaxBigint

\* UpdateWalletBalance, a relative UPDATE, then its ledger entry.
PostEntry(r, w, entryType, d, next) ==
  LET after == balance[w] + tx[r].delta[w] + d
  IN \/ ~BalanceAccepted(after) /\ Rollback(r, "error")
     \/ /\ BalanceAccepted(after)
        /\ tx' = [tx EXCEPT
             ![r].delta[w] = @ + d,
             ![r].posted[w] = Append(@, EntryRow(r, w, entryType, after))]
        /\ Goto(r, next)
        /\ UNCHANGED <<tables, lockedBy, clock, call, result>>

DebitSender(r) ==
  /\ pc[r] = "debit"
  /\ PostEntry(r, call[r].sender, "DEBIT", -call[r].amount, "credit")

CreditReceiver(r) ==
  /\ pc[r] = "credit"
  /\ PostEntry(r, call[r].receiver, "CREDIT", call[r].amount, "settle")

SettleTransaction(r) ==
  /\ pc[r] = "settle"
  /\ tx' = [tx EXCEPT ![r].rows = {TransactionRow(r, "SETTLED")}]
  /\ Goto(r, IF call[r].op = "Issue" THEN "record" ELSE "commit")
  /\ UNCHANGED <<tables, lockedBy, clock, call, result>>

InsertIssuanceRecord(r) ==
  /\ pc[r] = "record"
  /\ tx' = [tx EXCEPT ![r].issued =
       {[txn |-> r, wallet |-> call[r].receiver, amount |-> call[r].amount]}]
  /\ Goto(r, "commit")
  /\ UNCHANGED <<tables, lockedBy, clock, call, result>>

\* (wrong) the balances of the rows as they were read under the lock.
Success_BalanceBefore(r) ==
  [outcome |-> "ok", txn |-> r,
   sender_balance |-> IF call[r].op = "Issue" THEN 0
                      ELSE tx[r].seen[call[r].sender].balance,
   receiver_balance |-> tx[r].seen[call[r].receiver].balance]

\* The balances RETURNING handed to the request.
Success(r) ==
  [outcome |-> "ok", txn |-> r,
   sender_balance |-> IF call[r].op = "Issue" THEN 0
                      ELSE tx[r].posted[call[r].sender][1].balance_after,
   receiver_balance |-> tx[r].posted[call[r].receiver][1].balance_after]

Commit(r) ==
  /\ pc[r] = "commit"
  /\ ApplyWrites(r)
  /\ EndTx(r)
  /\ result' = [result EXCEPT ![r] = Success(r)]

\* The commit took effect but its acknowledgement never arrived: the caller is
\* told "commit transfer: ..." all the same.
CommitUnacknowledged(r) ==
  /\ pc[r] = "commit"
  /\ ApplyWrites(r)
  /\ EndTx(r)
  /\ result' = [result EXCEPT ![r] = Failure("error")]

\* Any statement may fail; whatever the transaction wrote is rolled back.
Fail(r) ==
  /\ pc[r] \in InTx \cup {"check", "begin"}
  /\ Rollback(r, "error")

\* An operator's UPDATE wallets SET is_frozen needs the row lock like any other.
SetFrozen(w) ==
  /\ lockedBy[w] = Nobody
  /\ frozen' = [frozen EXCEPT ![w] = ~@]
  /\ UNCHANGED <<balance, transactions, entries, issuances, lockedBy, clock,
                 call, pc, tx, result>>

\* The steps of a request that meets no failure.
Advance(r) ==
  \/ Validate(r) \/ CheckKey(r) \/ BeginTx(r) \/ LockFirst(r) \/ LockSecond(r)
  \/ CreateTransaction(r) \/ DebitSender(r) \/ CreditReceiver(r)
  \/ SettleTransaction(r) \/ InsertIssuanceRecord(r) \/ Commit(r)

Finished == \A r \in Requests : pc[r] = "done"

Next ==
  \/ \E r \in Requests : Advance(r) \/ CommitUnacknowledged(r) \/ Fail(r)
  \/ \E w \in Freezable : SetFrozen(w)

Spec == Init /\ [][Next]_vars

\* PostgreSQL answers every statement, grants a free row lock and the pool
\* hands out a free connection: no request is ignored for ever.
FairSpec == Spec /\ \A r \in Requests : WF_vars(Advance(r))

-----------------------------------------------------------------------------
\* The shape of the rows, and the bounds the column types and CHECKs put on them:
\* no balance leaves 0..MaxBigint.
TypeOK ==
  /\ balance \in [Wallets -> 0..MaxBigint]
  /\ frozen \in [Wallets -> BOOLEAN]
  /\ transactions \subseteq Transaction
  /\ entries \in [Wallets -> Seq(LedgerEntry)]
  /\ issuances \subseteq Issuance
  /\ lockedBy \in [Wallets -> Holders \cup {Nobody}]
  /\ clock \in Nat
  /\ call \in [Requests -> Calls]
  /\ pc \in [Requests -> InTx \cup {"start", "check", "begin", "done"}]
  /\ tx \in [Requests -> Tx]
  /\ result \in [Requests -> Result]

\* The balance a wallet had before its i-th ledger entry.
BalanceBefore(w, i) ==
  IF i = 1 THEN Opening[w] ELSE entries[w][i - 1].balance_after

SignedAmount(e) == IF e.entry_type = "DEBIT" THEN -e.amount ELSE e.amount

\* "wallet.balance is a cached copy of this sum" (000006_create_ledger_entries):
\* in commit order the entries of a wallet form an unbroken chain from the
\* opening balance to wallets.balance, however transfers interleave, fail or
\* lose their acknowledgement.  A lost update or an entry that records a
\* balance another transfer has since changed would break the chain.
EntryChain ==
  \A w \in Wallets :
    /\ \A i \in 1..Len(entries[w]) :
         entries[w][i].balance_after =
           BalanceBefore(w, i) + SignedAmount(entries[w][i])
    /\ balance[w] = BalanceBefore(w, Len(entries[w]) + 1)

\* Entry e of wallet w is the debit or the credit of transaction t.
IsLegOf(w, e, t) ==
  /\ e.txn = t.id
  /\ e.amount = t.amount
  /\ \/ e.entry_type = "DEBIT" /\ w = t.sender
     \/ e.entry_type = "CREDIT" /\ w = t.receiver

\* A wallet's entries hold a leg of transaction t.
Posted(w, t) == \E i \in 1..Len(entries[w]) : IsLegOf(w, entries[w][i], t)

\* Double entry ("Every DEBIT has a matching CREDIT", ledger/service.go): each
\* committed transaction is SETTLED and has its credit and, unless it is an
\* issuance, its debit; each entry is a leg of a committed transaction; no
\* wallet carries two entries of one transaction; and the cbdc_issuance rows
\* are those of the ISSUANCE transactions.  No failure leaves a half-posting.
DoubleEntry ==
  /\ \A t \in transactions :
       /\ t.status = "SETTLED"
       /\ Posted(t.receiver, t)
       /\ t.type = "TRANSFER" => Posted(t.sender, t)
       /\ t.type = "ISSUANCE" =>
            [txn |-> t.id, wallet |-> t.receiver, amount |-> t.amount]
              \in issuances
  /\ \A w \in Wallets : \A i \in 1..Len(entries[w]) :
       \E t \in transactions : IsLegOf(w, entries[w][i], t)
  /\ \A w \in Wallets : \A i, j \in 1..Len(entries[w]) :
       entries[w][i].txn = entries[w][j].txn => i = j
  /\ \A x \in issuances : \E t \in transactions :
       t.id = x.txn /\ t.type = "ISSUANCE"

\* Two requests with one idempotency key race past the check in CheckKey; still
\* at most one of them moves money (transactions_idempotency_unique).
OncePerKey ==
  \A t, u \in transactions :
    (t.key # NoKey /\ t.key = u.key /\ t.sender = u.sender) => t = u

Refusals == {"ErrAmountZero", "ErrSelfTransfer", "ErrWalletNotFound",
             "ErrWalletFrozen", "ErrInsufficientFunds"}

\* Transaction id left wallet w at balance b.
RecordedAfter(w, id, b) ==
  \E i \in 1..Len(entries[w]) :
    entries[w][i].txn = id /\ entries[w][i].balance_after = b

\* What a request is told is what happened: "ok" only with its transaction
\* committed and its balances those of the ledger entries, a replay only of a
\* committed transaction of the same sender and key, and a business refusal
\* only when nothing was posted.  (After "error" either may be the case.)
OutcomeTruthful ==
  \A r \in Requests :
    /\ result[r].outcome = "ok" =>
         \E t \in transactions :
           /\ t.id = r
           /\ RecordedAfter(t.receiver, r, result[r].receiver_balance)
           /\ t.type = "TRANSFER" =>
                RecordedAfter(t.sender, r, result[r].sender_balance)
    /\ result[r].outcome = "replay" =>
         \E t \in transactions :
           /\ t.id = result[r].txn
           /\ t.sender = call[r].sender /\ t.key = call[r].key
    /\ result[r].outcome \in Refusals => \A t \in transactions : t.id # r

\* A request that still waits for a lock holds only locks on smaller ids, so
\* lock waits cannot form a cycle (the comment above orderedLockIDs).
LockOrder ==
  \A r \in Requests : \A w \in Wallets :
    lockedBy[w] = r =>
      /\ pc[r] \in InTx \ {"lock1"}
      /\ pc[r] = "lock2" => w < LockTargets(r)[2]

\* The wallets whose rows request r has read for update.
RowsRead(r) ==
  IF pc[r] = "lock2" THEN {LockTargets(r)[1]}
  ELSE IF pc[r] \in InTx \ {"lock1", "lock2"}
    THEN {call[r].receiver}
         \cup (IF call[r].op = "Issue" THEN {} ELSE {call[r].sender})
    ELSE {}

\* The rows a transaction validated are still the committed ones when it writes:
\* SELECT ... FOR UPDATE leaves no window between check and use.
SeenIsCurrent ==
  \A r \in Requests : \A w \in RowsRead(r) :
    tx[r].seen[w] = [balance |-> balance[w], is_frozen |-> frozen[w]]

\* A frozen wallet neither pays nor receives ("blocks all sends and receives",
\* ledger/models.go), even when it is frozen while a transfer is in flight.
FrozenUntouched ==
  [][\A w \in Wallets : frozen[w] => balance'[w] = balance[w]]_vars

\* Every request is answered: no lock, pool or key makes one wait for ever.
EveryRequestAnswered == \A r \in Requests : <>(pc[r] = "done")

\* The engine implements the ledger of indivisible postings: each step of a
\* request changes the committed tables not at all or by one whole posting
\* that is valid at that very moment.
Abs == INSTANCE AbstractLedger WITH
         Ids <- Requests, Keys <- KeysUsed,
         Amounts <- {c.amount : c \in Calls}

Postings == Abs!AbsSpec

=============================================================================
