---------------------------- MODULE LedgerProofs ----------------------------
(***************************************************************************)
(* Proofs about Ledger, for any wallets, requests, calls, opening balances  *)
(* and pool size, and then about Books: the engine whose tables the seed     *)
(* program writes to and a browser reads.                                    *)
(***************************************************************************)
EXTENDS Books, FiniteSetTheorems, SequenceTheorems, TLAPS

\* How far the private writes of request r have got.
Inserted(r) == pc[r] \in {"debit", "credit", "settle", "record", "commit"}
DebitDone(r) == call[r].op = "Transfer" /\ pc[r] \in {"credit", "settle", "commit"}
CreditDone(r) == pc[r] \in {"settle", "record", "commit"}
RowStatus(r) == IF pc[r] \in {"record", "commit"} THEN "SETTLED" ELSE "PENDING"

\* The change request r has made to the balance of wallet w, uncommitted.
Change(r, w) ==
  IF DebitDone(r) /\ w = call[r].sender THEN -call[r].amount
  ELSE IF CreditDone(r) /\ w = call[r].receiver THEN call[r].amount ELSE 0

Posting(r, w, entryType) ==
  EntryRow(r, w, entryType, balance[w] + Change(r, w))

\* A request past validation has a well-formed call, and its program counter
\* only visits the statements of its operation.
CallShape(r) ==
  /\ pc[r] \notin {"start", "done"} =>
       call[r].amount > 0 /\ call[r].sender # call[r].receiver
  /\ pc[r] \in {"lock2", "debit"} => call[r].op = "Transfer"
  /\ pc[r] = "record" => call[r].op = "Issue"

\* A request holds the locks of exactly the rows it has read, and those rows
\* have not changed since.
LockShape(r) ==
  /\ RowsRead(r) \subseteq Wallets
  /\ \A w \in Wallets : lockedBy[w] = r <=> w \in RowsRead(r)
  /\ \A w \in RowsRead(r) :
       tx[r].seen[w] = [balance |-> balance[w], is_frozen |-> frozen[w]]
  /\ Inserted(r) => ~AnyFrozen(r) /\ ~DuplicateKey(r)

\* The private writes are those the statements executed so far make.
WriteShape(r) ==
  /\ tx[r].rows = IF Inserted(r) THEN {TransactionRow(r, RowStatus(r))} ELSE {}
  /\ tx[r].issued =
       IF call[r].op = "Issue" /\ pc[r] = "commit"
       THEN {[txn |-> r, wallet |-> call[r].receiver, amount |-> call[r].amount]}
       ELSE {}
  /\ \A w \in Wallets :
       /\ tx[r].delta[w] = Change(r, w)
       /\ tx[r].posted[w] =
            IF DebitDone(r) /\ w = call[r].sender
              THEN <<Posting(r, w, "DEBIT")>>
            ELSE IF CreditDone(r) /\ w = call[r].receiver
              THEN <<Posting(r, w, "CREDIT")>>
            ELSE << >>
       /\ balance[w] + Change(r, w) \in 0..MaxBigint

TxShape(r) ==
  /\ pc[r] \notin InTx => tx[r] = NoTx
  /\ CallShape(r)
  /\ LockShape(r)
  /\ WriteShape(r)

\* The core of the inductive invariant.
Core == TypeOK /\ \A r \in Requests : TxShape(r)

-----------------------------------------------------------------------------
\* The empty transaction is a transaction (BeginTx starts from it).
LEMMA NoTxType == NoTx \in Tx
  <1>1. 0 \in 0..MaxBigint
    BY ConstantAssumption
  <1>2. [balance |-> 0, is_frozen |-> FALSE] \in WalletRow
    BY <1>1 DEF WalletRow
  <1>3. << >> \in Seq(LedgerEntry)
    OBVIOUS
  <1> QED
    BY <1>2, <1>3 DEF NoTx, Tx

\* Appending one entry to a wallet's entries keeps the others and adds it last.
LEMMA AppendOne ==
  ASSUME NEW S, NEW s \in Seq(S), NEW e \in S
  PROVE  /\ s \o <<e>> \in Seq(S)
         /\ Len(s \o <<e>>) = Len(s) + 1
         /\ \A i \in 1..Len(s) : (s \o <<e>>)[i] = s[i]
         /\ (s \o <<e>>)[Len(s) + 1] = e
  OBVIOUS

\* The initial state: no transaction is open and no lock is held.
LEMMA CoreInit == Init => Core
  <1> SUFFICES ASSUME Init PROVE Core
    OBVIOUS
  <1>1. TypeOK
    BY NoTxType, ConstantAssumption DEF Init, TypeOK, Result, Failure, InTx
  <1>2. ASSUME NEW r \in Requests PROVE TxShape(r)
    <2>1. RowsRead(r) = {}
      BY DEF RowsRead, Init, InTx
    <2>2. LockShape(r)
      BY <2>1, ConstantAssumption DEF LockShape, Init, Inserted
    <2>3. WriteShape(r)
      BY ConstantAssumption DEF WriteShape, Init, Inserted, Change, DebitDone, CreditDone, NoTx
    <2> QED
      BY <2>2, <2>3 DEF TxShape, CallShape, Init
  <1> QED
    BY <1>1, <1>2 DEF Core

\* What one request does leaves the shape of another alone: it keeps its own
\* variables, its locks, the rows it has locked and the freedom of its key.
LEMMA Frame ==
  ASSUME NEW q \in Requests, TypeOK, TxShape(q),
         tx'[q] = tx[q], pc'[q] = pc[q], call'[q] = call[q],
         \A w \in Wallets : lockedBy'[w] = q <=> lockedBy[w] = q,
         \A w \in Wallets : lockedBy[w] = q =>
           balance'[w] = balance[w] /\ frozen'[w] = frozen[w],
         \A w \in Wallets : balance'[w] \in 0..MaxBigint,
         Inserted(q) /\ ~DuplicateKey(q) => ~DuplicateKey(q)'
  PROVE  TxShape(q)'
  <1>1. RowsRead(q)' = RowsRead(q) /\ RowsRead(q) \subseteq Wallets
    BY DEF RowsRead, LockTargets, TxShape, LockShape
  <1>2. \A w \in RowsRead(q) : balance'[w] = balance[w] /\ frozen'[w] = frozen[w]
    BY <1>1 DEF TxShape, LockShape
  <1>3. LockShape(q)'
    <2>1. AnyFrozen(q)' = AnyFrozen(q) /\ Inserted(q)' = Inserted(q)
      BY DEF AnyFrozen, Inserted
    <2> QED
      BY <1>1, <1>2, <2>1 DEF TxShape, LockShape
  <1>4. WriteShape(q)'
    <2>1. ASSUME NEW w \in Wallets
          PROVE  Change(q, w)' = Change(q, w)
      BY DEF Change, DebitDone, CreditDone
    <2>2. ASSUME NEW w \in Wallets, w \notin RowsRead(q) PROVE Change(q, w) = 0
      BY <2>2 DEF Change, DebitDone, CreditDone, RowsRead, InTx, TxShape, CallShape
    <2>3. ASSUME NEW w \in Wallets
          PROVE  balance'[w] + Change(q, w) \in 0..MaxBigint
      <3>1. balance[w] + Change(q, w) \in 0..MaxBigint
        BY DEF TxShape, WriteShape
      <3>2. CASE w \in RowsRead(q)
        BY <1>2, <3>1, <3>2
      <3>3. CASE w \notin RowsRead(q)
        BY <2>2, <3>3, ConstantAssumption
      <3> QED
        BY <3>2, <3>3
    <2>4. DebitDone(q)' = DebitDone(q) /\ CreditDone(q)' = CreditDone(q)
      BY DEF DebitDone, CreditDone
    <2>5. ASSUME NEW w \in Wallets, NEW k,
                 \/ DebitDone(q) /\ w = call[q].sender
                 \/ CreditDone(q) /\ w = call[q].receiver
          PROVE  Posting(q, w, k)' = Posting(q, w, k)
      <3>1. w \in RowsRead(q)
        BY <2>5 DEF DebitDone, CreditDone, RowsRead, InTx, TxShape, CallShape
      <3> QED
        BY <3>1, <1>2, <2>1 DEF Posting, EntryRow
    <2>6. TransactionRow(q, RowStatus(q))' = TransactionRow(q, RowStatus(q))
          /\ Inserted(q)' = Inserted(q)
      BY DEF TransactionRow, RowStatus, Inserted
    <2>7. tx[q].rows' = (IF Inserted(q)' THEN {TransactionRow(q, RowStatus(q))'}
                         ELSE {})
      BY <2>6 DEF TxShape, WriteShape
    <2>8. ASSUME NEW w \in Wallets
          PROVE  (tx[q].posted)'[w] =
                   IF DebitDone(q)' /\ w = call'[q].sender
                     THEN <<Posting(q, w, "DEBIT")'>>
                   ELSE IF CreditDone(q)' /\ w = call'[q].receiver
                     THEN <<Posting(q, w, "CREDIT")'>>
                   ELSE << >>
      <3>1. tx'[q].posted = tx[q].posted /\ call'[q] = call[q]
        OBVIOUS
      <3>2. tx[q].posted[w] =
              IF DebitDone(q) /\ w = call[q].sender
                THEN <<Posting(q, w, "DEBIT")>>
              ELSE IF CreditDone(q) /\ w = call[q].receiver
                THEN <<Posting(q, w, "CREDIT")>>
              ELSE << >>
        BY DEF TxShape, WriteShape
      <3>3. CASE DebitDone(q) /\ w = call[q].sender
        <4>1. Posting(q, w, "DEBIT")' = Posting(q, w, "DEBIT")
          BY <2>5, <3>3
        <4> QED
          BY <3>1, <3>2, <3>3, <4>1, <2>4
      <3>4. CASE ~(DebitDone(q) /\ w = call[q].sender)
                 /\ CreditDone(q) /\ w = call[q].receiver
        <4>1. Posting(q, w, "CREDIT")' = Posting(q, w, "CREDIT")
          BY <2>5, <3>4
        <4> QED
          BY <3>1, <3>2, <3>4, <4>1, <2>4
      <3> QED
        BY <3>1, <3>2, <3>3, <3>4, <2>4
    <2>9. \A w \in Wallets : (tx[q].delta)'[w] = Change(q, w)'
      BY <2>1 DEF TxShape, WriteShape
    <2> QED
      BY <2>1, <2>3, <2>7, <2>8, <2>9 DEF TxShape, WriteShape
  <1> QED
    BY <1>3, <1>4 DEF TxShape, CallShape

\* A step of request r that leaves the tables it reads alone need only be
\* examined for r itself.
LEMMA OwnStep ==
  ASSUME Core, NEW r \in Requests,
         UNCHANGED <<balance, frozen, transactions, call>>,
         \A q \in Requests \ {r} : tx'[q] = tx[q] /\ pc'[q] = pc[q],
         \A w \in Wallets : \A q \in Requests \ {r} :
           lockedBy'[w] = q <=> lockedBy[w] = q,
         TypeOK', TxShape(r)'
  PROVE  Core'
  <1>1. ASSUME NEW q \in Requests, q # r PROVE TxShape(q)'
    <2>1. Inserted(q) /\ ~DuplicateKey(q) => ~DuplicateKey(q)'
      BY DEF DuplicateKey
    <2>2. \A w \in Wallets : balance'[w] \in 0..MaxBigint
      BY DEF Core, TypeOK
    <2> QED
      BY <1>1, <2>1, <2>2, Frame DEF Core
  <1> QED
    BY <1>1 DEF Core

\* Ending a transaction without applying its writes.
LEMMA RollbackCore ==
  ASSUME Core, NEW r \in Requests, NEW o, Failure(o) \in Result,
         Rollback(r, o)
  PROVE  Core'
  <1>1. /\ pc' = [pc EXCEPT ![r] = "done"]
        /\ tx' = [tx EXCEPT ![r] = NoTx]
        /\ result' = [result EXCEPT ![r] = Failure(o)]
        /\ lockedBy' = [w \in Wallets |->
                          IF lockedBy[w] = r THEN Nobody ELSE lockedBy[w]]
        /\ UNCHANGED <<balance, frozen, transactions, entries, issuances, clock, call>>
    BY DEF Rollback, EndTx, Goto, tables
  <1>2. TypeOK'
    BY <1>1, NoTxType DEF Core, TypeOK
  <1>3. TxShape(r)'
    <2>1. pc'[r] = "done" /\ tx'[r] = NoTx
      BY <1>1 DEF Core, TypeOK
    <2>2. RowsRead(r)' = {}
      BY <2>1 DEF RowsRead, InTx
    <2>3. LockShape(r)'
      BY <1>1, <2>1, <2>2, ConstantAssumption DEF LockShape, Inserted
    <2>4. WriteShape(r)'
      BY <1>2, <2>1 DEF WriteShape, NoTx, Inserted, DebitDone, CreditDone, Change, TypeOK
    <2> QED
      BY <2>1, <2>3, <2>4 DEF TxShape, CallShape
  <1>4. ASSUME NEW q \in Requests \ {r}
        PROVE  /\ tx'[q] = tx[q] /\ pc'[q] = pc[q]
               /\ \A w \in Wallets : lockedBy'[w] = q <=> lockedBy[w] = q
    BY <1>1, ConstantAssumption DEF Core, TypeOK
  <1> QED
    BY <1>1, <1>2, <1>3, <1>4, OwnStep

\* Returning before a transaction is open.
LEMMA ReturnCore ==
  ASSUME Core, NEW r \in Requests, pc[r] \in {"start", "check"},
         NEW res \in Result, Return(r, res)
  PROVE  Core'
  <1>1. /\ pc' = [pc EXCEPT ![r] = "done"]
        /\ result' = [result EXCEPT ![r] = res]
        /\ UNCHANGED <<balance, frozen, transactions, entries, issuances,
                       lockedBy, clock, call, tx>>
    BY DEF Return, Goto, tables
  <1>2. TypeOK'
    BY <1>1 DEF Core, TypeOK
  <1>3. TxShape(r)'
    <2>1. pc'[r] = "done" /\ tx'[r] = NoTx
      BY <1>1 DEF Core, TypeOK, TxShape, InTx
    <2>2. RowsRead(r)' = {} /\ RowsRead(r) = {}
      BY <2>1 DEF RowsRead, InTx
    <2>3. LockShape(r)'
      BY <1>1, <2>1, <2>2 DEF Core, TxShape, LockShape, Inserted
    <2>4. WriteShape(r)'
      BY <1>2, <2>1 DEF WriteShape, NoTx, Inserted, DebitDone, CreditDone, Change, TypeOK
    <2> QED
      BY <2>1, <2>3, <2>4 DEF TxShape, CallShape
  <1> QED
    BY <1>1, <1>2, <1>3, OwnStep DEF Core, TypeOK

\* The outcomes a request can be refused with are results.
LEMMA FailureType ==
  ASSUME NEW o \in {"none", "ErrAmountZero", "ErrSelfTransfer",
                    "ErrWalletNotFound", "ErrWalletFrozen",
                    "ErrInsufficientFunds", "error"}
  PROVE  Failure(o) \in Result
  BY DEF Failure, Result

\* Moving on before a transaction is open.
LEMMA MoveOnCore ==
  ASSUME Core, NEW r \in Requests, pc[r] \in {"start", "check"},
         NEW p \in {"check", "begin"}, pc' = [pc EXCEPT ![r] = p],
         call[r].amount > 0, call[r].sender # call[r].receiver,
         UNCHANGED <<balance, frozen, transactions, entries, issuances,
                     lockedBy, clock, call, tx, result>>
  PROVE  Core'
  <1>1. TypeOK'
    BY DEF Core, TypeOK
  <1>2. TxShape(r)'
    <2>1. pc'[r] = p /\ tx'[r] = NoTx
      BY DEF Core, TypeOK, TxShape, InTx
    <2>2. RowsRead(r)' = {} /\ RowsRead(r) = {}
      BY <2>1 DEF RowsRead, InTx
    <2>3. LockShape(r)'
      BY <2>1, <2>2 DEF Core, TxShape, LockShape, Inserted
    <2>4. WriteShape(r)'
      BY <1>1, <2>1 DEF WriteShape, NoTx, Inserted, DebitDone, CreditDone, Change, TypeOK
    <2> QED
      BY <2>1, <2>3, <2>4 DEF TxShape, CallShape
  <1> QED
    BY <1>1, <1>2, OwnStep DEF Core, TypeOK

LEMMA ValidateCore ==
  ASSUME Core, NEW r \in Requests, Validate(r) PROVE Core'
  <1>1. pc[r] = "start"
    BY DEF Validate
  <1>2. CASE Return(r, Failure("ErrAmountZero")) \/ Return(r, Failure("ErrSelfTransfer"))
    BY <1>1, <1>2, FailureType, ReturnCore
  <1>3. CASE /\ call[r].amount > 0
             /\ call[r].sender # call[r].receiver
             /\ Goto(r, IF call[r].key # NoKey THEN "check" ELSE "begin")
             /\ UNCHANGED <<tables, lockedBy, clock, call, tx, result>>
    BY <1>1, <1>3, MoveOnCore DEF Goto, tables
  <1> QED
    BY <1>2, <1>3 DEF Validate

LEMMA CheckKeyCore ==
  ASSUME Core, NEW r \in Requests, CheckKey(r) PROVE Core'
  <1>1. pc[r] = "check"
    BY DEF CheckKey
  <1>2. ASSUME NEW t \in GetTransactionByIdempotencyKey(r),
               Return(r, [outcome |-> "replay", txn |-> t.id,
                          sender_balance |-> 0, receiver_balance |-> 0])
        PROVE  Core'
    <2>1. t.id \in Ids
      BY DEF Core, TypeOK, GetTransactionByIdempotencyKey, Transaction
    <2> QED
      BY <1>1, <1>2, <2>1, ReturnCore DEF Result
  <1>3. CASE /\ Goto(r, "begin")
             /\ UNCHANGED <<tables, lockedBy, clock, call, tx, result>>
    <2>1. call[r].amount > 0 /\ call[r].sender # call[r].receiver
      BY <1>1 DEF Core, TxShape, CallShape
    <2> QED
      BY <1>1, <1>3, <2>1, MoveOnCore DEF Goto, tables
  <1> QED
    BY <1>2, <1>3 DEF CheckKey

LEMMA FailCore ==
  ASSUME Core, NEW r \in Requests, Fail(r) PROVE Core'
  BY RollbackCore, FailureType DEF Fail

LEMMA BeginTxCore ==
  ASSUME Core, NEW r \in Requests, BeginTx(r) PROVE Core'
  <1>1. /\ pc[r] = "begin"
        /\ pc' = [pc EXCEPT ![r] = "lock1"]
        /\ \E d \in Ticks : clock' = clock + d
        /\ tx' = [tx EXCEPT ![r] = [tx[r] EXCEPT !.now = clock']]
        /\ UNCHANGED <<balance, frozen, transactions, entries, issuances,
                       lockedBy, call, result>>
    BY DEF BeginTx, Goto, tables, Core, TypeOK
  <1>2. tx[r] = NoTx /\ tx'[r] = [NoTx EXCEPT !.now = clock']
        /\ pc'[r] = "lock1"
    BY <1>1 DEF Core, TypeOK, TxShape, InTx
  <1>3. TypeOK'
    <2>1. clock' \in Nat
      BY <1>1, ConstantAssumption DEF Core, TypeOK
    <2>2. [NoTx EXCEPT !.now = clock'] \in Tx
      BY <1>1, <2>1, NoTxType DEF Tx
    <2> QED
      BY <1>1, <1>2, <2>1, <2>2 DEF Core, TypeOK, InTx
  <1>4. TxShape(r)'
    <2>1. RowsRead(r)' = {} /\ RowsRead(r) = {}
      BY <1>1, <1>2 DEF RowsRead, InTx
    <2>2. LockShape(r)'
      BY <1>1, <1>2, <2>1 DEF Core, TxShape, LockShape, Inserted
    <2>3. WriteShape(r)'
      BY <1>2, <1>3 DEF WriteShape, NoTx, Inserted, DebitDone, CreditDone, Change, TypeOK
    <2> QED
      BY <1>1, <1>2, <2>2, <2>3 DEF TxShape, CallShape, InTx, Core
  <1> QED
    BY <1>1, <1>3, <1>4, OwnStep DEF Core, TypeOK

\* orderedLockIDs names both wallets of a transfer, the smaller id first.
LEMMA OrderedLockIDs ==
  ASSUME NEW a \in Int, NEW b \in Int, a # b
  PROVE  LET o == orderedLockIDs(a, b)
         IN o[1] < o[2] /\ {o[1], o[2]} = {a, b}
  BY DEF orderedLockIDs

LEMMA LockTargetsType ==
  ASSUME TypeOK, NEW r \in Requests, call[r].sender # call[r].receiver
  PROVE  /\ call[r].op = "Issue" => LockTargets(r)[1] = call[r].receiver
         /\ call[r].op = "Transfer" =>
              /\ LockTargets(r)[1] < LockTargets(r)[2]
              /\ {LockTargets(r)[1], LockTargets(r)[2]} =
                   {call[r].sender, call[r].receiver}
  <1>1. call[r].op \in {"Transfer", "Issue"}
        /\ call[r].receiver \in Int
        /\ (call[r].op = "Transfer" => call[r].sender \in Int)
    BY CallsAssumption DEF TypeOK
  <1>2. CASE call[r].op = "Issue"
    BY <1>2 DEF LockTargets
  <1>3. CASE call[r].op = "Transfer"
    BY <1>1, <1>3, OrderedLockIDs DEF LockTargets
  <1> QED
    BY <1>1, <1>2, <1>3

\* Writing to one part of a transaction keeps its other parts and its type.
LEMMA TxSeen ==
  ASSUME tx \in [Requests -> Tx], NEW r \in Requests,
         NEW w \in Wallets, NEW row \in WalletRow,
         tx' = [tx EXCEPT ![r].seen[w] = row]
  PROVE  /\ tx'[r] \in Tx
         /\ tx'[r].seen = [tx[r].seen EXCEPT ![w] = row]
         /\ tx'[r].rows = tx[r].rows /\ tx'[r].issued = tx[r].issued
         /\ tx'[r].delta = tx[r].delta /\ tx'[r].posted = tx[r].posted
         /\ tx'[r].now = tx[r].now
  BY DEF Tx

LEMMA TxRows ==
  ASSUME tx \in [Requests -> Tx], NEW r \in Requests,
         NEW s \in SUBSET Transaction, tx' = [tx EXCEPT ![r].rows = s]
  PROVE  /\ tx'[r] \in Tx /\ tx'[r].rows = s
         /\ tx'[r].seen = tx[r].seen /\ tx'[r].issued = tx[r].issued
         /\ tx'[r].delta = tx[r].delta /\ tx'[r].posted = tx[r].posted
         /\ tx'[r].now = tx[r].now
  BY DEF Tx

LEMMA TxIssued ==
  ASSUME tx \in [Requests -> Tx], NEW r \in Requests,
         NEW s \in SUBSET Issuance, tx' = [tx EXCEPT ![r].issued = s]
  PROVE  /\ tx'[r] \in Tx /\ tx'[r].issued = s
         /\ tx'[r].seen = tx[r].seen /\ tx'[r].rows = tx[r].rows
         /\ tx'[r].delta = tx[r].delta /\ tx'[r].posted = tx[r].posted
         /\ tx'[r].now = tx[r].now
  BY DEF Tx

LEMMA TxPosted ==
  ASSUME tx \in [Requests -> Tx], NEW r \in Requests, NEW w \in Wallets,
         NEW d \in Int, NEW e \in LedgerEntry,
         tx' = [tx EXCEPT ![r].delta[w] = @ + d,
                          ![r].posted[w] = Append(@, e)]
  PROVE  /\ tx'[r] \in Tx
         /\ tx'[r].delta = [tx[r].delta EXCEPT ![w] = @ + d]
         /\ tx'[r].posted = [tx[r].posted EXCEPT ![w] = Append(@, e)]
         /\ tx'[r].seen = tx[r].seen /\ tx'[r].issued = tx[r].issued
         /\ tx'[r].rows = tx[r].rows /\ tx'[r].now = tx[r].now
  <1>1. PICK D \in [Wallets -> Int] : D = [tx[r].delta EXCEPT ![w] = @ + d]
    BY SMTT(30) DEF Tx
  <1>2. PICK P \in [Wallets -> Seq(LedgerEntry)] :
          P = [tx[r].posted EXCEPT ![w] = Append(@, e)]
    <2>1. tx[r].posted \in [Wallets -> Seq(LedgerEntry)]
      BY DEF Tx
    <2>2. Append(tx[r].posted[w], e) \in Seq(LedgerEntry)
      BY <2>1
    <2>3. [tx[r].posted EXCEPT ![w] = Append(@, e)] \in [Wallets -> Seq(LedgerEntry)]
      BY ONLY <2>1, <2>2
    <2> QED
      BY ONLY <2>3
  <1>3. tx'[r] = [tx[r] EXCEPT !.delta = D, !.posted = P]
    BY <1>1, <1>2
  <1>4. tx[r] \in Tx
    OBVIOUS
  <1>5. /\ tx'[r] \in Tx /\ tx'[r].delta = D /\ tx'[r].posted = P
        /\ tx'[r].seen = tx[r].seen /\ tx'[r].issued = tx[r].issued
        /\ tx'[r].rows = tx[r].rows /\ tx'[r].now = tx[r].now
    BY ONLY <1>3, <1>4, D \in [Wallets -> Int], P \in [Wallets -> Seq(LedgerEntry)] DEF Tx
  <1> QED
    BY ONLY <1>1, <1>2, <1>5

\* A granted row lock: the row joins those the request has read.
LEMMA GrantCore ==
  ASSUME Core, NEW r \in Requests, NEW w \in Wallets, NEW p,
         lockedBy[w] = Nobody,
         lockedBy' = [lockedBy EXCEPT ![w] = r],
         tx' = [tx EXCEPT ![r].seen[w] =
                  [balance |-> balance[w], is_frozen |-> frozen[w]]],
         pc' = [pc EXCEPT ![r] = p],
         \/ /\ pc[r] = "lock1" /\ w = LockTargets(r)[1]
            /\ p = IF call[r].op = "Issue" THEN "create" ELSE "lock2"
         \/ pc[r] = "lock2" /\ w = LockTargets(r)[2] /\ p = "create",
         UNCHANGED <<balance, frozen, transactions, entries, issuances, clock,
                     call, result>>
  PROVE  Core'
  <1>1. PICK row \in WalletRow :
          row = [balance |-> balance[w], is_frozen |-> frozen[w]]
    BY DEF Core, TypeOK, WalletRow
  <1>2. tx[r] \in Tx /\ r # Nobody
    BY ConstantAssumption DEF Core, TypeOK
  <1>3. tx' = [tx EXCEPT ![r].seen[w] = row] /\ tx \in [Requests -> Tx]
    BY <1>1 DEF Core, TypeOK
  <1>4. /\ tx'[r] \in Tx
        /\ tx'[r].seen = [tx[r].seen EXCEPT ![w] = row]
        /\ tx'[r].rows = tx[r].rows /\ tx'[r].issued = tx[r].issued
        /\ tx'[r].delta = tx[r].delta /\ tx'[r].posted = tx[r].posted
    BY ONLY <1>3, TxSeen, r \in Requests, w \in Wallets, row \in WalletRow
  <1>5. p \in {"lock2", "create"} /\ pc'[r] = p /\ pc[r] \in {"lock1", "lock2"}
    BY DEF Core, TypeOK, InTx
  <1>6. TypeOK'
    BY <1>4, <1>5, ConstantAssumption DEF Core, TypeOK, InTx
  <1>7. call[r].op \in {"Transfer", "Issue"}
        /\ call[r].amount > 0 /\ call[r].sender # call[r].receiver
        /\ (pc[r] = "lock2" => call[r].op = "Transfer")
        /\ (p = "lock2" => call[r].op = "Transfer")
    BY <1>5, CallsAssumption DEF Core, TypeOK, TxShape, CallShape
  <1>8. RowsRead(r)' = RowsRead(r) \cup {w}
    <2>1. CASE pc[r] = "lock1" /\ call[r].op = "Issue"
      BY <1>5, <1>7, <2>1, LockTargetsType DEF RowsRead, InTx, Core
    <2>2. CASE pc[r] = "lock1" /\ call[r].op = "Transfer"
      BY <1>5, <2>2 DEF RowsRead, InTx, LockTargets
    <2>3. CASE pc[r] = "lock2"
      <3>1. RowsRead(r) = {LockTargets(r)[1]} /\ w = LockTargets(r)[2]
        BY <2>3 DEF RowsRead
      <3>2. RowsRead(r)' = {call[r].receiver, call[r].sender}
        BY <1>5, <1>7, <2>3 DEF RowsRead, InTx
      <3> QED
        BY SMTT(30), <1>7, <2>3, <3>1, <3>2, LockTargetsType DEF Core
    <2> QED
      BY <1>5, <1>7, <2>1, <2>2, <2>3
  <1>9. LockShape(r)'
    <2>1. RowsRead(r)' \subseteq Wallets
      BY <1>8 DEF Core, TxShape, LockShape
    <2>2. \A v \in Wallets : lockedBy'[v] = r <=> v \in RowsRead(r)'
      BY <1>2, <1>8 DEF Core, TypeOK, TxShape, LockShape
    <2>3. \A v \in RowsRead(r)' :
            tx'[r].seen[v] = [balance |-> balance[v], is_frozen |-> frozen[v]]
      <3>1. tx[r].seen \in [Wallets -> WalletRow]
        BY <1>2 DEF Tx
      <3>2. \A v \in RowsRead(r) :
              tx[r].seen[v] = [balance |-> balance[v], is_frozen |-> frozen[v]]
        BY DEF Core, TxShape, LockShape
      <3> QED
        BY <1>1, <1>4, <1>8, <2>1, <3>1, <3>2
    <2>4. ~Inserted(r)'
      BY <1>5 DEF Inserted
    <2> QED
      BY <2>1, <2>2, <2>3, <2>4 DEF LockShape
  <1>10. WriteShape(r)'
    <2>1. /\ ~Inserted(r)' /\ ~DebitDone(r)' /\ ~CreditDone(r)'
          /\ ~Inserted(r) /\ ~DebitDone(r) /\ ~CreditDone(r)
          /\ pc[r] # "commit" /\ pc'[r] # "commit"
      BY <1>5 DEF Inserted, DebitDone, CreditDone
    <2>2. \A v \in Wallets : Change(r, v)' = 0 /\ Change(r, v) = 0
      BY <2>1 DEF Change
    <2>3. WriteShape(r)
      BY DEF Core, TxShape
    <2>4. /\ tx[r].rows = {} /\ tx[r].issued = {}
          /\ \A v \in Wallets : /\ tx[r].delta[v] = 0
                                /\ tx[r].posted[v] = << >>
                                /\ balance[v] + 0 \in 0..MaxBigint
      BY <2>1, <2>2, <2>3 DEF WriteShape
    <2> QED
      BY <1>4, <2>1, <2>2, <2>4 DEF WriteShape
  <1>11. TxShape(r)'
    BY <1>5, <1>7, <1>9, <1>10 DEF TxShape, CallShape, InTx
  <1>12. ASSUME NEW q \in Requests \ {r}
         PROVE  /\ tx'[q] = tx[q] /\ pc'[q] = pc[q]
                /\ \A v \in Wallets : lockedBy'[v] = q <=> lockedBy[v] = q
    BY ConstantAssumption DEF Core, TypeOK
  <1> QED
    BY <1>6, <1>11, <1>12, OwnStep

LEMMA LockCore ==
  ASSUME Core, NEW r \in Requests, LockFirst(r) \/ LockSecond(r)
  PROVE  Core'
  <1>1. CASE Rollback(r, "ErrWalletNotFound")
    BY <1>1, RollbackCore, FailureType
  <1>2. ASSUME ~Rollback(r, "ErrWalletNotFound"), LockFirst(r) PROVE Core'
    <2>1. PICK w, p : /\ w = LockTargets(r)[1]
                      /\ p = IF call[r].op = "Issue" THEN "create" ELSE "lock2"
      OBVIOUS
    <2>2. pc[r] = "lock1" /\ GetWalletForUpdate(r, w, p)
      BY <1>2, <2>1 DEF LockFirst
    <2> QED
      BY <1>2, <2>1, <2>2, GrantCore DEF GetWalletForUpdate, Goto, tables
  <1>3. ASSUME ~Rollback(r, "ErrWalletNotFound"), LockSecond(r) PROVE Core'
    BY SMTT(30), <1>3, GrantCore DEF LockSecond, GetWalletForUpdate, Goto, tables
  <1> QED
    BY <1>1, <1>2, <1>3

\* After its locks are granted a request keeps them until its transaction ends.
LEMMA KeepLocks ==
  ASSUME Core, NEW r \in Requests,
         pc[r] \in InTx \ {"lock1", "lock2"}, pc'[r] \in InTx \ {"lock1", "lock2"},
         tx'[r].seen = tx[r].seen, ~AnyFrozen(r), ~DuplicateKey(r),
         UNCHANGED <<balance, frozen, transactions, lockedBy, call>>
  PROVE  LockShape(r)'
  <1>1. RowsRead(r)' = RowsRead(r)
    BY DEF RowsRead
  <1>2. ~AnyFrozen(r)' /\ ~DuplicateKey(r)'
    BY DEF AnyFrozen, DuplicateKey
  <1> QED
    BY <1>1, <1>2 DEF Core, TxShape, LockShape

\* The wallets of a request whose locks are granted are rows of the table.
LEMMA CallType ==
  ASSUME Core, NEW r \in Requests, pc[r] \in InTx \ {"lock1", "lock2"}
  PROVE  /\ call[r].op \in {"Transfer", "Issue"}
         /\ call[r].amount \in Nat \ {0}
         /\ call[r].receiver \in Wallets
         /\ call[r].sender # call[r].receiver
         /\ call[r].key \in KeysUsed
         /\ call[r].op = "Transfer" => call[r].sender \in Wallets
         /\ call[r].op = "Issue" => call[r].sender = NoWallet /\ call[r].key = NoKey
         /\ call[r].sender \in Wallets \cup {NoWallet}
  <1>1. call[r] \in Calls
    BY DEF Core, TypeOK
  <1>2. call[r].amount > 0 /\ call[r].sender # call[r].receiver
    BY DEF Core, TxShape, CallShape, InTx
  <1>3. RowsRead(r) \subseteq Wallets
    BY DEF Core, TxShape, LockShape
  <1> QED
    BY <1>1, <1>2, <1>3, CallsAssumption DEF RowsRead, KeysUsed

\* A row a request inserts is a row of the transactions table.
LEMMA TransactionRowType ==
  ASSUME Core, NEW r \in Requests, pc[r] \in InTx \ {"lock1", "lock2"},
         NEW status \in {"PENDING", "SETTLED"}
  PROVE  {TransactionRow(r, status)} \in SUBSET Transaction
  BY CallType, ConstantAssumption DEF TransactionRow, Transaction

LEMMA CreateTransactionCore ==
  ASSUME Core, NEW r \in Requests, CreateTransaction(r) PROVE Core'
  <1>1. pc[r] = "create"
    BY DEF CreateTransaction
  <1>2. ASSUME NEW o \in {"ErrWalletFrozen", "ErrInsufficientFunds", "error"},
               Rollback(r, o)
        PROVE  Core'
    BY <1>2, RollbackCore, FailureType
  <1>3. ASSUME ~AnyFrozen(r), ~DuplicateKey(r),
               tx' = [tx EXCEPT ![r].rows = {TransactionRow(r, "PENDING")}],
               Goto(r, IF call[r].op = "Issue" THEN "credit" ELSE "debit"),
               UNCHANGED <<tables, lockedBy, clock, call, result>>
        PROVE  Core'
    <2>1. UNCHANGED <<balance, frozen, transactions, entries, issuances,
                      lockedBy, clock, call, result>>
      BY <1>3 DEF tables
    <2>2. PICK rows \in SUBSET Transaction : rows = {TransactionRow(r, "PENDING")}
      BY <1>1, TransactionRowType DEF InTx
    <2>3. tx' = [tx EXCEPT ![r].rows = rows] /\ tx \in [Requests -> Tx]
      BY <1>3, <2>2 DEF Core, TypeOK
    <2>4. /\ tx'[r] \in Tx /\ tx'[r].rows = rows
          /\ tx'[r].seen = tx[r].seen /\ tx'[r].issued = tx[r].issued
          /\ tx'[r].delta = tx[r].delta /\ tx'[r].posted = tx[r].posted
      BY ONLY <2>3, TxRows, r \in Requests, rows \in SUBSET Transaction
    <2>5. /\ pc'[r] = IF call[r].op = "Issue" THEN "credit" ELSE "debit"
          /\ pc' = [pc EXCEPT ![r] = pc'[r]]
      BY <1>3 DEF Goto, Core, TypeOK
    <2>6. TypeOK'
      BY <2>1, <2>3, <2>4, <2>5 DEF Core, TypeOK, InTx
    <2>7. LockShape(r)'
      BY <1>1, <1>3, <2>1, <2>4, <2>5, KeepLocks DEF InTx
    <2>8. WriteShape(r)'
      <3>1. /\ Inserted(r)' /\ ~Inserted(r)
            /\ ~DebitDone(r)' /\ ~CreditDone(r)' /\ ~DebitDone(r) /\ ~CreditDone(r)
            /\ pc[r] # "commit" /\ pc'[r] # "commit"
        BY <1>1, <2>1, <2>5 DEF Inserted, DebitDone, CreditDone
      <3>2. \A v \in Wallets : Change(r, v)' = 0 /\ Change(r, v) = 0
        BY <3>1 DEF Change
      <3>3. tx'[r].rows = {TransactionRow(r, RowStatus(r))'}
        BY <2>1, <2>2, <2>4, <2>5 DEF TransactionRow, RowStatus
      <3>4. WriteShape(r)
        BY DEF Core, TxShape
      <3>5. /\ tx[r].issued = {}
            /\ \A v \in Wallets : /\ tx[r].delta[v] = 0
                                  /\ tx[r].posted[v] = << >>
                                  /\ balance[v] + 0 \in 0..MaxBigint
        BY <3>1, <3>2, <3>4 DEF WriteShape
      <3> QED
        BY <2>1, <2>4, <3>1, <3>2, <3>3, <3>5 DEF WriteShape
    <2>9. TxShape(r)'
      <3>1. CallShape(r)'
        BY <1>1, <2>1, <2>5, CallType DEF CallShape, InTx
      <3> QED
        BY <2>5, <2>7, <2>8, <3>1 DEF TxShape, InTx
    <2>10. ASSUME NEW q \in Requests \ {r}
           PROVE  /\ tx'[q] = tx[q] /\ pc'[q] = pc[q]
                  /\ \A v \in Wallets : lockedBy'[v] = q <=> lockedBy[v] = q
      BY <2>1, <2>3, <2>5 DEF Core, TypeOK
    <2> QED
      BY <2>1, <2>6, <2>9, <2>10, OwnStep
  <1> QED
    BY <1>2, <1>3 DEF CreateTransaction

\* An accepted UPDATE and its entry: the private writes grow by one posting.
LEMMA PostCore ==
  ASSUME Core, NEW r \in Requests, NEW w, NEW entryType, NEW d, NEW p,
         \/ /\ pc[r] = "debit" /\ w = call[r].sender /\ entryType = "DEBIT"
            /\ d = -call[r].amount /\ p = "credit"
         \/ /\ pc[r] = "credit" /\ w = call[r].receiver /\ entryType = "CREDIT"
            /\ d = call[r].amount /\ p = "settle",
         PostEntry(r, w, entryType, d, p)
  PROVE  Core'
  <1>1. CASE Rollback(r, "error")
    BY <1>1, RollbackCore, FailureType
  <1>2. CASE ~Rollback(r, "error")
    <2> DEFINE after == balance[w] + tx[r].delta[w] + d
    <2>1. /\ after \in 0..MaxBigint
          /\ tx' = [tx EXCEPT
               ![r].delta[w] = @ + d,
               ![r].posted[w] = Append(@, EntryRow(r, w, entryType, after))]
          /\ pc' = [pc EXCEPT ![r] = p]
          /\ UNCHANGED <<balance, frozen, transactions, entries, issuances,
                         lockedBy, clock, call, result>>
      BY <1>2 DEF PostEntry, BalanceAccepted, Goto, tables
    <2>2. /\ pc[r] \in InTx \ {"lock1", "lock2"}
          /\ p \in InTx \ {"lock1", "lock2"} /\ p \in {"credit", "settle"}
      BY DEF InTx
    <2>3. /\ pc'[r] = p /\ tx[r] \in Tx /\ tx \in [Requests -> Tx]
          /\ call[r].op = "Transfer" \/ pc[r] = "credit"
      BY <2>1, <2>2 DEF Core, TypeOK, TxShape, CallShape
    <2>4. w \in Wallets /\ d \in Int /\ call[r].amount \in Nat \ {0}
      BY <2>2, <2>3, CallType
    <2>5. /\ Change(r, w) = 0 /\ Change(r, w)' = d
          /\ \A v \in Wallets \ {w} : Change(r, v)' = Change(r, v)
      <3>1. CASE pc[r] = "debit"
        <4>1. call[r].op = "Transfer"
          BY <2>3, <3>1
        <4> QED
          BY <2>1, <2>3, <3>1, <4>1 DEF Change, DebitDone, CreditDone
      <3>2. CASE pc[r] = "credit"
        <4>1. call[r].sender # call[r].receiver
          BY <2>2, CallType
        <4> QED
          BY <2>1, <2>3, <3>2, <4>1 DEF Change, DebitDone, CreditDone
      <3> QED
        BY <3>1, <3>2
    <2>6. WriteShape(r)
      BY DEF Core, TxShape
    <2>7. after = balance[w] + d /\ tx[r].delta[w] = 0 /\ tx[r].posted[w] = << >>
      <3>1. tx[r].delta[w] = Change(r, w)
        BY ONLY <2>4, <2>6 DEF WriteShape
      <3>4. balance[w] \in Int
        BY ONLY <2>4, ConstantAssumption, Core DEF Core, TypeOK
      <3>5. after = balance[w] + d
        BY ONLY <2>4, <2>5, <3>1, <3>4
      <3>2. ~(DebitDone(r) /\ w = call[r].sender) /\ ~(CreditDone(r) /\ w = call[r].receiver)
        BY <2>2, CallType DEF DebitDone, CreditDone
      <3>3. tx[r].posted[w] = << >>
        BY ONLY <2>4, <2>6, <3>2 DEF WriteShape
      <3> QED
        BY <2>5, <3>1, <3>3, <3>5
    <2>8. PICK e : e = EntryRow(r, w, entryType, after)
      OBVIOUS
    <2>9. e \in LedgerEntry
      BY <2>1, <2>3, <2>4, <2>8, ConstantAssumption DEF EntryRow, LedgerEntry, Tx
    <2>10. tx' = [tx EXCEPT ![r].delta[w] = @ + d, ![r].posted[w] = Append(@, e)]
      BY <2>1, <2>8
    <2>11. /\ tx'[r] \in Tx
           /\ tx'[r].delta = [tx[r].delta EXCEPT ![w] = @ + d]
           /\ tx'[r].posted = [tx[r].posted EXCEPT ![w] = Append(@, e)]
           /\ tx'[r].seen = tx[r].seen /\ tx'[r].issued = tx[r].issued
           /\ tx'[r].rows = tx[r].rows /\ tx'[r].now = tx[r].now
      BY ONLY <2>3, <2>4, <2>9, <2>10, TxPosted, r \in Requests
    <2>12. TypeOK'
      BY <2>1, <2>2, <2>10, <2>11 DEF Core, TypeOK, InTx
    <2>13. LockShape(r)'
      <3>1. ~AnyFrozen(r) /\ ~DuplicateKey(r)
        BY DEF Core, TxShape, LockShape, Inserted
      <3> QED
        BY <2>1, <2>2, <2>3, <2>11, <3>1, KeepLocks
    <2>14. WriteShape(r)'
      <3>1. tx'[r].rows = {TransactionRow(r, RowStatus(r))'} /\ Inserted(r)'
        BY <2>1, <2>2, <2>3, <2>6, <2>11
           DEF WriteShape, Inserted, TransactionRow, RowStatus
      <3>2. tx'[r].issued = {} /\ pc'[r] # "commit"
        BY <2>2, <2>3, <2>6, <2>11 DEF WriteShape
      <3>3. tx[r].delta \in [Wallets -> Int] /\ tx[r].posted \in [Wallets -> Seq(LedgerEntry)]
        BY <2>3 DEF Tx
      <3>4. ASSUME NEW v \in Wallets
            PROVE  /\ tx'[r].delta[v] = Change(r, v)'
                   /\ balance'[v] + Change(r, v)' \in 0..MaxBigint
        <4>1. tx[r].delta[v] = Change(r, v) /\ balance[v] + Change(r, v) \in 0..MaxBigint
          BY <2>6 DEF WriteShape
        <4>2. CASE v = w
          BY ONLY <2>1, <2>4, <2>5, <2>7, <2>11, <3>3, <4>2
        <4>3. CASE v # w
          BY ONLY <2>1, <2>4, <2>5, <2>11, <3>3, <4>1, <4>3, v \in Wallets
        <4> QED
          BY <4>2, <4>3
      <3>5. tx'[r].posted[w] = <<e>>
        BY <2>4, <2>7, <2>11, <3>3
      <3>6. Posting(r, w, entryType)' = e
        BY <2>1, <2>5, <2>7, <2>8, <2>11 DEF Posting, EntryRow
      <3>7. ASSUME NEW v \in Wallets
            PROVE  (tx[r].posted)'[v] =
                     IF DebitDone(r)' /\ v = call'[r].sender
                       THEN <<Posting(r, v, "DEBIT")'>>
                     ELSE IF CreditDone(r)' /\ v = call'[r].receiver
                       THEN <<Posting(r, v, "CREDIT")'>>
                     ELSE << >>
        <4>1. call' = call /\ call[r].sender # call[r].receiver
          BY <2>1, <2>2, CallType
        <4>2. CASE v = w
          <5>1. CASE pc[r] = "debit"
            BY <2>3, <3>5, <3>6, <4>1, <4>2, <5>1 DEF DebitDone
          <5>2. CASE pc[r] = "credit"
            BY <2>3, <3>5, <3>6, <4>1, <4>2, <5>2 DEF DebitDone, CreditDone
          <5> QED
            BY <5>1, <5>2
        <4>3. CASE v # w
          <5>1. tx'[r].posted[v] = tx[r].posted[v]
            BY <2>11, <3>3, <4>3
          <5>2. \A k : Posting(r, v, k)' = Posting(r, v, k)
            BY <2>1, <2>5, <2>11, <4>3 DEF Posting, EntryRow
          <5>3. /\ DebitDone(r)' /\ v = call[r].sender <=> DebitDone(r) /\ v = call[r].sender
                /\ CreditDone(r)' /\ v = call[r].receiver <=> CreditDone(r) /\ v = call[r].receiver
            BY <2>2, <2>3, <4>1, <4>3 DEF DebitDone, CreditDone
          <5>4. tx[r].posted[v] =
                  IF DebitDone(r) /\ v = call[r].sender
                    THEN <<Posting(r, v, "DEBIT")>>
                  ELSE IF CreditDone(r) /\ v = call[r].receiver
                    THEN <<Posting(r, v, "CREDIT")>>
                  ELSE << >>
            BY <2>6 DEF WriteShape
          <5> QED
            BY <4>1, <5>1, <5>2, <5>3, <5>4
        <4> QED
          BY <4>2, <4>3
      <3> QED
        BY <3>1, <3>2, <3>4, <3>7 DEF WriteShape
    <2>15. TxShape(r)'
      <3>1. CallShape(r)'
        BY <2>1, <2>2, <2>3, CallType DEF CallShape
      <3> QED
        BY <2>2, <2>3, <2>13, <2>14, <3>1 DEF TxShape
    <2>16. ASSUME NEW q \in Requests \ {r}
           PROVE  /\ tx'[q] = tx[q] /\ pc'[q] = pc[q]
                  /\ \A v \in Wallets : lockedBy'[v] = q <=> lockedBy[v] = q
      BY <2>1, <2>3, <2>10 DEF Core, TypeOK
    <2> QED
      BY <2>1, <2>12, <2>15, <2>16, OwnStep
  <1> QED
    BY <1>1, <1>2

LEMMA SettleTransactionCore ==
  ASSUME Core, NEW r \in Requests, SettleTransaction(r) PROVE Core'
  <1>1. /\ pc[r] = "settle"
        /\ tx' = [tx EXCEPT ![r].rows = {TransactionRow(r, "SETTLED")}]
        /\ pc' = [pc EXCEPT ![r] = IF call[r].op = "Issue" THEN "record" ELSE "commit"]
        /\ UNCHANGED <<balance, frozen, transactions, entries, issuances,
                       lockedBy, clock, call, result>>
    BY DEF SettleTransaction, Goto, tables
  <1>2. PICK rows \in SUBSET Transaction : rows = {TransactionRow(r, "SETTLED")}
    BY <1>1, TransactionRowType DEF InTx
  <1>3. tx' = [tx EXCEPT ![r].rows = rows] /\ tx \in [Requests -> Tx]
    BY <1>1, <1>2 DEF Core, TypeOK
  <1>4. /\ tx'[r] \in Tx /\ tx'[r].rows = rows
        /\ tx'[r].seen = tx[r].seen /\ tx'[r].issued = tx[r].issued
        /\ tx'[r].delta = tx[r].delta /\ tx'[r].posted = tx[r].posted
        /\ tx'[r].now = tx[r].now
    BY ONLY <1>3, TxRows, r \in Requests, rows \in SUBSET Transaction
  <1>5. pc'[r] = IF call[r].op = "Issue" THEN "record" ELSE "commit"
    BY <1>1 DEF Core, TypeOK
  <1>6. TypeOK'
    BY <1>1, <1>3, <1>4, <1>5 DEF Core, TypeOK, InTx
  <1>7. LockShape(r)'
    <2>1. ~AnyFrozen(r) /\ ~DuplicateKey(r)
      BY <1>1 DEF Core, TxShape, LockShape, Inserted
    <2> QED
      BY <1>1, <1>4, <1>5, <2>1, KeepLocks DEF InTx
  <1>8. WriteShape(r)'
    <2>1. WriteShape(r) /\ call[r].op \in {"Transfer", "Issue"}
      BY <1>1, CallType DEF Core, TxShape, InTx
    <2>2. /\ Inserted(r)' /\ (call[r].op = "Issue" => pc'[r] # "commit")
          /\ DebitDone(r)' = DebitDone(r) /\ CreditDone(r)' = CreditDone(r)
      BY <1>1, <1>5, <2>1 DEF Inserted, DebitDone, CreditDone
    <2>3. \A v \in Wallets : /\ Change(r, v)' = Change(r, v)
                            /\ \A k : Posting(r, v, k)' = Posting(r, v, k)
      BY <1>1, <1>4, <2>2 DEF Change, Posting, EntryRow
    <2>4. tx'[r].rows = {TransactionRow(r, RowStatus(r))'}
      BY <1>1, <1>2, <1>4, <1>5 DEF TransactionRow, RowStatus
    <2>5. tx'[r].issued = {}
      BY <1>1, <1>4, <2>1 DEF WriteShape
    <2>6. ASSUME NEW v \in Wallets
          PROVE  /\ tx'[r].delta[v] = Change(r, v)'
                 /\ balance'[v] + Change(r, v)' \in 0..MaxBigint
                 /\ (tx[r].posted)'[v] =
                     IF DebitDone(r)' /\ v = call'[r].sender
                       THEN <<Posting(r, v, "DEBIT")'>>
                     ELSE IF CreditDone(r)' /\ v = call'[r].receiver
                       THEN <<Posting(r, v, "CREDIT")'>>
                     ELSE << >>
      <3>1. Posting(r, v, "DEBIT")' = Posting(r, v, "DEBIT")
            /\ Posting(r, v, "CREDIT")' = Posting(r, v, "CREDIT")
        BY <2>3
      <3>2. balance' = balance /\ call' = call
        BY <1>1
      <3> QED
        BY ONLY <1>4, <2>1, <2>2, <2>3, <3>1, <3>2, v \in Wallets DEF WriteShape
    <2>7. pc'[r] # "commit" \/ call'[r].op # "Issue"
      BY <1>1, <2>2
    <2> QED
      BY ONLY <2>2, <2>4, <2>5, <2>6, <2>7 DEF WriteShape
  <1>9. TxShape(r)'
    <2>1. CallShape(r)'
      BY <1>1, <1>5, CallType DEF CallShape, InTx
    <2> QED
      BY <1>5, <1>7, <1>8, <2>1 DEF TxShape, InTx
  <1>10. ASSUME NEW q \in Requests \ {r}
         PROVE  /\ tx'[q] = tx[q] /\ pc'[q] = pc[q]
                /\ \A v \in Wallets : lockedBy'[v] = q <=> lockedBy[v] = q
    BY <1>1, <1>3 DEF Core, TypeOK
  <1> QED
    BY <1>1, <1>6, <1>9, <1>10, OwnStep

LEMMA InsertIssuanceRecordCore ==
  ASSUME Core, NEW r \in Requests, InsertIssuanceRecord(r) PROVE Core'
  <1> DEFINE record == [txn |-> r, wallet |-> call[r].receiver, amount |-> call[r].amount]
  <1>1. /\ pc[r] = "record"
        /\ tx' = [tx EXCEPT ![r].issued = {record}]
        /\ pc' = [pc EXCEPT ![r] = "commit"]
        /\ UNCHANGED <<balance, frozen, transactions, entries, issuances,
                       lockedBy, clock, call, result>>
    BY DEF InsertIssuanceRecord, Goto, tables
  <1>2. PICK rows \in SUBSET Issuance : rows = {record}
    <2>1. record \in Issuance
      BY <1>1, CallType, ConstantAssumption DEF InTx, Issuance
    <2> QED
      BY ONLY <2>1
  <1>3. tx' = [tx EXCEPT ![r].issued = rows] /\ tx \in [Requests -> Tx]
    BY <1>1, <1>2 DEF Core, TypeOK
  <1>4. /\ tx'[r] \in Tx /\ tx'[r].issued = rows
        /\ tx'[r].seen = tx[r].seen /\ tx'[r].rows = tx[r].rows
        /\ tx'[r].delta = tx[r].delta /\ tx'[r].posted = tx[r].posted
        /\ tx'[r].now = tx[r].now
    BY ONLY <1>3, TxIssued, r \in Requests, rows \in SUBSET Issuance
  <1>5. pc'[r] = "commit" /\ call[r].op = "Issue"
    BY <1>1 DEF Core, TypeOK, TxShape, CallShape
  <1>6. TypeOK'
    BY <1>1, <1>3, <1>4, <1>5 DEF Core, TypeOK, InTx
  <1>7. LockShape(r)'
    <2>1. ~AnyFrozen(r) /\ ~DuplicateKey(r)
      BY <1>1 DEF Core, TxShape, LockShape, Inserted
    <2> QED
      BY <1>1, <1>4, <1>5, <2>1, KeepLocks DEF InTx
  <1>8. WriteShape(r)'
    <2>1. WriteShape(r)
      BY DEF Core, TxShape
    <2>2. /\ Inserted(r)' /\ Inserted(r)
          /\ DebitDone(r)' = DebitDone(r) /\ CreditDone(r)' = CreditDone(r)
      BY <1>1, <1>5 DEF Inserted, DebitDone, CreditDone
    <2>3. \A v \in Wallets : /\ Change(r, v)' = Change(r, v)
                            /\ \A k : Posting(r, v, k)' = Posting(r, v, k)
      BY <1>1, <1>4, <2>2 DEF Change, Posting, EntryRow
    <2>4. tx'[r].rows = {TransactionRow(r, RowStatus(r))'}
      BY <1>1, <1>4, <1>5, <2>1, <2>2 DEF WriteShape, TransactionRow, RowStatus
    <2>5. tx'[r].issued = {record'}
      BY <1>1, <1>2, <1>4
    <2> QED
      BY <1>1, <1>4, <1>5, <2>1, <2>2, <2>3, <2>4, <2>5 DEF WriteShape
  <1>9. TxShape(r)'
    <2>1. CallShape(r)'
      BY <1>1, <1>5, CallType DEF CallShape, InTx
    <2> QED
      BY <1>5, <1>7, <1>8, <2>1 DEF TxShape, InTx
  <1>10. ASSUME NEW q \in Requests \ {r}
         PROVE  /\ tx'[q] = tx[q] /\ pc'[q] = pc[q]
                /\ \A v \in Wallets : lockedBy'[v] = q <=> lockedBy[v] = q
    BY <1>1, <1>3 DEF Core, TypeOK
  <1> QED
    BY <1>1, <1>6, <1>9, <1>10, OwnStep

\* What a commit applies, spelled out: the balances of the rows it has locked
\* change by the request's postings, and no other row changes.
LEMMA CommitWrites ==
  ASSUME Core, NEW r \in Requests, pc[r] = "commit", ApplyWrites(r)
  PROVE  /\ balance' = [w \in Wallets |-> balance[w] + Change(r, w)]
         /\ balance' \in [Wallets -> 0..MaxBigint]
         /\ \A w \in Wallets : lockedBy[w] # r => balance'[w] = balance[w]
         /\ transactions' = transactions \cup {TransactionRow(r, "SETTLED")}
         /\ transactions' \subseteq Transaction
         /\ issuances' \subseteq Issuance
         /\ entries' \in [Wallets -> Seq(LedgerEntry)]
         /\ UNCHANGED <<frozen, clock, call>>
  <1>1. WriteShape(r) /\ LockShape(r) /\ tx[r] \in Tx
    BY DEF Core, TxShape, TypeOK
  <1>2. balance' = [w \in Wallets |-> balance[w] + Change(r, w)]
    BY <1>1 DEF ApplyWrites, WriteShape
  <1>3. balance' \in [Wallets -> 0..MaxBigint]
    BY <1>1, <1>2 DEF WriteShape
  <1>4. ASSUME NEW w \in Wallets, lockedBy[w] # r PROVE balance'[w] = balance[w]
    <2>1. w \notin RowsRead(r)
      BY <1>1, <1>4 DEF LockShape
    <2>2. w # call[r].receiver /\ (call[r].op = "Transfer" => w # call[r].sender)
      BY <2>1, CallType DEF RowsRead, InTx
    <2>3. Change(r, w) = 0
      BY <2>2 DEF Change, DebitDone
    <2>4. balance[w] \in Int
      BY ConstantAssumption DEF Core, TypeOK
    <2> QED
      BY ONLY <1>2, <2>3, <2>4, w \in Wallets
  <1>5. tx[r].rows = {TransactionRow(r, "SETTLED")}
    BY <1>1 DEF WriteShape, Inserted, RowStatus
  <1>6. transactions' = transactions \cup {TransactionRow(r, "SETTLED")}
    BY <1>5 DEF ApplyWrites
  <1>7. transactions' \subseteq Transaction
    BY <1>6, TransactionRowType DEF InTx, Core, TypeOK
  <1>8. issuances' \subseteq Issuance
    BY <1>1 DEF ApplyWrites, Tx, Core, TypeOK
  <1>9. entries' \in [Wallets -> Seq(LedgerEntry)]
    <2>1. \A w \in Wallets : entries[w] \in Seq(LedgerEntry)
                           /\ tx[r].posted[w] \in Seq(LedgerEntry)
      BY <1>1 DEF Core, TypeOK, Tx
    <2>2. entries' = [w \in Wallets |-> entries[w] \o tx[r].posted[w]]
      BY DEF ApplyWrites
    <2>3. \A w \in Wallets : entries[w] \o tx[r].posted[w] \in Seq(LedgerEntry)
      BY <2>1, ConcatProperties
    <2> QED
      BY <2>2, <2>3
  <1> QED
    BY <1>2, <1>3, <1>4, <1>6, <1>7, <1>8, <1>9 DEF ApplyWrites

\* A commit leaves the rows the others have locked alone, and takes no key a
\* waiting INSERT was promised: that request holds the sender's lock.
LEMMA CommitCore ==
  ASSUME Core, NEW r \in Requests, pc[r] = "commit",
         NEW res \in Result, ApplyWrites(r), EndTx(r),
         result' = [result EXCEPT ![r] = res]
  PROVE  Core'
  <1>1. /\ pc' = [pc EXCEPT ![r] = "done"]
        /\ tx' = [tx EXCEPT ![r] = NoTx]
        /\ lockedBy' = [w \in Wallets |->
                          IF lockedBy[w] = r THEN Nobody ELSE lockedBy[w]]
    BY DEF EndTx, Goto
  <1>2. TypeOK'
    BY <1>1, CommitWrites, NoTxType DEF Core, TypeOK
  <1>3. TxShape(r)'
    <2>1. pc'[r] = "done" /\ tx'[r] = NoTx
      BY <1>1 DEF Core, TypeOK
    <2>2. RowsRead(r)' = {}
      BY <2>1 DEF RowsRead, InTx
    <2>3. LockShape(r)'
      BY <1>1, <2>1, <2>2, ConstantAssumption DEF LockShape, Inserted
    <2>4. balance' \in [Wallets -> 0..MaxBigint]
      BY CommitWrites
    <2>5. WriteShape(r)'
      BY <2>1, <2>4, ConstantAssumption DEF WriteShape, NoTx, Inserted, DebitDone, CreditDone, Change
    <2> QED
      BY <2>1, <2>3, <2>5 DEF TxShape, CallShape
  <1>4. ASSUME NEW q \in Requests, q # r PROVE TxShape(q)'
    <2>1. tx'[q] = tx[q] /\ pc'[q] = pc[q] /\ call'[q] = call[q]
      BY <1>1, <1>4, CommitWrites DEF Core, TypeOK
    <2>2. \A w \in Wallets : lockedBy'[w] = q <=> lockedBy[w] = q
      BY <1>1, <1>4, ConstantAssumption
    <2>3. \A w \in Wallets : lockedBy[w] = q =>
            balance'[w] = balance[w] /\ frozen'[w] = frozen[w]
      BY <1>4, CommitWrites
    <2>4. \A w \in Wallets : balance'[w] \in 0..MaxBigint
      BY CommitWrites
    <2>5. ASSUME Inserted(q), ~DuplicateKey(q) PROVE ~DuplicateKey(q)'
      <3>1. SUFFICES ASSUME call[q].key # NoKey,
                            call[r].sender = call[q].sender,
                            call[r].key = call[q].key
                     PROVE  FALSE
        BY <2>1, <2>5, CommitWrites DEF DuplicateKey, TransactionRow
      <3>2. call[r].op = "Transfer" /\ call[r].sender \in Wallets
        BY <3>1, CallType DEF InTx
      <3>3. lockedBy[call[r].sender] = r
        BY <3>2 DEF Core, TxShape, LockShape, RowsRead, InTx
      <3>4. call[q].op = "Transfer"
        BY <2>5, <3>1, CallType DEF InTx, Inserted
      <3>5. lockedBy[call[q].sender] = q
        BY <2>5, <3>1, <3>2, <3>4 DEF Core, TxShape, LockShape, RowsRead, InTx, Inserted
      <3> QED
        BY <1>4, <3>1, <3>3, <3>5
    <2> QED
      BY <2>1, <2>2, <2>3, <2>4, <2>5, Frame DEF Core
  <1> QED
    BY <1>2, <1>3, <1>4 DEF Core

\* The balances a request returns are those of its own entries.
LEMMA SuccessType ==
  ASSUME Core, NEW r \in Requests, pc[r] = "commit"
  PROVE  /\ Success(r) \in Result
         /\ Success(r).receiver_balance = balance[call[r].receiver] + Change(r, call[r].receiver)
         /\ call[r].op = "Transfer" =>
              Success(r).sender_balance = balance[call[r].sender] + Change(r, call[r].sender)
  <1>1. WriteShape(r) /\ pc[r] \in InTx \ {"lock1", "lock2"}
    BY DEF Core, TxShape, InTx
  <1>2. call[r].receiver \in Wallets /\ call[r].sender # call[r].receiver
        /\ call[r].op \in {"Transfer", "Issue"}
        /\ (call[r].op = "Transfer" => call[r].sender \in Wallets)
    BY <1>1, CallType
  <1>3. /\ tx[r].posted[call[r].receiver][1].balance_after
             = balance[call[r].receiver] + Change(r, call[r].receiver)
        /\ balance[call[r].receiver] + Change(r, call[r].receiver) \in Int
    <2>1. CreditDone(r) /\ ~(DebitDone(r) /\ call[r].receiver = call[r].sender)
      BY <1>2 DEF CreditDone
    <2>2. tx[r].posted[call[r].receiver] = <<Posting(r, call[r].receiver, "CREDIT")>>
      BY <1>1, <1>2, <2>1 DEF WriteShape
    <2>3. balance[call[r].receiver] + Change(r, call[r].receiver) \in Int
      <3>1. balance[call[r].receiver] + Change(r, call[r].receiver) \in 0..MaxBigint
        BY ONLY <1>1, <1>2 DEF WriteShape
      <3> QED
        BY ONLY <3>1, ConstantAssumption
    <2> QED
      BY <2>2, <2>3 DEF Posting, EntryRow
  <1>4. ASSUME call[r].op = "Transfer"
        PROVE  /\ tx[r].posted[call[r].sender][1].balance_after
                    = balance[call[r].sender] + Change(r, call[r].sender)
               /\ balance[call[r].sender] + Change(r, call[r].sender) \in Int
    <2>1. DebitDone(r)
      BY <1>4 DEF DebitDone
    <2>2. tx[r].posted[call[r].sender] = <<Posting(r, call[r].sender, "DEBIT")>>
      BY <1>1, <1>2, <1>4, <2>1 DEF WriteShape
    <2>3. balance[call[r].sender] + Change(r, call[r].sender) \in Int
      <3>1. balance[call[r].sender] + Change(r, call[r].sender) \in 0..MaxBigint
        BY ONLY <1>1, <1>2, <1>4 DEF WriteShape
      <3> QED
        BY ONLY <3>1, ConstantAssumption
    <2> QED
      BY <2>2, <2>3 DEF Posting, EntryRow
  <1> QED
    BY <1>2, <1>3, <1>4, ConstantAssumption DEF Success, Result

\* An operator can only freeze a row nobody has locked.
LEMMA SetFrozenCore ==
  ASSUME Core, NEW v \in Freezable, SetFrozen(v) PROVE Core'
  <1>1. v \in Wallets
    BY ConstantAssumption
  <1>2. TypeOK'
    BY <1>1 DEF SetFrozen, Core, TypeOK
  <1>3. ASSUME NEW q \in Requests PROVE TxShape(q)'
    <2>1. \A w \in Wallets : lockedBy[w] = q =>
            balance'[w] = balance[w] /\ frozen'[w] = frozen[w]
      BY <1>1, ConstantAssumption DEF SetFrozen, Core, TypeOK
    <2>2. \A w \in Wallets : balance'[w] \in 0..MaxBigint
      BY <1>2 DEF TypeOK
    <2>3. Inserted(q) /\ ~DuplicateKey(q) => ~DuplicateKey(q)'
      BY DEF SetFrozen, DuplicateKey
    <2>4. /\ tx'[q] = tx[q] /\ pc'[q] = pc[q] /\ call'[q] = call[q]
          /\ \A w \in Wallets : lockedBy'[w] = q <=> lockedBy[w] = q
      BY DEF SetFrozen
    <2> QED
      BY <2>1, <2>2, <2>3, <2>4, Frame DEF Core
  <1> QED
    BY <1>2, <1>3 DEF Core

\* Every step of the engine preserves the core.
LEMMA CoreNext == Core /\ [Next]_vars => Core'
  <1> SUFFICES ASSUME Core, [Next]_vars PROVE Core'
    OBVIOUS
  <1>1. ASSUME NEW r \in Requests, Advance(r) PROVE Core'
    <2>1. CASE Validate(r)
      BY <2>1, ValidateCore
    <2>2. CASE CheckKey(r)
      BY <2>2, CheckKeyCore
    <2>3. CASE BeginTx(r)
      BY <2>3, BeginTxCore
    <2>4. CASE LockFirst(r) \/ LockSecond(r)
      BY <2>4, LockCore
    <2>5. CASE CreateTransaction(r)
      BY <2>5, CreateTransactionCore
    <2>6. CASE DebitSender(r)
      BY <2>6, PostCore DEF DebitSender
    <2>7. CASE CreditReceiver(r)
      BY <2>7, PostCore DEF CreditReceiver
    <2>8. CASE SettleTransaction(r)
      BY <2>8, SettleTransactionCore
    <2>9. CASE InsertIssuanceRecord(r)
      BY <2>9, InsertIssuanceRecordCore
    <2>10. CASE Commit(r)
      BY <2>10, CommitCore, SuccessType DEF Commit
    <2> QED
      BY <1>1, <2>1, <2>2, <2>3, <2>4, <2>5, <2>6, <2>7, <2>8, <2>9, <2>10 DEF Advance
  <1>2. ASSUME NEW r \in Requests, CommitUnacknowledged(r) PROVE Core'
    BY <1>2, CommitCore, FailureType DEF CommitUnacknowledged
  <1>3. ASSUME NEW r \in Requests, Fail(r) PROVE Core'
    BY <1>3, FailCore
  <1>4. ASSUME NEW w \in Freezable, SetFrozen(w) PROVE Core'
    BY <1>4, SetFrozenCore
  <1>5. CASE UNCHANGED vars
    <2>1. TypeOK'
      BY <1>5 DEF vars, Core, TypeOK
    <2>2. ASSUME NEW q \in Requests PROVE TxShape(q)'
      <3>1. Inserted(q) /\ ~DuplicateKey(q) => ~DuplicateKey(q)'
        BY <1>5 DEF vars, DuplicateKey
      <3>2. \A w \in Wallets : balance'[w] \in 0..MaxBigint
        BY <2>1 DEF TypeOK
      <3> QED
        BY <1>5, <3>1, <3>2, Frame DEF vars, Core
    <2> QED
      BY <2>1, <2>2 DEF Core
  <1> QED
    BY <1>1, <1>2, <1>3, <1>4, <1>5 DEF Next

\* The core holds in every reachable state.
THEOREM CoreInvariant == Spec => []Core
  BY CoreInit, CoreNext, PTL DEF Spec

\* The ledger's variables keep their types: in particular no committed balance
\* is ever negative or too wide for its column.
THEOREM TypeInvariant == Spec => []TypeOK
  <1>1. Core => TypeOK
    BY DEF Core
  <1> QED
    BY <1>1, CoreInvariant, PTL

\* The rows a transaction validated are still current when it writes.
THEOREM SeenIsCurrentInvariant == Spec => []SeenIsCurrent
  <1>1. Core => SeenIsCurrent
    BY DEF Core, TxShape, LockShape, SeenIsCurrent
  <1> QED
    BY <1>1, CoreInvariant, PTL

\* Row locks are taken in the order of the ids: a request that waits for its
\* second row holds only a smaller one.
THEOREM LockOrderInvariant == Spec => []LockOrder
  <1>1. Core => LockOrder
    <2> SUFFICES ASSUME Core, NEW r \in Requests, NEW w \in Wallets, lockedBy[w] = r
                 PROVE  /\ pc[r] \in InTx \ {"lock1"}
                        /\ pc[r] = "lock2" => w < LockTargets(r)[2]
      BY DEF LockOrder
    <2>1. w \in RowsRead(r)
      BY DEF Core, TxShape, LockShape
    <2>2. pc[r] \in InTx \ {"lock1"}
      BY <2>1 DEF RowsRead, InTx
    <2>3. ASSUME pc[r] = "lock2" PROVE w < LockTargets(r)[2]
      BY <2>1, <2>3, LockTargetsType DEF RowsRead, Core, TxShape, CallShape
    <2> QED
      BY <2>2, <2>3
  <1> QED
    BY <1>1, CoreInvariant, PTL

-----------------------------------------------------------------------------
(***************************************************************************)
(* The books: what the core invariant buys.  The committed tables are a     *)
(* sound set of books, and the engine implements AbstractLedger.            *)
(***************************************************************************)

\* Only a commit writes to the books, and only an operator freezes.
LEMMA StepKinds ==
  ASSUME Core, [Next]_vars
  PROVE  \/ UNCHANGED <<balance, frozen, transactions, entries, issuances, call>>
         \/ \E w \in Freezable : SetFrozen(w)
         \/ \E r \in Requests : pc[r] = "commit" /\ ApplyWrites(r) /\ EndTx(r)
  <1>1. ASSUME NEW r \in Requests, Advance(r)
        PROVE  \/ UNCHANGED <<balance, frozen, transactions, entries, issuances, call>>
               \/ pc[r] = "commit" /\ ApplyWrites(r) /\ EndTx(r)
    <2>1. CASE Validate(r)
      BY <2>1 DEF Validate, Return, tables
    <2>2. CASE CheckKey(r)
      BY <2>2 DEF CheckKey, Return, tables
    <2>3. CASE BeginTx(r)
      BY <2>3 DEF BeginTx, tables
    <2>4. CASE LockFirst(r) \/ LockSecond(r)
      BY <2>4 DEF LockFirst, LockSecond, GetWalletForUpdate, Rollback, tables
    <2>5. CASE CreateTransaction(r)
      BY <2>5 DEF CreateTransaction, Rollback, tables
    <2>6. CASE DebitSender(r) \/ CreditReceiver(r)
      BY <2>6 DEF DebitSender, CreditReceiver, PostEntry, Rollback, tables
    <2>7. CASE SettleTransaction(r) \/ InsertIssuanceRecord(r)
      BY <2>7 DEF SettleTransaction, InsertIssuanceRecord, tables
    <2>8. CASE Commit(r)
      BY <2>8 DEF Commit
    <2> QED
      BY <1>1, <2>1, <2>2, <2>3, <2>4, <2>5, <2>6, <2>7, <2>8 DEF Advance
  <1>2. ASSUME NEW r \in Requests, CommitUnacknowledged(r)
        PROVE  pc[r] = "commit" /\ ApplyWrites(r) /\ EndTx(r)
    BY <1>2 DEF CommitUnacknowledged
  <1>3. ASSUME NEW r \in Requests, Fail(r)
        PROVE  UNCHANGED <<balance, frozen, transactions, entries, issuances, call>>
    BY <1>3 DEF Fail, Rollback, tables
  <1> QED
    BY <1>1, <1>2, <1>3 DEF Next, vars

-----------------------------------------------------------------------------
\* A frozen wallet's balance does not move, whatever is in flight when it is
\* frozen: its row cannot be frozen while a posting to it is between check and
\* commit.
THEOREM FrozenUntouchedTheorem == Spec => FrozenUntouched
  <1>1. Core /\ [Next]_vars =>
          [\A w \in Wallets : frozen[w] => balance'[w] = balance[w]]_vars
    <2> SUFFICES ASSUME Core, [Next]_vars, NEW w \in Wallets, frozen[w]
                 PROVE  balance'[w] = balance[w]
      OBVIOUS
    <2>1. CASE UNCHANGED <<balance, frozen, transactions, entries, issuances, call>>
      BY <2>1
    <2>2. ASSUME NEW v \in Freezable, SetFrozen(v) PROVE balance'[w] = balance[w]
      BY <2>2 DEF SetFrozen
    <2>3. ASSUME NEW r \in Requests, pc[r] = "commit", ApplyWrites(r)
          PROVE  balance'[w] = balance[w]
      <3>1. LockShape(r) /\ ~AnyFrozen(r)
        BY <2>3 DEF Core, TxShape, LockShape, Inserted
      <3>2. w \notin RowsRead(r)
        <4>1. SUFFICES ASSUME w \in RowsRead(r) PROVE FALSE
          OBVIOUS
        <4>2. tx[r].seen[w] = [balance |-> balance[w], is_frozen |-> frozen[w]]
          BY <3>1, <4>1 DEF LockShape
        <4>3. tx[r].seen[w].is_frozen
          BY <4>2
        <4>4. \/ w = call[r].receiver
              \/ w = call[r].sender /\ call[r].op = "Transfer"
          BY <2>3, <4>1, CallType DEF RowsRead, InTx
        <4> QED
          BY <3>1, <4>3, <4>4 DEF AnyFrozen
      <3>3. lockedBy[w] # r
        BY <3>1, <3>2 DEF LockShape
      <3> QED
        BY <2>3, <3>3, CommitWrites
    <2> QED
      BY <2>1, <2>2, <2>3, StepKinds
  <1> QED
    BY <1>1, CoreInvariant, PTL DEF Spec, FrozenUntouched

-----------------------------------------------------------------------------
\* A request that has not returned has committed nothing.
Unspent == \A t \in transactions : t.id \in Requests => pc[t.id] = "done"

\* The rows of the transactions table are told apart by key and by id.
Keys == OncePerKey /\ Unspent

LEMMA KeysNext == Core /\ Keys /\ [Next]_vars => Keys'
  <1> SUFFICES ASSUME Core, Keys, [Next]_vars PROVE Keys'
    OBVIOUS
  <1>1. ASSUME NEW t \in transactions, t.id \in Requests PROVE pc'[t.id] = "done"
    <2>1. pc[t.id] = "done" /\ t.id \in Requests
      BY <1>1 DEF Keys, Unspent
    <2>2. ASSUME NEW r \in Requests, Advance(r) \/ CommitUnacknowledged(r) \/ Fail(r)
          PROVE  r # t.id /\ \E p : pc' = [pc EXCEPT ![r] = p]
      <3>1. pc[r] # "done"
        BY <2>2 DEF Advance, Validate, CheckKey, BeginTx, LockFirst, LockSecond,
             CreateTransaction, DebitSender, CreditReceiver, SettleTransaction,
             InsertIssuanceRecord, Commit, CommitUnacknowledged, Fail, InTx
      <3>2. \E p : pc' = [pc EXCEPT ![r] = p]
        BY <2>2 DEF Advance, Validate, CheckKey, BeginTx, LockFirst, LockSecond,
             CreateTransaction, DebitSender, CreditReceiver, SettleTransaction,
             InsertIssuanceRecord, Commit, CommitUnacknowledged, Fail,
             GetWalletForUpdate, PostEntry, Return, Rollback, EndTx, Goto
      <3> QED
        BY <2>1, <3>1, <3>2
    <2>3. ASSUME NEW w \in Freezable, SetFrozen(w) PROVE pc' = pc
      BY <2>3 DEF SetFrozen
    <2> QED
      BY <2>1, <2>2, <2>3 DEF Next, vars, Core, TypeOK
  <1>2. CASE UNCHANGED transactions
    BY <1>1, <1>2 DEF Keys, OncePerKey, Unspent
  <1>3. ASSUME NEW r \in Requests, pc[r] = "commit", ApplyWrites(r), EndTx(r)
        PROVE  Keys'
    <2> DEFINE row == TransactionRow(r, "SETTLED")
    <2>1. transactions' = transactions \cup {row}
      BY <1>3, CommitWrites
    <2>2. pc'[row.id] = "done" /\ row.id = r
      BY <1>3 DEF EndTx, Goto, TransactionRow, Core, TypeOK
    <2>3. Unspent'
      BY <1>1, <2>1, <2>2 DEF Unspent
    <2>4. ~DuplicateKey(r)
      BY <1>3 DEF Core, TxShape, LockShape, Inserted
    <2>5. OncePerKey'
      BY <2>1, <2>4 DEF OncePerKey, DuplicateKey, TransactionRow, Keys
    <2> QED
      BY <2>3, <2>5 DEF Keys
  <1> QED
    BY <1>2, <1>3, StepKinds DEF SetFrozen

LEMMA KeysInvariant == Spec => [](Core /\ Keys)
  <1>1. Init => Keys
    BY DEF Init, Keys, OncePerKey, Unspent
  <1> QED
    BY <1>1, KeysNext, CoreInvariant, PTL DEF Spec

\* However many requests carry one idempotency key, at most one moves money.
THEOREM OncePerKeyInvariant == Spec => []OncePerKey
  <1>1. Keys => OncePerKey
    BY DEF Keys
  <1> QED
    BY <1>1, KeysInvariant, PTL

\* What is appended to the entries of a wallet changes no balance before it.
LEMMA BeforeStays ==
  ASSUME NEW w \in Wallets, Len(entries[w]) \in Nat,
         \A i \in 1..Len(entries[w]) : entries'[w][i] = entries[w][i]
  PROVE  \A i \in 1..(Len(entries[w]) + 1) : BalanceBefore(w, i)' = BalanceBefore(w, i)
  <1> SUFFICES ASSUME NEW i \in 1..(Len(entries[w]) + 1)
               PROVE  BalanceBefore(w, i)' = BalanceBefore(w, i)
    OBVIOUS
  <1>1. CASE i = 1
    BY <1>1 DEF BalanceBefore
  <1>2. CASE i # 1
    <2>1. i - 1 \in 1..Len(entries[w])
      BY <1>2
    <2>2. entries'[w][i - 1] = entries[w][i - 1]
      BY <2>1
    <2> QED
      BY <1>2, <2>2 DEF BalanceBefore
  <1> QED
    BY <1>1, <1>2

-----------------------------------------------------------------------------
\* What a commit appends to a wallet's entries continues the chain.
LEMMA ChainNext == Core /\ EntryChain /\ [Next]_vars => EntryChain'
  <1> SUFFICES ASSUME Core, EntryChain, [Next]_vars PROVE EntryChain'
    OBVIOUS
  <1>1. CASE UNCHANGED <<balance, entries>>
    BY <1>1 DEF EntryChain, BalanceBefore
  <1>2. ASSUME NEW r \in Requests, pc[r] = "commit", ApplyWrites(r)
        PROVE  EntryChain'
    <2> SUFFICES ASSUME NEW w \in Wallets
                 PROVE  /\ \A i \in 1..Len(entries'[w]) :
                             entries'[w][i].balance_after =
                               BalanceBefore(w, i)' + SignedAmount(entries'[w][i])
                        /\ balance'[w] = BalanceBefore(w, Len(entries[w]) + 1)'
      BY DEF EntryChain
    <2>1. /\ \A i \in 1..Len(entries[w]) :
               entries[w][i].balance_after =
                 BalanceBefore(w, i) + SignedAmount(entries[w][i])
          /\ balance[w] = BalanceBefore(w, Len(entries[w]) + 1)
      BY DEF EntryChain
    <2>2. WriteShape(r)
      BY DEF Core, TxShape
    <2>3. /\ entries'[w] = entries[w] \o tx[r].posted[w]
          /\ balance'[w] = balance[w] + Change(r, w)
      BY <1>2, CommitWrites DEF ApplyWrites
    <2>4. entries[w] \in Seq(LedgerEntry) /\ tx[r].posted[w] \in Seq(LedgerEntry)
          /\ balance[w] \in Int
      BY ConstantAssumption DEF Core, TypeOK, Tx
    <2>5. CASE tx[r].posted[w] = << >> /\ Change(r, w) = 0
      BY <2>1, <2>3, <2>4, <2>5 DEF BalanceBefore
    <2>6. ASSUME NEW e, tx[r].posted[w] = <<e>>, e \in LedgerEntry,
                 e.balance_after = balance[w] + SignedAmount(e),
                 e.balance_after = balance[w] + Change(r, w)
          PROVE  /\ \A i \in 1..Len(entries'[w]) :
                      entries'[w][i].balance_after =
                        BalanceBefore(w, i)' + SignedAmount(entries'[w][i])
                 /\ balance'[w] = BalanceBefore(w, Len(entries[w]) + 1)'
      <3>1. /\ Len(entries'[w]) = Len(entries[w]) + 1
            /\ \A i \in 1..Len(entries[w]) : entries'[w][i] = entries[w][i]
            /\ entries'[w][Len(entries[w]) + 1] = e
            /\ Len(entries[w]) \in Nat
        BY <2>3, <2>4, <2>6, AppendOne
      <3>2. \A i \in 1..(Len(entries[w]) + 1) : BalanceBefore(w, i)' = BalanceBefore(w, i)
        BY <3>1, BeforeStays
      <3>3. balance'[w] = BalanceBefore(w, Len(entries[w]) + 1)'
        BY <2>3, <2>6, <3>1 DEF BalanceBefore
      <3>4. ASSUME NEW i \in 1..Len(entries'[w])
            PROVE  entries'[w][i].balance_after =
                     BalanceBefore(w, i)' + SignedAmount(entries'[w][i])
        <4>1. CASE i \in 1..Len(entries[w])
          BY <2>1, <3>1, <3>2, <4>1 DEF SignedAmount
        <4>2. CASE i = Len(entries[w]) + 1
          BY <2>1, <2>6, <3>1, <3>2, <4>2 DEF SignedAmount
        <4> QED
          BY <3>1, <4>1, <4>2
      <3> QED
        BY <3>3, <3>4
    <2>7. CASE DebitDone(r) /\ w = call[r].sender
      <3>1. tx[r].posted[w] = <<Posting(r, w, "DEBIT")>> /\ Change(r, w) = -call[r].amount
        BY <2>2, <2>7 DEF WriteShape, Change
      <3>2. Posting(r, w, "DEBIT") \in LedgerEntry
        BY <2>4, <3>1
      <3> QED
        BY <2>6, <3>1, <3>2 DEF Posting, EntryRow, SignedAmount
    <2>8. CASE ~(DebitDone(r) /\ w = call[r].sender) /\ CreditDone(r) /\ w = call[r].receiver
      <3>1. tx[r].posted[w] = <<Posting(r, w, "CREDIT")>> /\ Change(r, w) = call[r].amount
        BY <2>2, <2>8 DEF WriteShape, Change
      <3>2. Posting(r, w, "CREDIT") \in LedgerEntry
        BY <2>4, <3>1
      <3> QED
        BY <2>6, <3>1, <3>2 DEF Posting, EntryRow, SignedAmount
    <2>9. CASE ~(DebitDone(r) /\ w = call[r].sender) /\ ~(CreditDone(r) /\ w = call[r].receiver)
      BY <2>2, <2>5, <2>9 DEF WriteShape, Change
    <2> QED
      BY <2>7, <2>8, <2>9
  <1> QED
    BY <1>1, <1>2, StepKinds DEF SetFrozen

\* In every reachable state the entries of a wallet lead, without a gap, from
\* its opening balance to its balance.
THEOREM EntryChainInvariant == Spec => []EntryChain
  <1>1. Init => EntryChain
    BY DEF Init, EntryChain, BalanceBefore
  <1> QED
    BY <1>1, ChainNext, CoreInvariant, PTL DEF Spec

-----------------------------------------------------------------------------
\* Two functions that agree at every argument are equal: the forms used for
\* the balances after a transfer and after an issuance.
LEMMA TwoChanges ==
  ASSUME NEW W, NEW b \in [W -> Int], NEW c \in [W -> Int],
         NEW s \in W, NEW t \in W, s # t, NEW a \in Int,
         c[s] = b[s] - a, c[t] = b[t] + a, \A w \in W \ {s, t} : c[w] = b[w]
  PROVE  c = [b EXCEPT ![s] = @ - a, ![t] = @ + a]
  OBVIOUS

LEMMA OneChange ==
  ASSUME NEW W, NEW b \in [W -> Int], NEW c \in [W -> Int],
         NEW t \in W, NEW a \in Int,
         c[t] = b[t] + a, \A w \in W \ {t} : c[w] = b[w]
  PROVE  c = [b EXCEPT ![t] = @ + a]
  OBVIOUS

\* A debit that leaves no negative balance was covered.
LEMMA Covered ==
  ASSUME NEW b \in Int, NEW c \in Int, NEW a \in Int, NEW m \in Int,
         c = -a, b + c \in 0..m
  PROVE  b >= a
  OBVIOUS

\* A commit is one posting of the abstract ledger, valid at that very moment.
LEMMA CommitIsPosting ==
  ASSUME Core, Keys, NEW r \in Requests, pc[r] = "commit", ApplyWrites(r)
  PROVE  Abs!AbsNext
  <1> DEFINE s == call[r].sender
             rc == call[r].receiver
             a == call[r].amount
             k == call[r].key
  <1>1. WriteShape(r) /\ LockShape(r)
    BY DEF Core, TxShape
  <1>2. /\ call[r].op \in {"Transfer", "Issue"}
        /\ a \in Nat \ {0} /\ rc \in Wallets /\ s # rc
        /\ call[r].op = "Transfer" => s \in Wallets
        /\ call[r].op = "Issue" => s = NoWallet /\ k = NoKey
    BY CallType DEF InTx
  <1>3. a \in {c.amount : c \in Calls} /\ k \in KeysUsed
    BY DEF Core, TypeOK, KeysUsed
  <1>4. Abs!FreshId(r)
    BY DEF Abs!FreshId, Keys, Unspent
  <1>5. Abs!KeyUnused(s, k)
    BY <1>1 DEF LockShape, Inserted, DuplicateKey, Abs!KeyUnused
  <1>6. /\ balance' = [w \in Wallets |-> balance[w] + Change(r, w)]
        /\ transactions' = transactions \cup {TransactionRow(r, "SETTLED")}
        /\ frozen' = frozen
        /\ issuances' = issuances \cup tx[r].issued
    BY CommitWrites DEF ApplyWrites
  <1>7. ~AnyFrozen(r)
    BY <1>1 DEF LockShape, Inserted
  <1>8. ~frozen[rc]
    <2>1. rc \in RowsRead(r)
      BY DEF RowsRead, InTx
    <2>2. tx[r].seen[rc] = [balance |-> balance[rc], is_frozen |-> frozen[rc]]
      BY <1>1, <2>1 DEF LockShape
    <2> QED
      BY <1>7, <2>2 DEF AnyFrozen
  <1>9. Change(r, rc) = a /\ balance[rc] + a <= MaxBigint
    <2>1. Change(r, rc) = a
      BY <1>2 DEF Change, CreditDone
    <2>2. balance[rc] + Change(r, rc) \in 0..MaxBigint
      BY <1>1, <1>2 DEF WriteShape
    <2> QED
      BY <2>1, <2>2, ConstantAssumption
  <1>10. balance \in [Wallets -> Int] /\ balance' \in [Wallets -> Int]
    BY CommitWrites, ConstantAssumption DEF Core, TypeOK
  <1>11. CASE call[r].op = "Transfer"
    <2>1. s \in RowsRead(r) /\ s \in Wallets
      BY <1>2, <1>11 DEF RowsRead, InTx
    <2>2. ~frozen[s]
      <3>1. tx[r].seen[s] = [balance |-> balance[s], is_frozen |-> frozen[s]]
        BY <1>1, <2>1 DEF LockShape
      <3> QED
        BY <1>7, <1>11, <3>1 DEF AnyFrozen
    <2>3. Change(r, s) = -a
      BY <1>11 DEF Change, DebitDone
    <2>4. balance[s] >= a
      <3>1. balance[s] + Change(r, s) \in 0..MaxBigint
        BY <1>1, <2>1 DEF WriteShape
      <3>2. balance[s] \in Int /\ a \in Int /\ MaxBigint \in Int
        <4>1. balance[s] \in Int
          BY ONLY <1>10, <2>1
        <4>2. a \in Int
          BY ONLY <1>2
        <4> QED
          BY ONLY <4>1, <4>2, ConstantAssumption
      <3>3. Change(r, s) \in Int
        BY ONLY <2>3, <3>2
      <3> QED
        BY ONLY <2>3, <3>1, <3>2, <3>3, Covered
    <2>5. \A w \in Wallets \ {s, rc} : Change(r, w) = 0
      BY DEF Change
    <2>6. balance' = [balance EXCEPT ![s] = @ - a, ![rc] = @ + a]
      <3>1. balance'[s] = balance[s] - a
        BY ONLY <1>2, <1>6, <1>10, <2>1, <2>3
      <3>2. balance'[rc] = balance[rc] + a
        BY ONLY <1>2, <1>6, <1>9, <1>10
      <3>3. \A w \in Wallets \ {s, rc} : balance'[w] = balance[w]
        BY ONLY <1>6, <1>10, <2>5
      <3> QED
        BY ONLY <1>2, <1>10, <2>1, <3>1, <3>2, <3>3, TwoChanges
    <2>7. issuances' = issuances
      BY <1>1, <1>6, <1>11 DEF WriteShape
    <2>8. TransactionRow(r, "SETTLED") =
            [id |-> r, type |-> "TRANSFER", status |-> "SETTLED",
             sender |-> s, receiver |-> rc, amount |-> a, key |-> k]
      BY <1>11 DEF TransactionRow
    <2>9. Abs!PostTransfer(r, s, rc, a, k)
      <3>1. a > 0
        BY ONLY <1>2
      <3>2. balance[rc] + a <= MaxBigint
        BY ONLY <1>9
      <3>3. transactions' = transactions \cup
              {[id |-> r, type |-> "TRANSFER", status |-> "SETTLED",
                sender |-> s, receiver |-> rc, amount |-> a, key |-> k]}
        BY ONLY <1>6, <2>8
      <3> QED
        BY ONLY <1>2, <1>4, <1>5, <1>6, <1>8, <2>2, <2>4, <2>6, <2>7,
                <3>1, <3>2, <3>3, Zenon
           DEF Abs!PostTransfer
    <2> QED
      BY <1>2, <1>3, <2>1, <2>9 DEF Abs!AbsNext
  <1>12. CASE call[r].op = "Issue"
    <2>1. \A w \in Wallets \ {rc} : Change(r, w) = 0
      BY <1>12 DEF Change, DebitDone
    <2>2. balance' = [balance EXCEPT ![rc] = @ + a]
      <3>1. balance'[rc] = balance[rc] + a
        BY ONLY <1>2, <1>6, <1>9, <1>10
      <3>2. \A w \in Wallets \ {rc} : balance'[w] = balance[w]
        BY ONLY <1>6, <1>10, <2>1
      <3> QED
        BY ONLY <1>2, <1>10, <3>1, <3>2, OneChange
    <2>3. issuances' = issuances \cup {[txn |-> r, wallet |-> rc, amount |-> a]}
      BY <1>1, <1>6, <1>12 DEF WriteShape
    <2>4. TransactionRow(r, "SETTLED") =
            [id |-> r, type |-> "ISSUANCE", status |-> "SETTLED",
             sender |-> NoWallet, receiver |-> rc, amount |-> a, key |-> NoKey]
      BY <1>2, <1>12 DEF TransactionRow
    <2>5. Abs!PostIssue(r, rc, a)
      <3>1. a > 0
        BY ONLY <1>2
      <3>2. balance[rc] + a <= MaxBigint
        BY ONLY <1>9
      <3>3. transactions' = transactions \cup
              {[id |-> r, type |-> "ISSUANCE", status |-> "SETTLED",
                sender |-> NoWallet, receiver |-> rc, amount |-> a,
                key |-> NoKey]}
        BY ONLY <1>6, <2>4
      <3> QED
        BY ONLY <1>4, <1>6, <1>8, <2>2, <2>3, <3>1, <3>2, <3>3, Zenon
           DEF Abs!PostIssue
    <2> QED
      BY <1>2, <1>3, <2>5 DEF Abs!AbsNext
  <1> QED
    BY <1>2, <1>11, <1>12

\* The engine, with its locks, private writes and failures, implements the
\* ledger of indivisible postings.
THEOREM LedgerImplementsPostings == Spec => Postings
  <1>1. Init => Abs!AbsInit
    BY DEF Init, Abs!AbsInit
  <1>2. Core /\ Keys /\ [Next]_vars => [Abs!AbsNext]_(Abs!absVars)
    <2> SUFFICES ASSUME Core, Keys, [Next]_vars
                 PROVE  Abs!AbsNext \/ UNCHANGED Abs!absVars
      OBVIOUS
    <2>1. CASE UNCHANGED <<balance, frozen, transactions, entries, issuances, call>>
      BY <2>1 DEF Abs!absVars
    <2>2. ASSUME NEW w \in Freezable, SetFrozen(w) PROVE Abs!AbsNext
      <3>1. w \in Wallets
        BY ConstantAssumption
      <3> QED
        BY <2>2, <3>1 DEF SetFrozen, Abs!AbsNext, Abs!AbsSetFrozen
    <2>3. ASSUME NEW r \in Requests, pc[r] = "commit", ApplyWrites(r)
          PROVE  Abs!AbsNext
      BY <2>3, CommitIsPosting
    <2> QED
      BY <2>1, <2>2, <2>3, StepKinds
  <1> QED
    BY <1>1, <1>2, KeysInvariant, PTL DEF Spec, Postings, Abs!AbsSpec

-----------------------------------------------------------------------------
\* What a commit does to the entries of one wallet: nothing, or it adds the
\* request's own leg, at the balance the wallet now has.
LEMMA CommitEntries ==
  ASSUME Core, NEW r \in Requests, pc[r] = "commit", ApplyWrites(r),
         NEW w \in Wallets
  PROVE  /\ Len(entries[w]) \in Nat
         /\ \A i \in 1..Len(entries[w]) : entries'[w][i] = entries[w][i]
         /\ \/ /\ Len(entries'[w]) = Len(entries[w])
               /\ w # call[r].receiver
               /\ call[r].op = "Transfer" => w # call[r].sender
            \/ /\ Len(entries'[w]) = Len(entries[w]) + 1
               /\ IsLegOf(w, entries'[w][Len(entries[w]) + 1], TransactionRow(r, "SETTLED"))
               /\ entries'[w][Len(entries[w]) + 1].balance_after = balance'[w]
  <1> DEFINE n == Len(entries[w])
  <1>1. WriteShape(r)
    BY DEF Core, TxShape
  <1>2. /\ entries'[w] = entries[w] \o tx[r].posted[w]
        /\ balance'[w] = balance[w] + Change(r, w)
    BY CommitWrites DEF ApplyWrites
  <1>3. entries[w] \in Seq(LedgerEntry) /\ tx[r].posted[w] \in Seq(LedgerEntry)
    BY DEF Core, TypeOK, Tx
  <1>4. n \in Nat
    BY <1>3
  <1>5. ASSUME NEW e, tx[r].posted[w] = <<e>>
        PROVE  /\ Len(entries'[w]) = n + 1
               /\ \A i \in 1..n : entries'[w][i] = entries[w][i]
               /\ entries'[w][n + 1] = e
    <2>1. e \in LedgerEntry
      BY <1>3, <1>5
    <2> QED
      BY ONLY <1>2, <1>3, <1>5, <2>1, AppendOne
  <1>6. CASE DebitDone(r) /\ w = call[r].sender
    <2>1. tx[r].posted[w] = <<Posting(r, w, "DEBIT")>>
      BY <1>1, <1>6 DEF WriteShape
    <2>2. IsLegOf(w, Posting(r, w, "DEBIT"), TransactionRow(r, "SETTLED"))
      BY <1>6 DEF IsLegOf, Posting, EntryRow, TransactionRow
    <2>3. Posting(r, w, "DEBIT").balance_after = balance'[w]
      BY <1>2 DEF Posting, EntryRow
    <2> QED
      BY <1>4, <1>5, <2>1, <2>2, <2>3
  <1>7. CASE ~(DebitDone(r) /\ w = call[r].sender) /\ w = call[r].receiver
    <2>1. tx[r].posted[w] = <<Posting(r, w, "CREDIT")>>
      BY <1>1, <1>7 DEF WriteShape, CreditDone
    <2>2. IsLegOf(w, Posting(r, w, "CREDIT"), TransactionRow(r, "SETTLED"))
      BY <1>7 DEF IsLegOf, Posting, EntryRow, TransactionRow
    <2>3. Posting(r, w, "CREDIT").balance_after = balance'[w]
      BY <1>2 DEF Posting, EntryRow
    <2> QED
      BY <1>4, <1>5, <2>1, <2>2, <2>3
  <1>8. CASE ~(DebitDone(r) /\ w = call[r].sender) /\ w # call[r].receiver
    <2>1. tx[r].posted[w] = << >>
      BY <1>1, <1>8 DEF WriteShape
    <2>2. entries'[w] = entries[w]
      BY <1>2, <1>3, <2>1
    <2>3. call[r].op = "Transfer" => w # call[r].sender
      BY <1>8 DEF DebitDone
    <2> QED
      BY <1>4, <1>8, <2>2, <2>3
  <1> QED
    BY <1>6, <1>7, <1>8

\* The legs of a committed transaction stay where they are.
LEMMA PostedStays ==
  ASSUME Core, NEW r \in Requests, pc[r] = "commit", ApplyWrites(r),
         NEW w \in Wallets, NEW t, Posted(w, t)
  PROVE  Posted(w, t)'
  <1>1. PICK i \in 1..Len(entries[w]) : IsLegOf(w, entries[w][i], t)
    BY DEF Posted
  <1>2. i \in 1..Len(entries'[w]) /\ entries'[w][i] = entries[w][i]
    BY <1>1, CommitEntries
  <1>3. IsLegOf(w, entries'[w][i], t)
    BY <1>1, <1>2
  <1> QED
    BY <1>2, <1>3 DEF Posted, IsLegOf

\* Only an issuance has no payer.
PayersExist == \A t \in transactions : t.type = "TRANSFER" => t.sender \in Wallets

\* A commit adds one transaction with all its legs and none of another's.  The
\* strengthening is Keys: before its commit no row carries the request's id.
LEMMA DoubleEntryNext ==
  Core /\ Keys /\ PayersExist /\ DoubleEntry /\ [Next]_vars => PayersExist' /\ DoubleEntry'
  <1> SUFFICES ASSUME Core, Keys, PayersExist, DoubleEntry, [Next]_vars
               PROVE  PayersExist' /\ DoubleEntry'
    OBVIOUS
  <1>1. CASE UNCHANGED <<transactions, entries, issuances>>
    BY <1>1 DEF PayersExist, DoubleEntry, Posted, IsLegOf
  <1>2. ASSUME NEW r \in Requests, pc[r] = "commit", ApplyWrites(r)
        PROVE  PayersExist' /\ DoubleEntry'
    <2> DEFINE row == TransactionRow(r, "SETTLED")
    <2>1. transactions' = transactions \cup {row}
      BY <1>2, CommitWrites
    <2>2. /\ row.id = r /\ row.status = "SETTLED"
          /\ row.sender = call[r].sender /\ row.receiver = call[r].receiver
          /\ row.amount = call[r].amount
          /\ row.type = "TRANSFER" => call[r].op = "Transfer"
          /\ row.type = "ISSUANCE" => call[r].op = "Issue"
      <3>1. call[r].op \in {"Transfer", "Issue"}
        BY <1>2, CallType DEF InTx
      <3> QED
        BY <3>1 DEF TransactionRow
    <2>3. call[r].receiver \in Wallets
          /\ (call[r].op = "Transfer" => call[r].sender \in Wallets)
      BY <1>2, CallType DEF InTx
    <2>4. \A t \in transactions :
            /\ t.id # r
            /\ t.receiver \in Wallets
            /\ t.sender \in Wallets \cup {NoWallet}
            /\ t.type \in {"TRANSFER", "ISSUANCE"}
      BY <1>2 DEF Keys, Unspent, Core, TypeOK, Transaction
    <2>5. issuances' = issuances \cup tx[r].issued
      BY <1>2 DEF ApplyWrites
    <2>6. ASSUME NEW t, t = row, NEW w \in Wallets,
                 w = call[r].receiver \/ (call[r].op = "Transfer" /\ w = call[r].sender)
          PROVE  Posted(w, t)'
      <3>1. /\ Len(entries[w]) \in Nat
            /\ Len(entries'[w]) = Len(entries[w]) + 1
            /\ IsLegOf(w, entries'[w][Len(entries[w]) + 1], t)
        BY <1>2, <2>6, CommitEntries
      <3>2. Len(entries[w]) + 1 \in 1..Len(entries'[w])
        BY ONLY <3>1
      <3> QED
        BY ONLY <3>1, <3>2 DEF Posted, IsLegOf
    <2>7. ASSUME NEW t \in transactions'
          PROVE  /\ t.status = "SETTLED"
                 /\ Posted(t.receiver, t)'
                 /\ t.type = "TRANSFER" => Posted(t.sender, t)'
                 /\ t.type = "ISSUANCE" =>
                      [txn |-> t.id, wallet |-> t.receiver, amount |-> t.amount]
                        \in issuances'
      <3>1. CASE t \in transactions
        <4>1. /\ t.status = "SETTLED" /\ Posted(t.receiver, t)
              /\ t.type = "TRANSFER" => Posted(t.sender, t)
              /\ t.type = "ISSUANCE" =>
                   [txn |-> t.id, wallet |-> t.receiver, amount |-> t.amount]
                     \in issuances
          BY <3>1 DEF DoubleEntry
        <4>2. t.type = "TRANSFER" => t.sender \in Wallets
          BY <3>1 DEF PayersExist
        <4>3. Posted(t.receiver, t)'
          BY <1>2, <2>4, <3>1, <4>1, PostedStays
        <4>4. t.type = "TRANSFER" => Posted(t.sender, t)'
          BY <1>2, <4>1, <4>2, PostedStays
        <4>5. t.type = "ISSUANCE" =>
                [txn |-> t.id, wallet |-> t.receiver, amount |-> t.amount]
                  \in issuances'
          BY <2>5, <4>1
        <4> QED
          BY ONLY <4>1, <4>3, <4>4, <4>5, Zenon
      <3>2. CASE t = row
        <4>1. t.type = "ISSUANCE" =>
                 [txn |-> t.id, wallet |-> t.receiver, amount |-> t.amount]
                   \in tx[r].issued
          BY <1>2, <2>2, <3>2 DEF Core, TxShape, WriteShape
        <4> QED
          BY <2>2, <2>3, <2>5, <2>6, <3>2, <4>1
      <3> QED
        BY <2>1, <3>1, <3>2
    <2>8. ASSUME NEW w \in Wallets, NEW i \in 1..Len(entries'[w])
          PROVE  \E t \in transactions' : IsLegOf(w, entries'[w][i], t)
      <3>1. CASE i \in 1..Len(entries[w])
        <4>1. entries'[w][i] = entries[w][i]
          BY <1>2, <3>1, CommitEntries
        <4>2. \E t \in transactions : IsLegOf(w, entries[w][i], t)
          BY <3>1 DEF DoubleEntry
        <4> QED
          BY <2>1, <4>1, <4>2
      <3>2. CASE i \notin 1..Len(entries[w])
        <4>1. i = Len(entries[w]) + 1 /\ IsLegOf(w, entries'[w][i], row)
          BY <1>2, <3>2, CommitEntries
        <4> QED
          BY <2>1, <4>1
      <3> QED
        BY <3>1, <3>2
    <2>9. ASSUME NEW w \in Wallets, NEW i \in 1..Len(entries[w])
          PROVE  entries'[w][i].txn # r
      <3>1. entries'[w][i] = entries[w][i]
        BY <1>2, CommitEntries
      <3>2. PICK t \in transactions : IsLegOf(w, entries[w][i], t)
        BY DEF DoubleEntry
      <3> QED
        BY <2>4, <3>1, <3>2 DEF IsLegOf
    <2>10. ASSUME NEW w \in Wallets,
                  NEW i \in 1..Len(entries'[w]), NEW j \in 1..Len(entries'[w]),
                  entries'[w][i].txn = entries'[w][j].txn
           PROVE  i = j
      <3> DEFINE n == Len(entries[w])
      <3>1. n \in Nat /\ Len(entries'[w]) \in {n, n + 1}
        BY <1>2, CommitEntries
      <3>2. ASSUME NEW k \in 1..Len(entries'[w]), k \notin 1..n
            PROVE  k = n + 1 /\ entries'[w][k].txn = r
        <4>1. k = n + 1 /\ IsLegOf(w, entries'[w][k], row)
          BY <1>2, <3>2, CommitEntries
        <4> QED
          BY <2>2, <4>1 DEF IsLegOf
      <3>3. CASE i \in 1..n /\ j \in 1..n
        BY <1>2, <2>10, <3>3, CommitEntries DEF DoubleEntry
      <3> QED
        BY <2>9, <2>10, <3>2, <3>3
    <2>11. ASSUME NEW x \in issuances'
           PROVE  \E t \in transactions' : t.id = x.txn /\ t.type = "ISSUANCE"
      <3>1. CASE x \in issuances
        BY <2>1, <3>1 DEF DoubleEntry
      <3>2. CASE x \in tx[r].issued
        <4>1. tx[r].issued # {} => call[r].op = "Issue" /\ tx[r].issued =
                {[txn |-> r, wallet |-> call[r].receiver, amount |-> call[r].amount]}
          BY <1>2 DEF Core, TxShape, WriteShape
        <4>2. x.txn = r /\ call[r].op = "Issue"
          BY <3>2, <4>1
        <4>3. row.type = "ISSUANCE"
          BY <4>2 DEF TransactionRow
        <4> QED
          BY <2>1, <2>2, <4>2, <4>3
      <3> QED
        BY <2>5, <3>1, <3>2
    <2>12. PayersExist'
      BY <2>1, <2>2, <2>3 DEF PayersExist
    <2> QED
      BY <2>7, <2>8, <2>10, <2>11, <2>12 DEF DoubleEntry
  <1> QED
    BY <1>1, <1>2, StepKinds DEF SetFrozen

LEMMA DoubleEntryHolds == Spec => [](Core /\ Keys /\ PayersExist /\ DoubleEntry)
  <1>1. Init => PayersExist /\ DoubleEntry
    BY DEF Init, PayersExist, DoubleEntry, Posted
  <1> QED
    BY <1>1, DoubleEntryNext, KeysInvariant, PTL DEF Spec

\* Every committed transaction has both its legs, every entry belongs to one,
\* and no failure, rollback or lost acknowledgement leaves half a posting.
THEOREM DoubleEntryInvariant == Spec => []DoubleEntry
  BY DoubleEntryHolds, PTL

-----------------------------------------------------------------------------
\* What one step may tell request q: nothing, and nothing of it was committed; a
\* failure that left the books as they were; a committed payment of its key; or
\* how its own commit went.
LEMMA AnswerKinds ==
  ASSUME Core, [Next]_vars, NEW q \in Requests
  PROVE  \/ /\ result'[q] = result[q]
            /\ \A t \in transactions' \ transactions : t.id # q
         \/ /\ pc[q] # "done"
            /\ UNCHANGED <<transactions, entries, call>>
            /\ \/ \E o \in Refusals \cup {"error"} : result'[q] = Failure(o)
               \/ \E t \in GetTransactionByIdempotencyKey(q) :
                    result'[q] = [outcome |-> "replay", txn |-> t.id,
                                  sender_balance |-> 0, receiver_balance |-> 0]
         \/ /\ pc[q] = "commit" /\ ApplyWrites(q)
            /\ result'[q] = Success(q) \/ result'[q] = Failure("error")
  <1> DEFINE Told(r) ==
        \/ UNCHANGED <<result, transactions>>
        \/ /\ pc[r] # "done"
           /\ UNCHANGED <<transactions, entries, call>>
           /\ \/ \E o \in Refusals \cup {"error"} :
                   result' = [result EXCEPT ![r] = Failure(o)]
              \/ \E t \in GetTransactionByIdempotencyKey(r) :
                   result' = [result EXCEPT ![r] =
                     [outcome |-> "replay", txn |-> t.id,
                      sender_balance |-> 0, receiver_balance |-> 0]]
        \/ /\ pc[r] = "commit" /\ ApplyWrites(r)
           /\ \/ result' = [result EXCEPT ![r] = Success(r)]
              \/ result' = [result EXCEPT ![r] = Failure("error")]
  <1>1. ASSUME NEW r \in Requests, Advance(r) PROVE Told(r)
    <2>1. CASE Validate(r)
      BY <2>1 DEF Validate, Return, tables, Refusals
    <2>2. CASE CheckKey(r)
      BY <2>2 DEF CheckKey, Return, tables
    <2>3. CASE BeginTx(r)
      BY <2>3 DEF BeginTx, tables
    <2>4. CASE LockFirst(r) \/ LockSecond(r)
      BY <2>4 DEF LockFirst, LockSecond, GetWalletForUpdate, Rollback, tables, Refusals
    <2>5. CASE CreateTransaction(r)
      BY <2>5 DEF CreateTransaction, Rollback, tables, Refusals
    <2>6. CASE DebitSender(r) \/ CreditReceiver(r)
      BY <2>6 DEF DebitSender, CreditReceiver, PostEntry, Rollback, tables
    <2>7. CASE SettleTransaction(r) \/ InsertIssuanceRecord(r)
      BY <2>7 DEF SettleTransaction, InsertIssuanceRecord, tables
    <2>8. CASE Commit(r)
      BY <2>8 DEF Commit
    <2> QED
      BY <1>1, <2>1, <2>2, <2>3, <2>4, <2>5, <2>6, <2>7, <2>8 DEF Advance
  <1>2. ASSUME NEW r \in Requests, CommitUnacknowledged(r) PROVE Told(r)
    BY <1>2 DEF CommitUnacknowledged
  <1>3. ASSUME NEW r \in Requests, Fail(r) PROVE Told(r)
    BY <1>3 DEF Fail, Rollback, tables, InTx
  <1>4. result \in [Requests -> Result]
    BY DEF Core, TypeOK
  <1>5. CASE UNCHANGED <<result, transactions>>
    BY <1>5
  <1>6. ASSUME NEW r \in Requests, Told(r), r # q
        PROVE  /\ result'[q] = result[q]
               /\ \A t \in transactions' \ transactions : t.id # q
    <2>1. result'[q] = result[q]
      BY <1>4, <1>6
    <2>2. transactions' = transactions \/ transactions' = transactions \cup {TransactionRow(r, "SETTLED")}
      BY <1>6, CommitWrites
    <2> QED
      BY <1>6, <2>1, <2>2 DEF TransactionRow
  <1>7. ASSUME Told(q), ~UNCHANGED <<result, transactions>>
        PROVE  \/ /\ pc[q] # "done"
                  /\ UNCHANGED <<transactions, entries, call>>
                  /\ \/ \E o \in Refusals \cup {"error"} : result'[q] = Failure(o)
                     \/ \E t \in GetTransactionByIdempotencyKey(q) :
                          result'[q] = [outcome |-> "replay", txn |-> t.id,
                                        sender_balance |-> 0, receiver_balance |-> 0]
               \/ /\ pc[q] = "commit" /\ ApplyWrites(q)
                  /\ result'[q] = Success(q) \/ result'[q] = Failure("error")
    BY <1>4, <1>7
  <1>8. \/ UNCHANGED <<result, transactions>>
        \/ \E r \in Requests : Told(r)
    BY <1>1, <1>2, <1>3 DEF Next, vars, SetFrozen
  <1> QED
    BY <1>5, <1>6, <1>7, <1>8

\* What is on the books stays on them: rows are only added.
LEMMA BooksGrow ==
  ASSUME Core, [Next]_vars
  PROVE  /\ call' = call
         /\ transactions \subseteq transactions'
         /\ \A w \in Wallets : \A id, b : RecordedAfter(w, id, b) => RecordedAfter(w, id, b)'
  <1>1. CASE UNCHANGED <<transactions, entries, call>>
    BY <1>1 DEF RecordedAfter
  <1>2. ASSUME NEW r \in Requests, pc[r] = "commit", ApplyWrites(r)
        PROVE  /\ call' = call
               /\ transactions \subseteq transactions'
               /\ \A w \in Wallets : \A id, b : RecordedAfter(w, id, b) => RecordedAfter(w, id, b)'
    <2>1. call' = call /\ transactions \subseteq transactions'
      BY <1>2, CommitWrites
    <2>2. ASSUME NEW w \in Wallets, NEW id, NEW b, RecordedAfter(w, id, b)
          PROVE  RecordedAfter(w, id, b)'
      <3>1. PICK i \in 1..Len(entries[w]) :
              entries[w][i].txn = id /\ entries[w][i].balance_after = b
        BY <2>2 DEF RecordedAfter
      <3>2. i \in 1..Len(entries'[w]) /\ entries'[w][i] = entries[w][i]
        BY <1>2, <3>1, CommitEntries
      <3> QED
        BY <3>1, <3>2 DEF RecordedAfter
    <2> QED
      BY <2>1, <2>2
  <1> QED
    BY <1>1, <1>2, StepKinds DEF SetFrozen

\* The part of OutcomeTruthful about one request.
Truthful(r) ==
  /\ result[r].outcome = "ok" =>
       \E t \in transactions :
         /\ t.id = r
         /\ RecordedAfter(t.receiver, r, result[r].receiver_balance)
         /\ t.type = "TRANSFER" =>
              RecordedAfter(t.sender, r, result[r].sender_balance)
  /\ result[r].outcome = "replay" =>
       \E t \in transactions :
         /\ t.id = result[r].txn
         /\ t.sender = call[r].sender /\ t.key = call[r].key
  /\ result[r].outcome \in Refusals => \A t \in transactions : t.id # r

\* What was true when it was said stays true, and each of the three answers is
\* true when it is given.
LEMMA TruthfulNext ==
  ASSUME Core, Keys, PayersExist, [Next]_vars, NEW q \in Requests, Truthful(q)
  PROVE  Truthful(q)'
  <1>1. \A t \in transactions : t.receiver \in Wallets
    BY DEF Core, TypeOK, Transaction
  <1>2. CASE result'[q] = result[q] /\ \A t \in transactions' \ transactions : t.id # q
    <2>1. ASSUME result[q].outcome = "ok"
          PROVE  \E t \in transactions' :
                   /\ t.id = q
                   /\ RecordedAfter(t.receiver, q, result[q].receiver_balance)'
                   /\ t.type = "TRANSFER" =>
                        RecordedAfter(t.sender, q, result[q].sender_balance)'
      <3>1. PICK t \in transactions :
              /\ t.id = q
              /\ RecordedAfter(t.receiver, q, result[q].receiver_balance)
              /\ t.type = "TRANSFER" =>
                   RecordedAfter(t.sender, q, result[q].sender_balance)
        BY <2>1 DEF Truthful
      <3>2. t \in transactions' /\ t.receiver \in Wallets
            /\ (t.type = "TRANSFER" => t.sender \in Wallets)
        BY <1>1, BooksGrow DEF PayersExist
      <3>3. RecordedAfter(t.receiver, q, result[q].receiver_balance)'
        BY <1>2, <3>1, <3>2, BooksGrow DEF RecordedAfter
      <3>4. ASSUME t.type = "TRANSFER"
            PROVE  RecordedAfter(t.sender, q, result[q].sender_balance)'
        <4>1. t.sender \in Wallets /\ RecordedAfter(t.sender, q, result[q].sender_balance)
          BY <3>1, <3>2, <3>4
        <4>2. PICK b : b = result[q].sender_balance
          OBVIOUS
        <4>3. RecordedAfter(t.sender, q, b)'
          BY <4>1, <4>2, BooksGrow
        <4> QED
          BY ONLY <1>2, <4>2, <4>3, Zenon DEF RecordedAfter
      <3> QED
        BY <3>1, <3>2, <3>3, <3>4
    <2>2. ASSUME result[q].outcome = "replay"
          PROVE  \E t \in transactions' :
                   /\ t.id = result[q].txn
                   /\ t.sender = call'[q].sender /\ t.key = call'[q].key
      BY <2>2, BooksGrow DEF Truthful
    <2>3. ASSUME result[q].outcome \in Refusals PROVE \A t \in transactions' : t.id # q
      BY <1>2, <2>3 DEF Truthful
    <2> QED
      BY <1>2, <2>1, <2>2, <2>3 DEF Truthful
  <1>3. ASSUME pc[q] # "done", transactions' = transactions,
               NEW o \in Refusals \cup {"error"}, result'[q] = Failure(o)
        PROVE  Truthful(q)'
    BY <1>3 DEF Truthful, Failure, Refusals, Keys, Unspent
  <1>4. ASSUME UNCHANGED <<transactions, call>>,
               NEW t \in GetTransactionByIdempotencyKey(q),
               result'[q] = [outcome |-> "replay", txn |-> t.id,
                             sender_balance |-> 0, receiver_balance |-> 0]
        PROVE  Truthful(q)'
    BY <1>4 DEF Truthful, GetTransactionByIdempotencyKey, Refusals
  <1>5. ASSUME pc[q] = "commit", ApplyWrites(q), result'[q] = Failure("error")
        PROVE  Truthful(q)'
    BY <1>5 DEF Truthful, Failure, Refusals
  <1>6. ASSUME pc[q] = "commit", ApplyWrites(q), result'[q] = Success(q)
        PROVE  Truthful(q)'
    <2> DEFINE row == TransactionRow(q, "SETTLED")
    <2>1. /\ call[q].receiver \in Wallets
          /\ call[q].op \in {"Transfer", "Issue"}
          /\ call[q].op = "Transfer" => call[q].sender \in Wallets
      BY <1>6, CallType DEF InTx
    <2>2. ASSUME NEW w \in Wallets,
                 w = call[q].receiver \/ (call[q].op = "Transfer" /\ w = call[q].sender)
          PROVE  RecordedAfter(w, q, balance[w])'
      <3>1. /\ Len(entries[w]) \in Nat
            /\ Len(entries'[w]) = Len(entries[w]) + 1
            /\ IsLegOf(w, entries'[w][Len(entries[w]) + 1], row)
            /\ entries'[w][Len(entries[w]) + 1].balance_after = balance'[w]
        BY <1>6, <2>2, CommitEntries
      <3>2. Len(entries[w]) + 1 \in 1..Len(entries'[w])
        BY ONLY <3>1
      <3>3. entries'[w][Len(entries[w]) + 1].txn = q
        BY <3>1 DEF IsLegOf, TransactionRow
      <3> QED
        BY ONLY <3>1, <3>2, <3>3 DEF RecordedAfter
    <2>3. balance' = [w \in Wallets |-> balance[w] + Change(q, w)]
      BY <1>6, CommitWrites
    <2>4. /\ result'[q].receiver_balance = balance'[call[q].receiver]
          /\ call[q].op = "Transfer" => result'[q].sender_balance = balance'[call[q].sender]
      BY <1>6, <2>1, <2>3, SuccessType
    <2>5. result'[q].outcome = "ok"
      BY <1>6 DEF Success
    <2>6. row \in transactions' /\ row.id = q /\ row.receiver = call[q].receiver
          /\ row.sender = call[q].sender /\ (row.type = "TRANSFER" => call[q].op = "Transfer")
      BY <1>6, <2>1, CommitWrites DEF TransactionRow
    <2>7. PICK rc \in Wallets : rc = call[q].receiver
      BY <2>1
    <2>8. RecordedAfter(rc, q, result[q].receiver_balance)'
      BY <2>2, <2>4, <2>7 DEF RecordedAfter
    <2>9. ASSUME call[q].op = "Transfer", NEW s \in Wallets, s = call[q].sender
          PROVE  RecordedAfter(s, q, result[q].sender_balance)'
      BY <2>2, <2>4, <2>9 DEF RecordedAfter
    <2>10. PICK t \in transactions' :
             /\ t.id = q /\ t.receiver = rc /\ t.sender = call[q].sender
             /\ t.type = "TRANSFER" => call[q].op = "Transfer"
      BY <2>6, <2>7
    <2>11. t.type = "TRANSFER" => RecordedAfter(t.sender, q, result[q].sender_balance)'
      BY <2>1, <2>9, <2>10
    <2>12. RecordedAfter(t.receiver, q, result[q].receiver_balance)'
      BY <2>8, <2>10
    <2> QED
      BY <2>5, <2>10, <2>11, <2>12 DEF Truthful, Refusals
  <1> QED
    BY <1>2, <1>3, <1>4, <1>5, <1>6, AnswerKinds

\* A caller told "ok" has its payment on the books at the balances it was told,
\* a replay is of a payment of its own key, and a refused call moved nothing.
THEOREM OutcomeTruthfulInvariant == Spec => []OutcomeTruthful
  <1>1. OutcomeTruthful <=> \A r \in Requests : Truthful(r)
    BY DEF OutcomeTruthful, Truthful
  <1>2. Init => OutcomeTruthful
    BY DEF Init, OutcomeTruthful, Failure, Refusals
  <1>3. Core /\ Keys /\ PayersExist /\ OutcomeTruthful /\ [Next]_vars => OutcomeTruthful'
    BY TruthfulNext DEF OutcomeTruthful, Truthful
  <1> QED
    BY <1>2, <1>3, DoubleEntryHolds, PTL DEF Spec

-----------------------------------------------------------------------------
(***************************************************************************)
(* Books: the engine is not alone.  The seed program writes to its tables    *)
(* and takes its row locks, and a browser reads a history page by page.      *)
(***************************************************************************)

\* The seed program's variables, and what it has reached at each statement: from
\* the SELECT on a wallet that has too little, from the INSERT on its row lock, and
\* with it a balance that is the one read unless the program came too late.
SeedShape ==
  /\ seed \in [pc: {"exited", "next", "begin", "insert", "commit"},
               run: 0..MaxRuns, todo: SUBSET DOMAIN Targets,
               wallet: Wallets \cup {NoWallet}, current: Nat, now: 0..clock]
  /\ seed.pc # "exited" => seed.run > 0
  /\ seed.pc \in {"begin", "insert", "commit"} =>
       /\ seed.wallet \in seed.todo
       /\ seed.current < Targets[seed.wallet]
  /\ seed.pc = "commit" =>
       /\ lockedBy[seed.wallet] = Seeder
       /\ overtaken \/ balance[seed.wallet] = seed.current

\* The program has inserted no transaction for a wallet it still has to do, in
\* this run or in one to come.
SeedFresh ==
  \A t \in transactions : t.id \in SeedIds =>
    /\ t.id[1] <= seed.run
    /\ t.id[1] = seed.run /\ seed.pc # "exited" => t.id[2] \notin seed.todo

\* What is on the books for ever, and what the program needs of its own state.
Shared == Core /\ SeedShape /\ SeedFresh

\* A step of the engine takes and frees the locks of requests only, and the
\* clock is not set back.
LEMMA EngineLocks ==
  ASSUME Core, [Next]_vars
  PROVE  /\ clock' \in Nat /\ clock <= clock'
         /\ \A w \in Wallets : \A h :
              h \notin Requests \cup {Nobody} => (lockedBy'[w] = h <=> lockedBy[w] = h)
  <1> DEFINE Kept(r) ==
        /\ clock' = clock \/ BeginTx(r)
        /\ \/ lockedBy' = lockedBy
           \/ \E v \in Wallets : lockedBy[v] = Nobody /\ lockedBy' = [lockedBy EXCEPT ![v] = r]
           \/ lockedBy' = [v \in Wallets |-> IF lockedBy[v] = r THEN Nobody ELSE lockedBy[v]]
  <1>1. ASSUME NEW r \in Requests, Advance(r) PROVE Kept(r)
    <2>1. CASE Validate(r)
      BY <2>1 DEF Validate, Return
    <2>2. CASE CheckKey(r)
      BY <2>2 DEF CheckKey, Return
    <2>3. CASE BeginTx(r)
      BY <2>3 DEF BeginTx
    <2>4. CASE LockFirst(r) \/ LockSecond(r)
      BY <2>4 DEF LockFirst, LockSecond, GetWalletForUpdate, Rollback, EndTx
    <2>5. CASE CreateTransaction(r)
      BY <2>5 DEF CreateTransaction, Rollback, EndTx
    <2>6. CASE DebitSender(r) \/ CreditReceiver(r)
      BY <2>6 DEF DebitSender, CreditReceiver, PostEntry, Rollback, EndTx
    <2>7. CASE SettleTransaction(r) \/ InsertIssuanceRecord(r)
      BY <2>7 DEF SettleTransaction, InsertIssuanceRecord
    <2>8. CASE Commit(r)
      BY <2>8 DEF Commit, EndTx, ApplyWrites
    <2> QED
      BY <1>1, <2>1, <2>2, <2>3, <2>4, <2>5, <2>6, <2>7, <2>8 DEF Advance
  <1>2. ASSUME NEW r \in Requests, CommitUnacknowledged(r) \/ Fail(r) PROVE Kept(r)
    BY <1>2 DEF CommitUnacknowledged, Fail, EndTx, ApplyWrites, Rollback
  <1>3. ASSUME NEW r \in Requests, Kept(r), NEW w \in Wallets, NEW h, h \notin Requests \cup {Nobody}
        PROVE  lockedBy'[w] = h <=> lockedBy[w] = h
    BY <1>3 DEF Core, TypeOK
  <1>4. CASE UNCHANGED <<lockedBy, clock>>
    BY <1>4 DEF Core, TypeOK
  <1>5. CASE \E r \in Requests : Kept(r)
    <2>1. clock \in Nat
      BY DEF Core, TypeOK
    <2>2. clock' = clock \/ \E d \in Ticks : clock' = clock + d
      BY <1>5 DEF BeginTx
    <2> QED
      BY <1>3, <1>5, <2>1, <2>2, ConstantAssumption
  <1> QED
    BY <1>1, <1>2, <1>4, <1>5 DEF Next, vars, SetFrozen

\* Whoever is not a request leaves the requests as they are as long as he keeps
\* off their locks, the rows they have locked and their keys.
LEMMA GuestCore ==
  ASSUME Core, TypeOK', UNCHANGED <<frozen, call, pc, tx>>,
         \A q \in Requests : \A w \in Wallets : lockedBy'[w] = q <=> lockedBy[w] = q,
         \A w \in Wallets : lockedBy[w] \in Requests => balance'[w] = balance[w],
         \A t \in transactions' : t \in transactions \/ t.key = NoKey
  PROVE  Core'
  <1>1. ASSUME NEW q \in Requests PROVE TxShape(q)'
    <2>1. ~DuplicateKey(q) => ~DuplicateKey(q)'
      BY DEF DuplicateKey
    <2>2. \A w \in Wallets : balance'[w] \in 0..MaxBigint
      BY DEF TypeOK
    <2>3. \A w \in Wallets : lockedBy[w] = q =>
            balance'[w] = balance[w] /\ frozen'[w] = frozen[w]
      OBVIOUS
    <2> QED
      BY <2>1, <2>2, <2>3, Frame DEF Core
  <1> QED
    BY <1>1 DEF Core

\* What SeedCommit writes: an issuance of the missing amount to a row the program
\* has locked, under an id that nobody has used.
LEMMA SeedWrites ==
  ASSUME Shared, SeedCommit
  PROVE  /\ seed.wallet \in Wallets /\ lockedBy[seed.wallet] = Seeder
         /\ seed.current \in Nat /\ issueCents \in Nat \ {0}
         /\ seed.current + issueCents \in 0..MaxBigint
         /\ SeedId \in SeedIds /\ SeedId \in Ids /\ SeedId \notin Requests
         /\ \A t \in transactions : t.id # SeedId
         /\ SeedTransaction \in Transaction /\ SeedEntry \in LedgerEntry
         /\ transactions' = transactions \cup {SeedTransaction}
         /\ entries' = [entries EXCEPT ![seed.wallet] = Append(@, SeedEntry)]
         /\ balance' = [balance EXCEPT ![seed.wallet] = seed.current + issueCents]
         /\ issuances' = issuances \cup
              {[txn |-> SeedId, wallet |-> seed.wallet, amount |-> issueCents]}
         /\ UNCHANGED <<frozen, clock, call, pc, tx, result, overtaken>>
  <1>1. /\ seed.pc = "commit" /\ seed.run \in 1..MaxRuns /\ seed.now \in Nat
        /\ seed.wallet \in seed.todo /\ seed.wallet \in DOMAIN Targets
        /\ seed.current \in Nat /\ seed.current < Targets[seed.wallet]
        /\ lockedBy[seed.wallet] = Seeder
    BY TargetsAssumption DEF Shared, SeedShape, SeedCommit, Core, TypeOK
  <1>2. seed.wallet \in Wallets /\ Targets[seed.wallet] \in 0..MaxBigint
    BY <1>1, TargetsAssumption
  <1>3. issueCents \in Nat \ {0} /\ seed.current + issueCents \in 0..MaxBigint
    BY <1>1, <1>2, ConstantAssumption DEF issueCents
  <1>4. SeedId \in SeedIds /\ SeedId[1] = seed.run /\ SeedId[2] = seed.wallet
    BY <1>1, <1>2 DEF SeedId, SeedIds
  <1>5. SeedId \in Ids /\ SeedId \notin Requests
    BY <1>4, TargetsAssumption
  <1>6. \A t \in transactions : t.id # SeedId
    BY <1>1, <1>4 DEF Shared, SeedFresh
  <1>7. SeedTransaction \in Transaction
    BY <1>2, <1>3, <1>5 DEF SeedTransaction, Transaction, KeysUsed
  <1>8. SeedEntry \in LedgerEntry
    BY <1>1, <1>2, <1>3, <1>5 DEF SeedEntry, LedgerEntry
  <1> QED
    BY <1>1, <1>2, <1>3, <1>4, <1>5, <1>6, <1>7, <1>8 DEF SeedCommit

\* Freeing the program's lock keeps everyone else's.
LEMMA UnlockedType ==
  ASSUME Core
  PROVE  /\ Unlocked \in [Wallets -> Holders \cup {Nobody}]
         /\ \A q \in Requests : \A w \in Wallets : Unlocked[w] = q <=> lockedBy[w] = q
  BY ConstantAssumption, TargetsAssumption DEF Core, TypeOK, Unlocked

LEMMA SeedCore ==
  ASSUME Shared, SeedNext
  PROVE  Core'
  <1> USE DEF Shared
  <1>1. CASE UNCHANGED vars
    BY <1>1, CoreNext
  <1>2. CASE SeedBegin
    <2>1. UNCHANGED <<balance, frozen, transactions, entries, issuances, lockedBy, call, pc, tx, result>>
          /\ \E d \in Ticks : clock' = clock + d
      BY <1>2 DEF SeedBegin, tables
    <2>2. TypeOK'
      BY <2>1, ConstantAssumption DEF Core, TypeOK
    <2> QED
      BY <2>1, <2>2, GuestCore
  <1>3. CASE SeedInsert
    <2>1. UNCHANGED <<balance, frozen, transactions, entries, issuances, clock, call, pc, tx, result>>
      BY <1>3 DEF SeedInsert, tables
    <2>2. /\ lockedBy[seed.wallet] = Nobody
          /\ lockedBy' = [lockedBy EXCEPT ![seed.wallet] = Seeder]
      BY <1>3 DEF SeedInsert
    <2>3. lockedBy \in [Wallets -> Holders \cup {Nobody}]
      BY DEF Core, TypeOK
    <2>4. lockedBy' \in [Wallets -> Holders \cup {Nobody}]
      BY <2>2, <2>3, TargetsAssumption
    <2>5. TypeOK'
      BY <2>1, <2>4 DEF Core, TypeOK
    <2>6. \A q \in Requests : \A w \in Wallets : lockedBy'[w] = q <=> lockedBy[w] = q
      BY <2>2, <2>3, ConstantAssumption, TargetsAssumption
    <2> QED
      BY <2>1, <2>5, <2>6, GuestCore
  <1>4. CASE SeedFails
    <2>1. /\ UNCHANGED <<balance, frozen, transactions, entries, issuances, clock, call, pc, tx, result>>
          /\ lockedBy' = Unlocked
      BY <1>4 DEF SeedFails, tables
    <2>2. TypeOK'
      BY <2>1, UnlockedType DEF Core, TypeOK
    <2> QED
      BY <2>1, <2>2, UnlockedType, GuestCore
  <1>5. CASE SeedCommit
    <2>1. lockedBy' = Unlocked
      BY <1>5 DEF SeedCommit
    <2>2. entries' \in [Wallets -> Seq(LedgerEntry)]
      <3>1. entries \in [Wallets -> Seq(LedgerEntry)]
        BY DEF Core, TypeOK
      <3>2. Append(entries[seed.wallet], SeedEntry) \in Seq(LedgerEntry)
        BY <1>5, <3>1, SeedWrites
      <3> QED
        BY <1>5, <3>1, <3>2, SeedWrites
    <2>3. issuances' \subseteq Issuance /\ transactions' \subseteq Transaction
      BY <1>5, SeedWrites DEF Core, TypeOK, Issuance
    <2>4. balance' \in [Wallets -> 0..MaxBigint]
      BY <1>5, SeedWrites DEF Core, TypeOK
    <2>5. TypeOK'
      BY SMTT(30), <1>5, <2>1, <2>2, <2>3, <2>4, SeedWrites, UnlockedType DEF Core, TypeOK
    <2>6. \A t \in transactions' : t \in transactions \/ t.key = NoKey
      BY <1>5, SeedWrites DEF SeedTransaction
    <2>7. \A w \in Wallets : lockedBy[w] \in Requests => balance'[w] = balance[w]
      BY <1>5, SeedWrites, TargetsAssumption DEF Core, TypeOK
    <2> QED
      BY <1>5, <2>1, <2>5, <2>6, <2>7, SeedWrites, UnlockedType, GuestCore
  <1> QED
    BY <1>1, <1>2, <1>3, <1>4, <1>5 DEF SeedNext, SeedAdvance, SeedStart, SeedRead, SeedDone

\* A step of the engine leaves the row that the program has locked alone, and
\* names what it inserts after a request.
LEMMA EngineKeepsSeed ==
  ASSUME Shared, [Next]_vars, UNCHANGED seedVars
  PROVE  SeedShape' /\ SeedFresh'
  <1>1. UNCHANGED <<seed, overtaken>>
    BY DEF seedVars
  <1>2. clock' \in Nat /\ clock \in Nat /\ clock <= clock'
    BY EngineLocks DEF Shared, Core, TypeOK
  <1>3. \A w \in Wallets : lockedBy'[w] = Seeder <=> lockedBy[w] = Seeder
    BY EngineLocks, ConstantAssumption, TargetsAssumption DEF Shared
  <1>4. \A w \in Wallets : lockedBy[w] = Seeder => balance'[w] = balance[w]
    <2>1. ASSUME NEW r \in Requests, pc[r] = "commit", ApplyWrites(r),
                 NEW w \in Wallets, lockedBy[w] = Seeder
          PROVE  balance'[w] = balance[w]
      BY <2>1, CommitWrites, TargetsAssumption DEF Shared
    <2> QED
      BY <2>1, StepKinds DEF Shared, SetFrozen
  <1>5. \A t \in transactions' : t \in transactions \/ t.id \in Requests
    <2>1. ASSUME NEW r \in Requests, pc[r] = "commit", ApplyWrites(r)
          PROVE  \A t \in transactions' : t \in transactions \/ t.id \in Requests
      BY <2>1, CommitWrites DEF Shared, TransactionRow
    <2> QED
      BY <2>1, StepKinds DEF Shared, SetFrozen
  <1>6. SeedShape'
    <2>1. seed.now \in 0..clock'
      BY <1>2 DEF Shared, SeedShape
    <2>2. seed.pc = "commit" => seed.wallet \in Wallets
      BY TargetsAssumption DEF Shared, SeedShape
    <2> QED
      BY <1>1, <1>3, <1>4, <2>1, <2>2 DEF Shared, SeedShape
  <1>7. SeedFresh'
    BY <1>1, <1>5, TargetsAssumption DEF Shared, SeedFresh
  <1> QED
    BY <1>6, <1>7

\* Each step of the program keeps what it has reached; a new run starts with a
\* new number, and a wallet that is done leaves the list.
LEMMA SeedKeepsSeed ==
  ASSUME Shared, SeedNext
  PROVE  SeedShape' /\ SeedFresh'
  <1>1. /\ clock \in Nat /\ MaxRuns \in Nat /\ seed.run \in 0..MaxRuns
        /\ \A w \in Wallets : balance[w] \in 0..MaxBigint
        /\ lockedBy \in [Wallets -> Holders \cup {Nobody}]
        /\ seed.now \in 0..clock
        /\ seed \in [pc: {"exited", "next", "begin", "insert", "commit"},
                     run: 0..MaxRuns, todo: SUBSET DOMAIN Targets,
                     wallet: Wallets \cup {NoWallet}, current: Nat, now: 0..clock]
    BY TargetsAssumption DEF Shared, Core, TypeOK, SeedShape
  <1>2. ASSUME seed' = Exited(seed.run), clock' = clock, UNCHANGED overtaken,
               \A t \in transactions' : t \in transactions \/ (t.id = SeedId /\ seed.run \in Nat)
        PROVE  SeedShape' /\ SeedFresh'
    <2>1. SeedShape'
      BY <1>1, <1>2 DEF SeedShape, Exited, NotRunning
    <2>2. SeedFresh'
      BY <1>1, <1>2 DEF Shared, SeedFresh, SeedId, Exited, NotRunning
    <2> QED
      BY <2>1, <2>2
  <1>3. CASE SeedStart
    <2>1. /\ seed.pc = "exited" /\ seed.run < MaxRuns
          /\ UNCHANGED <<balance, transactions, lockedBy, clock, overtaken>>
      BY <1>3 DEF SeedStart, vars
    <2>2. PICK todo \in SUBSET DOMAIN Targets :
            seed' = [seed EXCEPT !.pc = "next", !.run = @ + 1, !.todo = todo]
      <3>1. {w \in DOMAIN Targets : Targets[w] # 0} \in SUBSET DOMAIN Targets
        OBVIOUS
      <3> QED
        BY <1>3, <3>1 DEF SeedStart
    <2>3. SeedShape'
      <3>1. seed.run + 1 \in 0..MaxRuns /\ seed.run + 1 > 0
        BY <1>1, <2>1
      <3>2. seed'.pc = "next" /\ seed'.run = seed.run + 1
        BY <1>1, <2>2
      <3>3. seed' \in [pc: {"exited", "next", "begin", "insert", "commit"},
                      run: 0..MaxRuns, todo: SUBSET DOMAIN Targets,
                      wallet: Wallets \cup {NoWallet}, current: Nat, now: 0..clock']
        BY <1>1, <2>1, <2>2, <3>1
      <3> QED
        BY <3>1, <3>2, <3>3 DEF SeedShape
    <2>4. SeedFresh'
      BY <1>1, <2>1, <2>2 DEF Shared, SeedFresh, SeedIds
    <2> QED
      BY <2>3, <2>4
  <1>4. ASSUME NEW w \in DOMAIN Targets, SeedRead(w)
        PROVE  SeedShape' /\ SeedFresh'
    <2>1. /\ seed.pc = "next" /\ w \in seed.todo /\ w \in Wallets
          /\ UNCHANGED <<balance, transactions, lockedBy, clock, overtaken>>
      BY <1>4, TargetsAssumption DEF SeedRead, vars
    <2>2. CASE seed' = [seed EXCEPT !.todo = @ \ {w}]
      BY <1>1, <2>1, <2>2 DEF Shared, SeedShape, SeedFresh
    <2>3. CASE /\ balance[w] < Targets[w]
               /\ seed' = [seed EXCEPT !.pc = "begin", !.wallet = w, !.current = balance[w]]
      <3>1. balance[w] \in Nat
        BY <1>1, <2>1, ConstantAssumption
      <3> QED
        BY <1>1, <2>1, <2>3, <3>1 DEF Shared, SeedShape, SeedFresh
    <2>4. balance[w] < Targets[w] \/ balance[w] >= Targets[w]
      BY <1>1, <2>1, TargetsAssumption, ConstantAssumption
    <2> QED
      BY <1>4, <2>2, <2>3, <2>4 DEF SeedRead
  <1>5. CASE SeedBegin
    <2>1. /\ seed.pc = "begin" /\ \E d \in Ticks : clock' = clock + d
          /\ UNCHANGED <<balance, transactions, lockedBy, overtaken>>
          /\ seed' = [seed EXCEPT !.pc = "insert", !.now = clock']
      BY <1>5 DEF SeedBegin, tables
    <2>2. clock' \in 0..clock'
      BY <1>1, <2>1, ConstantAssumption
    <2>3. SeedShape'
      BY <1>1, <2>1, <2>2 DEF Shared, SeedShape
    <2> QED
      BY <1>1, <2>1, <2>3 DEF Shared, SeedFresh
  <1>6. CASE SeedInsert
    <2>1. /\ seed.pc = "insert" /\ seed.wallet \in Wallets
          /\ lockedBy'[seed.wallet] = Seeder
          /\ UNCHANGED <<balance, transactions, clock>>
      BY <1>1, <1>6, TargetsAssumption DEF SeedInsert, tables, Shared, SeedShape
    <2>2. seed' = [seed EXCEPT !.pc = "commit"]
          /\ overtaken' = (overtaken \/ balance[seed.wallet] # seed.current)
      BY <1>6 DEF SeedInsert
    <2>3. SeedShape'
      BY <1>1, <2>1, <2>2 DEF Shared, SeedShape
    <2> QED
      BY <2>1, <2>2, <2>3 DEF Shared, SeedFresh
  <1>7. CASE SeedCommit
    <2>1. /\ \A t \in transactions' : t \in transactions \/ t.id = SeedId
          /\ UNCHANGED <<clock, overtaken>> /\ seed.pc = "commit"
      BY <1>7, SeedWrites DEF SeedTransaction, SeedCommit
    <2>2. CASE seed' = Exited(seed.run)
      BY <1>1, <1>2, <2>1, <2>2
    <2>3. CASE seed' = [seed EXCEPT !.pc = "next", !.todo = @ \ {seed.wallet}]
      <3>1. SeedShape'
        BY <1>1, <2>1, <2>3 DEF Shared, SeedShape
      <3>2. SeedFresh'
        BY <1>1, <2>1, <2>3 DEF Shared, SeedFresh, SeedId
      <3> QED
        BY <3>1, <3>2
    <2> QED
      BY <1>7, <2>2, <2>3 DEF SeedCommit
  <1>8. CASE SeedDone \/ SeedFails
    <2>1. seed' = Exited(seed.run) /\ UNCHANGED <<transactions, clock, overtaken>>
      BY <1>8 DEF SeedDone, SeedFails, vars, tables
    <2> QED
      BY <1>1, <1>2, <2>1
  <1> QED
    BY <1>3, <1>4, <1>5, <1>6, <1>7, <1>8 DEF SeedNext, SeedAdvance

LEMMA SharedInit == BooksInit => Shared
  <1> SUFFICES ASSUME BooksInit PROVE Shared
    OBVIOUS
  <1>1. Core
    BY CoreInit DEF BooksInit
  <1>2. SeedShape /\ SeedFresh
    BY TargetsAssumption DEF BooksInit, Init, SeedInit, NotRunning, SeedShape, SeedFresh
  <1> QED
    BY <1>1, <1>2 DEF Shared

\* The kinds of steps there are in the database.
LEMMA BooksSteps ==
  [BooksNext]_BooksVars =>
    \/ [Next]_vars /\ UNCHANGED <<readVars, seedVars>>
    \/ ReadNext /\ UNCHANGED <<vars, seedVars>>
    \/ SeedNext /\ UNCHANGED readVars
  BY DEF BooksNext, BooksVars, ReadNext, ReadAdvance, FindByID, CountRows, SelectPage, ReadFails

LEMMA SharedNext == Shared /\ [BooksNext]_BooksVars => Shared'
  <1> SUFFICES ASSUME Shared, [BooksNext]_BooksVars PROVE Shared'
    OBVIOUS
  <1>1. CASE [Next]_vars /\ UNCHANGED seedVars
    BY <1>1, CoreNext, EngineKeepsSeed DEF Shared
  <1>2. CASE UNCHANGED <<vars, seedVars>>
    BY <1>1, <1>2
  <1>3. CASE SeedNext
    BY <1>3, SeedCore, SeedKeepsSeed DEF Shared
  <1> QED
    BY <1>1, <1>2, <1>3, BooksSteps

LEMMA SharedInvariant == BooksSpec => []Shared
  BY SharedInit, SharedNext, PTL DEF BooksSpec

-----------------------------------------------------------------------------
\* Between its commits the program leaves the books alone.
LEMMA SeedQuiet ==
  ASSUME SeedNext
  PROVE  \/ SeedCommit
         \/ UNCHANGED <<balance, frozen, transactions, entries, issuances, call, pc, tx, result>>
  BY DEF SeedNext, SeedAdvance, SeedStart, SeedRead, SeedBegin, SeedInsert, SeedDone, SeedFails,
     vars, tables

\* What the program's commit does to the entries of one wallet.
LEMMA SeedEntries ==
  ASSUME Shared, SeedCommit, NEW w \in Wallets
  PROVE  /\ Len(entries[w]) \in Nat
         /\ \A i \in 1..Len(entries[w]) : entries'[w][i] = entries[w][i]
         /\ w # seed.wallet => Len(entries'[w]) = Len(entries[w])
         /\ w = seed.wallet =>
              /\ Len(entries'[w]) = Len(entries[w]) + 1
              /\ entries'[w][Len(entries[w]) + 1] = SeedEntry
  <1>1. entries \in [Wallets -> Seq(LedgerEntry)]
    BY DEF Shared, Core, TypeOK
  <1>2. PICK e \in LedgerEntry : e = SeedEntry
    BY SeedWrites
  <1>3. entries' = [entries EXCEPT ![seed.wallet] = Append(@, e)]
    BY <1>2, SeedWrites
  <1>4. CASE w = seed.wallet
    <2>1. entries'[w] = Append(entries[w], e) /\ entries[w] \in Seq(LedgerEntry)
      BY <1>1, <1>3, <1>4
    <2>2. /\ Len(entries[w]) \in Nat
          /\ \A i \in 1..Len(entries[w]) : entries'[w][i] = entries[w][i]
          /\ Len(entries'[w]) = Len(entries[w]) + 1
          /\ entries'[w][Len(entries[w]) + 1] = e
      BY ONLY <2>1, e \in LedgerEntry
    <2> QED
      BY <1>2, <1>4, <2>2
  <1>5. CASE w # seed.wallet
    BY <1>1, <1>3, <1>5
  <1> QED
    BY <1>4, <1>5

\* Rows of the ledger are never changed or removed, whoever moves.
LEMMA EntriesStay ==
  ASSUME Shared, [BooksNext]_BooksVars, NEW w \in Wallets
  PROVE  /\ Len(entries[w]) \in Nat /\ Len(entries'[w]) \in Nat
         /\ Len(entries[w]) <= Len(entries'[w])
         /\ \A i \in 1..Len(entries[w]) : entries'[w][i] = entries[w][i]
         /\ transactions \subseteq transactions'
  <1>1. Len(entries[w]) \in Nat /\ Len(entries'[w]) \in Nat
    <2>1. entries[w] \in Seq(LedgerEntry)
      BY DEF Shared, Core, TypeOK
    <2>2. entries'[w] \in Seq(LedgerEntry)
      BY SharedNext DEF Shared, Core, TypeOK
    <2> QED
      BY <2>1, <2>2
  <1>2. CASE UNCHANGED <<transactions, entries>>
    BY <1>1, <1>2
  <1>3. ASSUME NEW r \in Requests, pc[r] = "commit", ApplyWrites(r)
        PROVE  /\ Len(entries[w]) <= Len(entries'[w])
               /\ \A i \in 1..Len(entries[w]) : entries'[w][i] = entries[w][i]
               /\ transactions \subseteq transactions'
    BY <1>1, <1>3, CommitEntries, CommitWrites DEF Shared
  <1>4. CASE SeedCommit
    BY <1>1, <1>4, SeedEntries, SeedWrites
  <1>5. CASE [Next]_vars
    BY <1>1, <1>2, <1>3, <1>5, StepKinds DEF Shared, SetFrozen
  <1>6. CASE UNCHANGED vars
    BY <1>2, <1>6 DEF vars
  <1>7. CASE SeedNext
    BY <1>2, <1>4, <1>7, SeedQuiet
  <1> QED
    BY <1>5, <1>6, <1>7, BooksSteps

\* The program's transaction is whole: one row, its credit and its issuance record.
LEMMA SeedDoubleEntry ==
  ASSUME Shared, Keys, PayersExist, DoubleEntry, SeedCommit
  PROVE  Keys' /\ PayersExist' /\ DoubleEntry'
  <1>1. PICK row : row = SeedTransaction
    OBVIOUS
  <1>2. /\ transactions' = transactions \cup {row}
        /\ row.id = SeedId /\ row.status = "SETTLED" /\ row.type = "ISSUANCE"
        /\ row.receiver = seed.wallet /\ row.amount = issueCents
        /\ row.sender = NoWallet /\ row.key = NoKey
    BY <1>1, SeedWrites DEF SeedTransaction
  <1>3. PICK record : /\ record = [txn |-> SeedId, wallet |-> seed.wallet, amount |-> issueCents]
                      /\ issuances' = issuances \cup {record}
    BY SeedWrites
  <1>4. /\ seed.wallet \in Wallets /\ SeedId \notin Requests
        /\ \A t \in transactions : t.id # SeedId
        /\ UNCHANGED pc
    BY SeedWrites
  <1>5. Keys'
    BY <1>2, <1>4 DEF Keys, OncePerKey, Unspent
  <1>6. PayersExist'
    BY <1>2 DEF PayersExist
  <1>7. IsLegOf(seed.wallet, SeedEntry, row)
    BY <1>2 DEF IsLegOf, SeedEntry
  <1>8. ASSUME NEW t \in transactions, NEW w \in Wallets, Posted(w, t) PROVE Posted(w, t)'
    <2>1. PICK i \in 1..Len(entries[w]) : IsLegOf(w, entries[w][i], t)
      BY <1>8 DEF Posted
    <2>2. i \in 1..Len(entries'[w]) /\ entries'[w][i] = entries[w][i]
      BY <2>1, SeedEntries
    <2> QED
      BY <2>1, <2>2 DEF Posted, IsLegOf
  <1>9. ASSUME NEW t \in transactions'
        PROVE  /\ t.status = "SETTLED"
               /\ Posted(t.receiver, t)'
               /\ t.type = "TRANSFER" => Posted(t.sender, t)'
               /\ t.type = "ISSUANCE" =>
                    [txn |-> t.id, wallet |-> t.receiver, amount |-> t.amount]
                      \in issuances'
    <2>1. CASE t \in transactions
      <3>1. /\ t.status = "SETTLED" /\ Posted(t.receiver, t)
            /\ t.type = "TRANSFER" => Posted(t.sender, t) /\ t.sender \in Wallets
            /\ t.type = "ISSUANCE" =>
                 [txn |-> t.id, wallet |-> t.receiver, amount |-> t.amount]
                   \in issuances
        BY <2>1 DEF DoubleEntry, PayersExist
      <3>2. t.receiver \in Wallets
        BY <2>1 DEF Shared, Core, TypeOK, Transaction
      <3>3. Posted(t.receiver, t)' /\ (t.type = "TRANSFER" => Posted(t.sender, t)')
        BY <1>8, <2>1, <3>1, <3>2
      <3> QED
        BY ONLY <1>3, <3>1, <3>3, Zenon
    <2>2. CASE t = row
      <3>1. PICK n \in Nat : n = Len(entries[seed.wallet])
        BY <1>4, SeedEntries
      <3>2. /\ n + 1 \in 1..Len(entries'[seed.wallet])
            /\ entries'[seed.wallet][n + 1] = SeedEntry
        BY <1>4, <3>1, SeedEntries
      <3>3. PICK w : w = seed.wallet
        OBVIOUS
      <3>4. \E i \in 1..Len(entries'[w]) : IsLegOf(w, entries'[w][i], t)
        BY <1>7, <2>2, <3>2, <3>3
      <3>5. Posted(t.receiver, t)'
        BY <1>2, <2>2, <3>3, <3>4 DEF Posted, IsLegOf
      <3>6. [txn |-> t.id, wallet |-> t.receiver, amount |-> t.amount] \in issuances'
        BY <1>2, <1>3, <2>2
      <3> QED
        BY <1>2, <2>2, <3>5, <3>6
    <2> QED
      BY <1>2, <2>1, <2>2
  <1>10. ASSUME NEW w \in Wallets, NEW i \in 1..Len(entries'[w])
         PROVE  /\ \E t \in transactions' : IsLegOf(w, entries'[w][i], t)
                /\ i \notin 1..Len(entries[w]) =>
                     i = Len(entries[w]) + 1 /\ entries'[w][i].txn = SeedId
    <2>1. CASE i \in 1..Len(entries[w])
      <3>1. entries'[w][i] = entries[w][i]
        BY <2>1, SeedEntries
      <3>2. \E t \in transactions : IsLegOf(w, entries[w][i], t)
        BY <2>1 DEF DoubleEntry
      <3> QED
        BY <1>2, <2>1, <3>1, <3>2
    <2>2. CASE i \notin 1..Len(entries[w])
      <3>1. w = seed.wallet /\ i = Len(entries[w]) + 1 /\ entries'[w][i] = SeedEntry
        BY <2>2, SeedEntries
      <3>2. IsLegOf(w, entries'[w][i], row) /\ entries'[w][i].txn = SeedId
        BY <1>7, <3>1 DEF SeedEntry
      <3> QED
        BY <1>2, <3>1, <3>2
    <2> QED
      BY <2>1, <2>2
  <1>11. ASSUME NEW w \in Wallets, NEW i \in 1..Len(entries[w])
         PROVE  entries'[w][i].txn # SeedId
    <2>1. PICK t \in transactions : IsLegOf(w, entries[w][i], t)
      BY DEF DoubleEntry
    <2> QED
      BY <1>4, <2>1, SeedEntries DEF IsLegOf
  <1>12. ASSUME NEW w \in Wallets,
                NEW i \in 1..Len(entries'[w]), NEW j \in 1..Len(entries'[w]),
                entries'[w][i].txn = entries'[w][j].txn
         PROVE  i = j
    <2>1. CASE i \in 1..Len(entries[w]) /\ j \in 1..Len(entries[w])
      BY <1>12, <2>1, SeedEntries DEF DoubleEntry
    <2>2. CASE i \notin 1..Len(entries[w]) \/ j \notin 1..Len(entries[w])
      BY <1>10, <1>11, <1>12, <2>2
    <2> QED
      BY <2>1, <2>2
  <1>13. ASSUME NEW x \in issuances'
         PROVE  \E t \in transactions' : t.id = x.txn /\ t.type = "ISSUANCE"
    BY <1>2, <1>3 DEF DoubleEntry
  <1> QED
    BY <1>5, <1>6, <1>9, <1>10, <1>12, <1>13 DEF DoubleEntry

\* Unless it came too late, the program's entry continues the chain: it adds the
\* missing amount to the balance that the row still has.
LEMMA SeedChain ==
  ASSUME Shared, SeedCommit, ~overtaken, EntryChain
  PROVE  EntryChain'
  <1>1. seed.wallet \in Wallets /\ seed.current \in Nat /\ issueCents \in Nat
        /\ balance[seed.wallet] = seed.current
        /\ balance \in [Wallets -> 0..MaxBigint]
    BY SeedWrites DEF Shared, SeedShape, SeedCommit, Core, TypeOK
  <1> SUFFICES ASSUME NEW w \in Wallets
               PROVE  /\ \A i \in 1..Len(entries'[w]) :
                           entries'[w][i].balance_after =
                             BalanceBefore(w, i)' + SignedAmount(entries'[w][i])
                      /\ balance'[w] = BalanceBefore(w, Len(entries[w]) + 1)'
    BY DEF EntryChain
  <1>2. /\ \A i \in 1..Len(entries[w]) :
             entries[w][i].balance_after =
               BalanceBefore(w, i) + SignedAmount(entries[w][i])
        /\ balance[w] = BalanceBefore(w, Len(entries[w]) + 1)
    BY DEF EntryChain
  <1>3. Len(entries[w]) \in Nat
        /\ \A i \in 1..Len(entries[w]) : entries'[w][i] = entries[w][i]
    BY SeedEntries
  <1>4. CASE w # seed.wallet
    <2>1. entries'[w] = entries[w] /\ balance'[w] = balance[w]
      BY <1>1, <1>4, SeedWrites DEF Shared, Core, TypeOK
    <2> QED
      BY <1>2, <2>1 DEF BalanceBefore
  <1>5. CASE w = seed.wallet
    <2>1. /\ Len(entries'[w]) = Len(entries[w]) + 1
          /\ entries'[w][Len(entries[w]) + 1] = SeedEntry
      BY <1>5, SeedEntries
    <2>2. SignedAmount(SeedEntry) = issueCents
          /\ SeedEntry.balance_after = seed.current + issueCents
      BY DEF SignedAmount, SeedEntry
    <2>3. balance'[w] = seed.current + issueCents
      BY <1>1, <1>5, SeedWrites
    <2>4. \A i \in 1..(Len(entries[w]) + 1) : BalanceBefore(w, i)' = BalanceBefore(w, i)
      BY <1>3, BeforeStays
    <2>5. balance'[w] = BalanceBefore(w, Len(entries[w]) + 1)'
      <3>1. PICK n \in Nat : n = Len(entries[w]) + 1 /\ n = Len(entries'[w])
        BY <1>3, <2>1
      <3>2. n \in Nat \ {0}
        BY <1>3, <3>1
      <3>3. \A m \in Nat \ {0} : m + 1 # 1 /\ (m + 1) - 1 = m
        OBVIOUS
      <3>4. BalanceBefore(w, Len(entries[w]) + 1)' = entries'[w][n].balance_after
        BY <3>1, <3>2, <3>3 DEF BalanceBefore
      <3> QED
        BY <2>1, <2>2, <2>3, <3>1, <3>4
    <2>6. ASSUME NEW i \in 1..Len(entries'[w])
          PROVE  entries'[w][i].balance_after =
                   BalanceBefore(w, i)' + SignedAmount(entries'[w][i])
      <3>1. CASE i \in 1..Len(entries[w])
        <4>1. entries'[w][i] = entries[w][i] /\ BalanceBefore(w, i)' = BalanceBefore(w, i)
          BY <1>3, <2>4, <3>1
        <4> QED
          BY <1>2, <3>1, <4>1 DEF SignedAmount
      <3>2. CASE i = Len(entries[w]) + 1
        <4>1. BalanceBefore(w, i)' = seed.current
          BY <1>1, <1>2, <1>3, <1>5, <2>4, <3>2
        <4>2. SignedAmount(entries'[w][i]) = SignedAmount(SeedEntry)
              /\ entries'[w][i] = SeedEntry
          BY <2>1, <3>2
        <4> QED
          BY <2>2, <4>1, <4>2
      <3> QED
        BY <1>3, <2>1, <3>1, <3>2
    <2> QED
      BY <2>5, <2>6
  <1> QED
    BY <1>4, <1>5

\* The books beside a seed program, in all their parts.
Kept ==
  /\ Shared
  /\ Keys /\ PayersExist /\ DoubleEntry
  /\ overtaken \/ EntryChain

LEMMA KeptNext == Kept /\ [BooksNext]_BooksVars => Kept'
  <1> SUFFICES ASSUME Kept, [BooksNext]_BooksVars PROVE Kept'
    OBVIOUS
  <1> USE DEF Kept
  <1>1. Shared'
    BY SharedNext
  <1>2. CASE [Next]_vars /\ UNCHANGED seedVars
    BY <1>1, <1>2, KeysNext, DoubleEntryNext, ChainNext DEF Shared, seedVars
  <1>3. CASE UNCHANGED <<vars, seedVars>>
    BY <1>1, <1>3, KeysNext, DoubleEntryNext, ChainNext DEF Shared, seedVars
  <1>4. CASE SeedCommit
    <2>1. overtaken' = overtaken
      BY <1>4, SeedWrites
    <2> QED
      BY <1>1, <1>4, <2>1, SeedDoubleEntry, SeedChain
  <1>5. CASE SeedNext /\ ~SeedCommit
    <2>1. UNCHANGED <<balance, frozen, transactions, entries, issuances, call, pc, tx, result>>
      BY <1>5, SeedQuiet
    <2>2. Keys' /\ PayersExist'
      BY <2>1 DEF Keys, OncePerKey, Unspent, PayersExist
    <2>3. DoubleEntry'
      BY <2>1 DEF DoubleEntry, Posted, IsLegOf
    <2>4. EntryChain => EntryChain'
      BY <2>1 DEF EntryChain, BalanceBefore
    <2>5. overtaken => overtaken'
      BY <1>5 DEF SeedNext, SeedAdvance, SeedStart, SeedRead, SeedBegin, SeedInsert, SeedCommit,
         SeedDone, SeedFails
    <2> QED
      BY <1>1, <2>2, <2>3, <2>4, <2>5
  <1> QED
    BY <1>2, <1>3, <1>4, <1>5, BooksSteps

LEMMA KeptInvariant == BooksSpec => []Kept
  <1>1. BooksInit => Kept
    <2> SUFFICES ASSUME BooksInit PROVE Kept
      OBVIOUS
    <2>1. Init
      BY DEF BooksInit
    <2>2. Keys /\ PayersExist /\ DoubleEntry
      BY <2>1 DEF Init, Keys, OncePerKey, Unspent, PayersExist, DoubleEntry, Posted
    <2>3. EntryChain
      BY <2>1 DEF Init, EntryChain, BalanceBefore
    <2> QED
      BY <2>2, <2>3, SharedInit DEF Kept
  <1> QED
    BY <1>1, KeptNext, PTL DEF BooksSpec

\* Beside the seed program and its readers, too, the tables keep their types: no
\* balance leaves its column, not even one the program sets.
THEOREM BooksTypeInvariant == BooksSpec => []TypeOK
  <1>1. Kept => TypeOK
    BY DEF Kept, Shared, Core
  <1> QED
    BY <1>1, KeptInvariant, PTL

\* The seed program, killed and run again beside a live server, leaves no
\* half-posting, and no gap between a wallet's entries and its balance but for the
\* posting it overtook.
THEOREM SeedKeepsBooksInvariant == BooksSpec => []SeedKeepsBooks
  <1>1. Kept => SeedKeepsBooks
    BY DEF Kept, SeedKeepsBooks
  <1> QED
    BY <1>1, KeptInvariant, PTL

-----------------------------------------------------------------------------
\* The program tells no caller anything and leaves what they were told true.
LEMMA SeedTruthful ==
  ASSUME Shared, PayersExist, SeedCommit, NEW q \in Requests, Truthful(q)
  PROVE  Truthful(q)'
  <1>1. /\ result' = result /\ call' = call
        /\ transactions \subseteq transactions'
        /\ \A t \in transactions' : t \in transactions \/ t.id # q
    BY SeedWrites DEF SeedTransaction
  <1>2. ASSUME NEW w \in Wallets, NEW b, RecordedAfter(w, q, b)
        PROVE  RecordedAfter(w, q, b)'
    <2>1. PICK i \in 1..Len(entries[w]) :
            entries[w][i].txn = q /\ entries[w][i].balance_after = b
      BY <1>2 DEF RecordedAfter
    <2>2. i \in 1..Len(entries'[w]) /\ entries'[w][i] = entries[w][i]
      BY <2>1, SeedEntries
    <2> QED
      BY <2>1, <2>2 DEF RecordedAfter
  <1>3. ASSUME result[q].outcome = "ok"
        PROVE  \E t \in transactions' :
                 /\ t.id = q
                 /\ RecordedAfter(t.receiver, q, result[q].receiver_balance)'
                 /\ t.type = "TRANSFER" =>
                      RecordedAfter(t.sender, q, result[q].sender_balance)'
    <2>1. PICK t \in transactions :
            /\ t.id = q
            /\ RecordedAfter(t.receiver, q, result[q].receiver_balance)
            /\ t.type = "TRANSFER" =>
                 RecordedAfter(t.sender, q, result[q].sender_balance)
      BY <1>3 DEF Truthful
    <2>2. t.receiver \in Wallets /\ (t.type = "TRANSFER" => t.sender \in Wallets)
      BY DEF Shared, Core, TypeOK, Transaction, PayersExist
    <2>3. PICK b, c : b = result[q].receiver_balance /\ c = result[q].sender_balance
      OBVIOUS
    <2>4. RecordedAfter(t.receiver, q, b)' /\ (t.type = "TRANSFER" => RecordedAfter(t.sender, q, c)')
      BY <1>2, <2>1, <2>2, <2>3
    <2>5. RecordedAfter(t.receiver, q, result[q].receiver_balance)'
      BY ONLY <1>1, <2>3, <2>4, Zenon DEF RecordedAfter
    <2>6. t.type = "TRANSFER" => RecordedAfter(t.sender, q, result[q].sender_balance)'
      BY ONLY <1>1, <2>3, <2>4, Zenon DEF RecordedAfter
    <2> QED
      BY <1>1, <2>1, <2>5, <2>6
  <1>4. result[q].outcome = "replay" =>
          \E t \in transactions' :
            /\ t.id = result[q].txn
            /\ t.sender = call[q].sender /\ t.key = call[q].key
    BY <1>1 DEF Truthful
  <1>5. result[q].outcome \in Refusals => \A t \in transactions' : t.id # q
    BY <1>1 DEF Truthful
  <1> QED
    BY <1>1, <1>3, <1>4, <1>5 DEF Truthful

\* What a caller of the engine is told is true beside the seed program, too.
THEOREM BooksOutcomeTruthful == BooksSpec => []OutcomeTruthful
  <1>1. OutcomeTruthful <=> \A r \in Requests : Truthful(r)
    BY DEF OutcomeTruthful, Truthful
  <1>2. BooksInit => OutcomeTruthful
    BY DEF BooksInit, Init, OutcomeTruthful, Failure, Refusals
  <1>3. Kept /\ OutcomeTruthful /\ [BooksNext]_BooksVars => OutcomeTruthful'
    <2> SUFFICES ASSUME Kept, [BooksNext]_BooksVars, NEW q \in Requests, Truthful(q)
                 PROVE  Truthful(q)'
      BY DEF OutcomeTruthful, Truthful
    <2>1. CASE [Next]_vars
      BY <2>1, TruthfulNext DEF Kept, Shared
    <2>2. CASE UNCHANGED vars
      BY <2>2, TruthfulNext DEF Kept, Shared
    <2>3. CASE SeedNext /\ ~SeedCommit
      <3>1. UNCHANGED <<transactions, entries, call, result>>
        BY <2>3, SeedQuiet
      <3> QED
        BY <3>1 DEF Truthful, RecordedAfter
    <2>4. CASE SeedCommit
      BY <2>4, SeedTruthful DEF Kept
    <2> QED
      BY <2>1, <2>2, <2>3, <2>4, BooksSteps
  <1> QED
    BY <1>2, <1>3, KeptInvariant, PTL DEF BooksSpec

-----------------------------------------------------------------------------
(***************************************************************************)
(* The reader.  A row that shares its created_at with no other has a place    *)
(* in the list that no SELECT can choose: the number of rows that are not     *)
(* older.  It keeps it or moves towards the end, because rows are only added: *)
(* what was behind the page stays behind it.                                  *)
(***************************************************************************)

\* How many rows are not older than t.
Position(t, rows) == Cardinality({u \in rows : CreatedAt(u) >= CreatedAt(t)})

\* There are finitely many rows, and none is stamped with a time to come.
Stamped ==
  /\ IsFiniteSet(transactions)
  /\ \A w \in Wallets : \A i \in 1..Len(entries[w]) :
       entries[w][i].created_at \in 0..clock
  /\ \A r \in Requests : tx[r].now \in 0..clock

\* The other statements keep the time of BEGIN.
LEMMA NowKept ==
  ASSUME NEW t \in Tx, NEW x, NEW y
  PROVE  /\ [t EXCEPT !.seen = x].now = t.now
         /\ [t EXCEPT !.rows = x].now = t.now
         /\ [t EXCEPT !.issued = x].now = t.now
         /\ [t EXCEPT !.delta = x, !.posted = y].now = t.now
         /\ \A n : [t EXCEPT !.now = n].now = n
  BY DEF Tx

LEMMA EngineStamps ==
  ASSUME Core, [Next]_vars, NEW q \in Requests
  PROVE  tx'[q].now \in {0, clock', tx[q].now}
  <1> DEFINE Stamp(r) ==
        \/ tx' = tx
        \/ \E t : tx' = [tx EXCEPT ![r] = t] /\ t.now \in {0, clock', tx[r].now}
  <1>1. tx \in [Requests -> Tx] /\ NoTx.now = 0
    BY DEF Core, TypeOK, NoTx
  <1>2. ASSUME NEW r \in Requests, tx' = [tx EXCEPT ![r] = NoTx] PROVE Stamp(r)
    BY <1>1, <1>2
  <1>3. ASSUME NEW r \in Requests, NEW w, NEW x, tx' = [tx EXCEPT ![r].seen[w] = x]
        PROVE  Stamp(r)
    <2>1. PICK t : t = [tx[r] EXCEPT !.seen = [tx[r].seen EXCEPT ![w] = x]]
      OBVIOUS
    <2>2. t.now = tx[r].now
      BY <1>1, <2>1, NowKept
    <2> QED
      BY <1>3, <2>1, <2>2
  <1>4. ASSUME NEW r \in Requests, NEW x,
               tx' = [tx EXCEPT ![r].rows = x] \/ tx' = [tx EXCEPT ![r].issued = x]
        PROVE  Stamp(r)
    <2>1. PICK t : tx' = [tx EXCEPT ![r] = t] /\
                   (t = [tx[r] EXCEPT !.rows = x] \/ t = [tx[r] EXCEPT !.issued = x])
      BY <1>4
    <2>2. tx[r] \in Tx
      BY <1>1
    <2>3. t.now = tx[r].now
      <3>1. CASE t = [tx[r] EXCEPT !.rows = x]
        BY <2>2, <3>1, NowKept
      <3>2. CASE t = [tx[r] EXCEPT !.issued = x]
        BY <2>2, <3>2, NowKept
      <3> QED
        BY <2>1, <3>1, <3>2
    <2> QED
      BY <2>1, <2>3
  <1>5. ASSUME NEW r \in Requests, NEW w, NEW d, NEW x,
               tx' = [tx EXCEPT ![r].delta[w] = @ + d, ![r].posted[w] = Append(@, x)]
        PROVE  Stamp(r)
    <2>1. PICK D, P : /\ D = [tx[r].delta EXCEPT ![w] = @ + d]
                      /\ P = [tx[r].posted EXCEPT ![w] = Append(@, x)]
      OBVIOUS
    <2>2. PICK t : t = [tx[r] EXCEPT !.delta = D, !.posted = P]
      OBVIOUS
    <2>3. t.now = tx[r].now
      BY <1>1, <2>2, NowKept
    <2>4. [tx[r] EXCEPT !.delta = D].posted = tx[r].posted
      BY <1>1 DEF Tx
    <2>5. tx' = [tx EXCEPT ![r] = t]
      BY <1>1, <1>5, <2>1, <2>2, <2>4
    <2> QED
      BY <2>3, <2>5
  <1>6. ASSUME NEW r \in Requests, Advance(r) PROVE Stamp(r)
    <2>1. CASE Validate(r) \/ CheckKey(r)
      BY <2>1 DEF Validate, CheckKey, Return
    <2>2. CASE BeginTx(r)
      <3>1. PICK t : t = [tx[r] EXCEPT !.now = clock']
        OBVIOUS
      <3>2. t.now = clock'
        BY <1>1, <3>1, NowKept
      <3> QED
        BY <2>2, <3>1, <3>2 DEF BeginTx
    <2>3. CASE LockFirst(r) \/ LockSecond(r)
      <3>1. PICK w, p : GetWalletForUpdate(r, w, p)
        BY <2>3 DEF LockFirst, LockSecond
      <3> QED
        BY <1>2, <1>3, <3>1 DEF GetWalletForUpdate, Rollback, EndTx
    <2>4. CASE CreateTransaction(r)
      BY <1>2, <1>4, <2>4 DEF CreateTransaction, Rollback, EndTx
    <2>5. CASE DebitSender(r) \/ CreditReceiver(r)
      <3>1. PICK w, k, d, p : PostEntry(r, w, k, d, p)
        BY <2>5 DEF DebitSender, CreditReceiver
      <3>2. CASE Rollback(r, "error")
        BY <1>2, <3>2 DEF Rollback, EndTx
      <3>3. ASSUME NEW x, tx' = [tx EXCEPT ![r].delta[w] = @ + d, ![r].posted[w] = Append(@, x)]
            PROVE  Stamp(r)
        BY <1>5, <3>3
      <3> HIDE DEF Stamp
      <3> QED
        BY <3>1, <3>2, <3>3 DEF PostEntry
    <2>6. CASE SettleTransaction(r) \/ InsertIssuanceRecord(r)
      BY <1>4, <2>6 DEF SettleTransaction, InsertIssuanceRecord
    <2>7. CASE Commit(r)
      BY <1>2, <2>7 DEF Commit, EndTx
    <2> QED
      BY <1>6, <2>1, <2>2, <2>3, <2>4, <2>5, <2>6, <2>7 DEF Advance
  <1>7. ASSUME NEW r \in Requests, CommitUnacknowledged(r) \/ Fail(r) PROVE Stamp(r)
    BY <1>2, <1>7 DEF CommitUnacknowledged, Fail, EndTx, Rollback
  <1>8. ASSUME NEW r \in Requests, Stamp(r) PROVE tx'[q].now \in {0, clock', tx[q].now}
    <2>1. CASE tx' = tx
      BY <2>1
    <2>2. ASSUME NEW t, tx' = [tx EXCEPT ![r] = t], t.now \in {0, clock', tx[r].now}
          PROVE  tx'[q].now \in {0, clock', tx[q].now}
      <3>1. CASE q = r
        <4>1. tx'[q] = t
          BY <1>1, <2>2, <3>1
        <4> QED
          BY <2>2, <3>1, <4>1
      <3>2. CASE q # r
        <4>1. tx'[q] = tx[q]
          BY <1>1, <2>2, <3>2
        <4> QED
          BY <4>1
      <3> QED
        BY <3>1, <3>2
    <2> QED
      BY <1>8, <2>1, <2>2
  <1>9. CASE tx' = tx
    BY <1>9
  <1> QED
    BY <1>6, <1>7, <1>8, <1>9 DEF Next, vars, SetFrozen

LEMMA StampedNext == Kept /\ Stamped /\ [BooksNext]_BooksVars => Stamped'
  <1> SUFFICES ASSUME Kept, Stamped, [BooksNext]_BooksVars PROVE Stamped'
    OBVIOUS
  <1>1. Core /\ clock \in Nat
    BY DEF Kept, Shared, Core, TypeOK
  <1>2. CASE [Next]_vars
    <2>1. clock' \in Nat /\ clock <= clock'
      BY <1>1, <1>2, EngineLocks
    <2>2. \A r \in Requests : tx'[r].now \in 0..clock'
      BY <1>1, <1>2, <2>1, EngineStamps DEF Stamped
    <2>3. CASE UNCHANGED <<transactions, entries>>
      BY <1>1, <2>1, <2>2, <2>3 DEF Stamped
    <2>4. ASSUME NEW r \in Requests, pc[r] = "commit", ApplyWrites(r)
          PROVE  Stamped'
      <3>1. IsFiniteSet(transactions')
        <4>1. PICK row : transactions' = transactions \cup {row}
          BY <1>1, <2>4, CommitWrites
        <4> QED
          BY <4>1, FS_AddElement DEF Stamped
      <3>2. ASSUME NEW w \in Wallets, NEW i \in 1..Len(entries'[w])
            PROVE  entries'[w][i].created_at \in 0..clock'
        <4>1. entries[w] \in Seq(LedgerEntry) /\ tx[r].posted[w] \in Seq(LedgerEntry)
              /\ entries'[w] = entries[w] \o tx[r].posted[w]
          BY <1>1, <2>4 DEF Core, TypeOK, Tx, ApplyWrites
        <4>2. tx[r].posted[w] = << >> \/ \E k : tx[r].posted[w] = <<Posting(r, w, k)>>
          <5>1. WriteShape(r)
            BY <1>1 DEF Core, TxShape
          <5> QED
            BY <5>1 DEF WriteShape
        <4>3. tx[r].now \in 0..clock
          BY DEF Stamped
        <4>4. CASE i \in 1..Len(entries[w])
          <5>1. entries'[w][i] = entries[w][i]
            BY <4>1, <4>4
          <5>2. entries[w][i].created_at \in 0..clock
            BY <4>4 DEF Stamped
          <5> QED
            BY <1>1, <2>1, <5>1, <5>2
        <4>5. ASSUME NEW k, tx[r].posted[w] = <<Posting(r, w, k)>>, i \notin 1..Len(entries[w])
              PROVE  entries'[w][i].created_at \in 0..clock'
          <5>1. PICK e : e = Posting(r, w, k)
            OBVIOUS
          <5>2. e \in LedgerEntry /\ entries'[w] = entries[w] \o <<e>>
            BY <4>1, <4>5, <5>1
          <5>3. i = Len(entries[w]) + 1 /\ entries'[w][i] = e
            BY <4>1, <4>5, <5>2, AppendOne
          <5>4. e.created_at = tx[r].now
            BY <5>1 DEF Posting, EntryRow
          <5> QED
            BY <1>1, <2>1, <4>3, <5>3, <5>4
        <4>6. tx[r].posted[w] = << >> => entries'[w] = entries[w]
          BY <4>1
        <4> QED
          BY <4>2, <4>4, <4>5, <4>6
      <3> QED
        BY <2>2, <3>1, <3>2 DEF Stamped
    <2> QED
      BY <1>1, <1>2, <2>3, <2>4, StepKinds DEF SetFrozen
  <1>3. CASE UNCHANGED vars
    BY <1>3 DEF Stamped, vars
  <1>4. CASE SeedCommit
    <2>1. IsFiniteSet(transactions')
      BY <1>4, SeedWrites, FS_AddElement DEF Stamped, Kept
    <2>2. clock' = clock /\ tx' = tx /\ seed.now \in 0..clock
      BY <1>4, SeedWrites DEF Kept, Shared, SeedShape
    <2>3. ASSUME NEW w \in Wallets, NEW i \in 1..Len(entries'[w])
          PROVE  entries'[w][i].created_at \in 0..clock'
      <3>1. CASE i \in 1..Len(entries[w])
        BY <1>4, <2>2, <3>1, SeedEntries DEF Stamped, Kept
      <3>2. CASE i \notin 1..Len(entries[w])
        <4>1. entries'[w][i] = SeedEntry
          BY <1>4, <3>2, SeedEntries DEF Kept
        <4> QED
          BY <2>2, <4>1 DEF SeedEntry
      <3> QED
        BY <3>1, <3>2
    <2> QED
      BY <2>1, <2>2, <2>3 DEF Stamped
  <1>5. CASE SeedNext /\ ~SeedCommit
    <2>1. UNCHANGED <<transactions, entries, tx>>
      BY <1>5, SeedQuiet
    <2>2. clock' = clock \/ \E d \in Ticks : clock' = clock + d
      BY <1>5 DEF SeedNext, SeedAdvance, SeedStart, SeedRead, SeedBegin, SeedInsert, SeedDone,
         SeedFails, vars
    <2>3. clock' \in Nat /\ clock <= clock'
      BY <1>1, <2>2, ConstantAssumption
    <2> QED
      BY <1>1, <2>1, <2>3 DEF Stamped
  <1> QED
    BY <1>2, <1>3, <1>4, <1>5, BooksSteps

\* The only entry of a transaction in a wallet tells when the transaction began.
LEMMA StampOf ==
  ASSUME NEW s, NEW n, NEW id, NEW i \in 1..Len(s),
         s[i].txn = id, s[i].created_at \in 0..n,
         \A j \in 1..Len(s) : s[j].txn = id => j = i
  PROVE  (CHOOSE c \in 0..n : \E j \in 1..Len(s) : s[j].txn = id /\ s[j].created_at = c)
           = s[i].created_at
  <1> DEFINE P(c) == \E j \in 1..Len(s) : s[j].txn = id /\ s[j].created_at = c
  <1>1. s[i].created_at \in 0..n /\ P(s[i].created_at)
    OBVIOUS
  <1>2. \A c : P(c) => c = s[i].created_at
    OBVIOUS
  <1> HIDE DEF P
  <1>3. (CHOOSE c \in 0..n : P(c)) = s[i].created_at
    BY <1>1, <1>2
  <1> QED
    BY <1>3 DEF P

\* A committed row keeps its stamp.
LEMMA StampStays ==
  ASSUME Kept, Stamped, [BooksNext]_BooksVars, NEW t \in transactions
  PROVE  CreatedAt(t) \in Nat /\ CreatedAt(t)' = CreatedAt(t)
  <1>1. t.receiver \in Wallets /\ t \in transactions'
    BY EntriesStay DEF Kept, Shared, Core, TypeOK, Transaction
  <1>2. Kept' /\ Stamped' /\ clock \in Nat
    BY KeptNext, StampedNext DEF Kept, Shared, Core, TypeOK
  <1>3. PICK i \in 1..Len(entries[t.receiver]) : entries[t.receiver][i].txn = t.id
    BY DEF Kept, DoubleEntry, Posted, IsLegOf
  <1>4. /\ i \in 1..Len(entries'[t.receiver])
        /\ entries'[t.receiver][i] = entries[t.receiver][i]
    BY <1>1, EntriesStay DEF Kept
  <1>5. /\ \A j \in 1..Len(entries[t.receiver]) : entries[t.receiver][j].txn = t.id => j = i
        /\ entries[t.receiver][i].created_at \in 0..clock
    BY <1>1, <1>3 DEF Kept, DoubleEntry, Stamped
  <1>6. /\ \A j \in 1..Len(entries'[t.receiver]) : entries'[t.receiver][j].txn = t.id => j = i
        /\ entries'[t.receiver][i].created_at \in 0..clock'
    BY <1>1, <1>2, <1>3, <1>4 DEF Kept, DoubleEntry, Stamped
  <1>7. CreatedAt(t) = entries[t.receiver][i].created_at
    BY <1>3, <1>5, StampOf DEF CreatedAt
  <1>8. CreatedAt(t)' = entries'[t.receiver][i].created_at
    BY <1>3, <1>4, <1>6, StampOf DEF CreatedAt
  <1> QED
    BY <1>2, <1>4, <1>5, <1>7, <1>8

\* A committed row has a time.
LEMMA StampType ==
  ASSUME Kept, Stamped, NEW t \in transactions
  PROVE  CreatedAt(t) \in Nat
  <1>1. t.receiver \in Wallets
    BY DEF Kept, Shared, Core, TypeOK, Transaction
  <1>2. PICK i \in 1..Len(entries[t.receiver]) : entries[t.receiver][i].txn = t.id
    BY DEF Kept, DoubleEntry, Posted, IsLegOf
  <1>3. /\ \A j \in 1..Len(entries[t.receiver]) : entries[t.receiver][j].txn = t.id => j = i
        /\ entries[t.receiver][i].created_at \in 0..clock
    BY <1>1, <1>2 DEF Kept, DoubleEntry, Stamped
  <1>4. CreatedAt(t) = entries[t.receiver][i].created_at
    BY <1>2, <1>3, StampOf DEF CreatedAt
  <1> QED
    BY <1>3, <1>4 DEF Kept, Shared, Core, TypeOK

\* Whatever order a SELECT returns the rows in, an untied row is where its
\* created_at puts it: those that are not older come no later, the others after it.
LEMMA PlaceOf ==
  ASSUME NEW rows, IsFiniteSet(rows), \A u \in rows : CreatedAt(u) \in Nat,
         NEW place \in Orders(rows), NEW t \in rows, ~Tied(t, rows)
  PROVE  place[t] = Position(t, rows)
  <1> DEFINE before == {u \in rows : CreatedAt(u) >= CreatedAt(t)}
             after == rows \ before
             n == Cardinality(rows)
             k == place[t]
  <1>1. n \in Nat /\ place \in [rows -> 1..n] /\ k \in 1..n
    BY FS_CardinalityType DEF Orders
  <1>2. \A u, v \in rows : place[u] = place[v] => u = v
    BY DEF Orders
  <1>3. \A u \in before : place[u] \in 1..k
    <2> SUFFICES ASSUME NEW u \in before, u # t PROVE place[u] \in 1..k
      BY <1>1
    <2>1. u \in rows /\ CreatedAt(u) > CreatedAt(t)
      BY DEF Tied
    <2> QED
      BY <1>1, <2>1 DEF Orders
  <1>4. \A u \in after : place[u] \in k + 1 .. n
    <2> SUFFICES ASSUME NEW u \in after PROVE place[u] \in k + 1 .. n
      OBVIOUS
    <2>1. u \in rows /\ CreatedAt(t) > CreatedAt(u)
      OBVIOUS
    <2>2. place[t] < place[u] /\ place[u] \in 1..n
      BY <1>1, <2>1 DEF Orders
    <2> QED
      BY <1>1, <2>2
  <1>5. /\ IsFiniteSet(before) /\ IsFiniteSet(after)
        /\ Cardinality(before) \in Nat /\ Cardinality(after) \in Nat
        /\ Cardinality(after) = n - Cardinality(before)
    <2>1. rows \cap before = before /\ before \subseteq rows
      OBVIOUS
    <2> HIDE DEF before
    <2> QED
      BY <2>1, FS_Difference, FS_Subset, FS_CardinalityType
  <1>6. \A s, a, b : (s \subseteq rows /\ IsFiniteSet(s) /\ a \in Int /\ b \in Int /\ a <= b + 1
                      /\ \A u \in s : place[u] \in a..b) => Cardinality(s) <= b - a + 1
    <2> SUFFICES ASSUME NEW s, NEW a \in Int, NEW b \in Int,
                        s \subseteq rows, IsFiniteSet(s),
                        a <= b + 1, \A u \in s : place[u] \in a..b,
                        ~(Cardinality(s) <= b - a + 1)
                 PROVE  FALSE
      OBVIOUS
    <2>1. IsFiniteSet(a..b) /\ Cardinality(a..b) = b - a + 1
      <3>1. /\ IsFiniteSet(a..b)
            /\ Cardinality(a..b) = IF a > b THEN 0 ELSE b - a + 1
        BY FS_Interval
      <3>2. a > b => b - a + 1 = 0
        OBVIOUS
      <3> QED
        BY <3>1, <3>2
    <2>2. Cardinality(s) \in Nat
      BY FS_CardinalityType
    <2>3. PICK f : f = [u \in s |-> place[u]]
      OBVIOUS
    <2>4. f \in [s -> a..b]
      BY <2>3
    <2>5. PICK u, v \in s : u # v /\ f[u] = f[v]
      BY <2>1, <2>2, <2>4, FS_PigeonHole
    <2> QED
      BY <1>2, <2>3, <2>5
  <1>7. Cardinality(before) <= k
    <2>1. before \subseteq rows
      OBVIOUS
    <2> HIDE DEF before, after, n, k
    <2> QED
      BY <1>1, <1>3, <1>5, <1>6, <2>1
  <1>8. Cardinality(after) <= n - k
    <2>1. after \subseteq rows
      OBVIOUS
    <2> HIDE DEF before, after, n, k
    <2>2. k + 1 \in Int /\ k + 1 <= n + 1 /\ n \in Int
      BY <1>1
    <2>3. Cardinality(after) <= n - (k + 1) + 1
      BY <1>4, <1>5, <1>6, <2>1, <2>2
    <2> QED
      BY <1>1, <1>5, <2>3
  <1>9. Position(t, rows) = Cardinality(before)
    BY DEF Position
  <1> HIDE DEF before, after, n
  <1> QED
    BY <1>1, <1>5, <1>7, <1>8, <1>9

\* What is tied stays tied.
LEMMA TiesStay ==
  ASSUME Kept, Stamped, [BooksNext]_BooksVars, NEW q, NEW t \in HistoryRows(q),
         Tied(t, HistoryRows(q))
  PROVE  Tied(t, HistoryRows(q))'
  <1>1. PICK u \in HistoryRows(q) : u # t /\ CreatedAt(u) = CreatedAt(t)
    BY DEF Tied
  <1>2. t \in transactions /\ u \in transactions
    BY <1>1 DEF HistoryRows
  <1>3. t.receiver \in Wallets
    BY <1>2 DEF Kept, Shared, Core, TypeOK, Transaction
  <1>4. u \in HistoryRows(q)'
    BY <1>1, <1>2, <1>3, EntriesStay DEF HistoryRows, Kept
  <1>5. CreatedAt(u)' = CreatedAt(u) /\ CreatedAt(t)' = CreatedAt(t)
    BY <1>2, StampStays
  <1> QED
    BY <1>1, <1>4, <1>5 DEF Tied

\* A row's place in a list is at least 1 and at most the number of rows.
LEMMA Places ==
  ASSUME Kept, Stamped, NEW q, NEW t \in HistoryRows(q)
  PROVE  /\ Position(t, HistoryRows(q)) \in Nat \ {0}
         /\ Cardinality(HistoryRows(q)) \in Nat
         /\ Position(t, HistoryRows(q)) <= Cardinality(HistoryRows(q))
  <1> DEFINE rows == HistoryRows(q)
             before == {u \in rows : CreatedAt(u) >= CreatedAt(t)}
  <1>1. rows \subseteq transactions /\ t \in transactions
    BY DEF HistoryRows
  <1>2. IsFiniteSet(rows) /\ Cardinality(rows) \in Nat
    BY <1>1, FS_Subset, FS_CardinalityType DEF Stamped
  <1>3. IsFiniteSet(before) /\ Cardinality(before) \in Nat
        /\ Cardinality(before) <= Cardinality(rows)
    BY <1>2, FS_Subset, FS_CardinalityType
  <1>4. CreatedAt(t) \in Nat
    BY <1>1, StampType
  <1>5. before # {}
    BY <1>4
  <1>6. Cardinality(before) # 0
    BY <1>3, <1>5, FS_EmptySet
  <1> QED
    BY <1>2, <1>3, <1>6 DEF Position

\* Postings only push a row back in the list.
LEMMA PlacesGrow ==
  ASSUME Kept, Stamped, [BooksNext]_BooksVars, NEW q, NEW t \in HistoryRows(q)
  PROVE  /\ t \in HistoryRows(q)'
         /\ Position(t, HistoryRows(q)) <= Position(t, HistoryRows(q))'
  <1>1. PICK rows, rows1 : rows = HistoryRows(q) /\ rows1 = HistoryRows(q)'
    OBVIOUS
  <1>2. transactions \subseteq transactions' /\ IsFiniteSet(transactions')
    <2>1. t.receiver \in Wallets
      BY DEF HistoryRows, Kept, Shared, Core, TypeOK, Transaction
    <2> QED
      BY <2>1, EntriesStay, StampedNext DEF Kept, Stamped
  <1>3. rows \subseteq rows1 /\ rows1 \subseteq transactions' /\ t \in rows /\ rows \subseteq transactions
    BY <1>1, <1>2 DEF HistoryRows
  <1>4. PICK a : a = {u \in rows : CreatedAt(u) >= CreatedAt(t)}
    OBVIOUS
  <1>5. PICK b : b = {u \in rows1 : CreatedAt(u)' >= CreatedAt(t)'}
    OBVIOUS
  <1>6. a \subseteq b
    <2> SUFFICES ASSUME NEW u \in a PROVE u \in b
      OBVIOUS
    <2>1. u \in rows /\ CreatedAt(u) >= CreatedAt(t)
      BY <1>4
    <2>2. CreatedAt(u)' = CreatedAt(u) /\ CreatedAt(t)' = CreatedAt(t)
      BY <1>3, <2>1, StampStays
    <2> QED
      BY <1>3, <1>5, <2>1, <2>2
  <1>7. IsFiniteSet(b)
    <2>1. b \subseteq transactions'
      BY <1>3, <1>5
    <2> QED
      BY <1>2, <2>1, FS_Subset
  <1>8. Cardinality(a) <= Cardinality(b)
    BY <1>6, <1>7, FS_Subset
  <1>9. Position(t, HistoryRows(q)) = Cardinality(a)
    BY <1>1, <1>4 DEF Position
  <1>10. Position(t, HistoryRows(q))' = Cardinality(b)
    BY <1>1, <1>5 DEF Position
  <1> QED
    BY <1>1, <1>3, <1>8, <1>9, <1>10

\* The number of pages is rounded up: that many hold all the rows.
LEMMA PagesHoldAll ==
  ASSUME NEW total \in Nat, NEW page \in Nat \ {0}, ~(page < Pages(total))
  PROVE  total <= Offset(page) + PageLimit /\ Offset(page) \in Nat
  <1>1. PageLimit \in Nat \ {0}
    BY QueriesAssumption
  <1>2. ~(page < (total + PageLimit - 1) \div PageLimit)
    BY DEF Pages
  <1>3. page * PageLimit >= total
    BY ONLY <1>1, <1>2, total \in Nat, page \in Nat \ {0}, SMTT(30)
  <1>4. (page - 1) * PageLimit + PageLimit = page * PageLimit /\ (page - 1) * PageLimit \in Nat
    BY ONLY <1>1, page \in Nat \ {0}, SMTT(30)
  <1> QED
    BY <1>1, <1>3, <1>4 DEF Offset

LEMMA NextOffset ==
  ASSUME NEW page \in Nat \ {0}
  PROVE  Offset(page + 1) = Offset(page) + PageLimit /\ Offset(page) \in Nat
  <1>1. PageLimit \in Nat \ {0}
    BY QueriesAssumption
  <1>2. ((page + 1) - 1) * PageLimit = (page - 1) * PageLimit + PageLimit
        /\ (page - 1) * PageLimit \in Nat
    BY ONLY <1>1, page \in Nat \ {0}, SMTT(30)
  <1> QED
    BY <1>2 DEF Offset

\* Row t is tied, or lies behind the pages before this one.
Behind(t, rows, page) == Tied(t, rows) \/ Position(t, rows) > Offset(page)

\* What the reader has yet to see of the rows that were due.
StillBehind(page) ==
  \A t \in due \ reader.seen : Behind(t, HistoryRows(reader.query), page)

ReaderShape ==
  /\ reader \in [pc: {"find", "count", "select", "done", "error",
                      "ErrWalletNotFound", "ErrAccessDenied"},
                 query: Queries, page: Nat \ {0}, total: Nat, rows: Nat,
                 seen: SUBSET Transaction]
  /\ due \subseteq HistoryRows(reader.query)
  /\ (reader.pc = "select" \/ (reader.pc \in {"find", "count"} /\ reader.page > 1))
       => StillBehind(reader.page)
  /\ PagesComplete

\* Whoever posts meanwhile.
LEMMA OthersKeepReader ==
  ASSUME Kept, Stamped, ReaderShape, [BooksNext]_BooksVars, UNCHANGED readVars
  PROVE  ReaderShape'
  <1>1. reader' = reader /\ due' = due
    BY DEF readVars
  <1>2. PICK q \in Queries : q = reader.query
    BY DEF ReaderShape
  <1>3. due \subseteq HistoryRows(q)
    BY <1>2 DEF ReaderShape
  <1>4. due \subseteq HistoryRows(q)'
    BY <1>3, PlacesGrow
  <1>5. HistoryRows(reader.query)' = HistoryRows(q)'
    BY <1>1, <1>2 DEF HistoryRows
  <1>6. ASSUME StillBehind(reader.page) PROVE StillBehind(reader.page)'
    <2>1. PICK p : p = reader.page
      OBVIOUS
    <2>2. p \in Nat \ {0} /\ Offset(p) \in Nat
      BY <2>1, NextOffset DEF ReaderShape
    <2> SUFFICES ASSUME NEW t \in due \ reader.seen
                 PROVE  Behind(t, HistoryRows(q), p)'
      BY <1>1, <1>2, <2>1 DEF StillBehind, Behind, Tied, Position, HistoryRows, Offset
    <2>3. t \in HistoryRows(q)
      BY <1>3
    <2>4. Behind(t, HistoryRows(q), p)
      BY <1>2, <1>6, <2>1 DEF StillBehind
    <2>9. CASE Tied(t, HistoryRows(q))
      BY <2>3, <2>9, TiesStay DEF Behind
    <2>5. Position(t, HistoryRows(q)) <= Position(t, HistoryRows(q))'
      BY <2>3, PlacesGrow
    <2>6. Position(t, HistoryRows(q)) \in Nat
      BY <2>3, Places
    <2>7. Position(t, HistoryRows(q))' \in Nat
      <3>1. Kept' /\ Stamped' /\ t \in HistoryRows(q)'
        BY <1>4, KeptNext, StampedNext
      <3>2. PICK b : b = {u \in HistoryRows(q)' : CreatedAt(u)' >= CreatedAt(t)'}
        OBVIOUS
      <3>3. IsFiniteSet(b)
        <4>1. b \subseteq transactions'
          BY <3>2 DEF HistoryRows
        <4> QED
          BY <3>1, <4>1, FS_Subset DEF Stamped
      <3>4. Position(t, HistoryRows(q))' = Cardinality(b)
        BY <3>2 DEF Position
      <3> QED
        BY <3>3, <3>4, FS_CardinalityType
    <2>8. CASE Position(t, HistoryRows(q)) > Offset(p)
      <3>1. Position(t, HistoryRows(q))' > Offset(p)
        BY <2>2, <2>5, <2>6, <2>7, <2>8
      <3>2. Offset(p)' = Offset(p)
        BY DEF Offset
      <3> QED
        BY <3>1, <3>2 DEF Behind
    <2> QED
      BY <2>4, <2>8, <2>9 DEF Behind
  <1>7. PagesComplete'
    <2> SUFFICES ASSUME reader.pc = "done", reader.rows = reader.total,
                        NEW t \in due \ reader.seen
                 PROVE  Tied(t, HistoryRows(q))'
      BY <1>1, <1>2 DEF PagesComplete, Tied, HistoryRows
    <2>1. t \in HistoryRows(q) /\ Tied(t, HistoryRows(q))
      BY <1>2, <1>3 DEF ReaderShape, PagesComplete
    <2> QED
      BY <2>1, TiesStay
  <1> QED
    BY <1>1, <1>4, <1>5, <1>6, <1>7 DEF ReaderShape

\* The reader's own statements.
LEMMA ReadingKeepsReader ==
  ASSUME Kept, Stamped, ReaderShape, ReadNext
  PROVE  ReaderShape'
  <1>1. UNCHANGED <<transactions, entries, clock>>
    BY DEF ReadNext, ReadAdvance, FindByID, CountRows, SelectPage, ReadFails, vars
  <1>2. PICK q \in Queries : q = reader.query
    BY DEF ReaderShape
  <1>3. HistoryRows(q)' = HistoryRows(q)
        /\ \A t : Tied(t, HistoryRows(q))' <=> Tied(t, HistoryRows(q))
    BY <1>1 DEF HistoryRows, Tied, CreatedAt
  <1>4. reader \in [pc: {"find", "count", "select", "done", "error",
                         "ErrWalletNotFound", "ErrAccessDenied"},
                    query: Queries, page: Nat \ {0}, total: Nat, rows: Nat,
                    seen: SUBSET Transaction]
    BY DEF ReaderShape
  <1>5. due \subseteq HistoryRows(q) /\ HistoryRows(q) \subseteq Transaction
        /\ IsFiniteSet(HistoryRows(q)) /\ Cardinality(HistoryRows(q)) \in Nat
    <2>1. due \subseteq HistoryRows(q) /\ HistoryRows(q) \subseteq transactions
      BY <1>2 DEF ReaderShape, HistoryRows
    <2>2. transactions \subseteq Transaction
      BY DEF Kept, Shared, Core, TypeOK
    <2>3. IsFiniteSet(HistoryRows(q))
      BY <2>1, FS_Subset DEF Stamped
    <2> QED
      BY <2>1, <2>2, <2>3, FS_CardinalityType
  <1>6. FirstStatement(q) \in {"find", "count"}
    BY DEF FirstStatement
  <1> DEFINE LeftBehind(s, d, p) == \A t \in d \ s : Behind(t, HistoryRows(q), p)
  <1>7. ASSUME reader'.query = q
        PROVE  StillBehind(reader.page)' <=> LeftBehind(reader'.seen, due', reader'.page)
    <2>1. PICK r, s, d, n : /\ r = HistoryRows(q) /\ s = reader'.seen
                            /\ d = due' /\ n = reader'.page
      OBVIOUS
    <2>2. HistoryRows(reader.query)' = r
      BY <1>1, <1>7, <2>1 DEF HistoryRows
    <2>3. \A t : Behind(t, HistoryRows(reader.query), reader.page)' <=> Behind(t, r, n)
      BY <1>1, <2>1, <2>2 DEF Behind, Tied, Position, CreatedAt, Offset
    <2>4. StillBehind(reader.page)' <=> \A t \in d \ s : Behind(t, r, n)
      BY <2>1, <2>3 DEF StillBehind
    <2> QED
      BY <2>1, <2>4
  <1>8. CASE FindByID
    <2>1. PICK p \in {"ErrWalletNotFound", "ErrAccessDenied", "count"} :
            reader' = [reader EXCEPT !.pc = p]
      BY <1>8 DEF FindByID
    <2>2. due' = due /\ reader.pc = "find"
      BY <1>8 DEF FindByID
    <2>3. reader'.pc = p /\ reader'.query = q /\ reader'.page = reader.page
          /\ reader'.seen = reader.seen
      BY <1>2, <1>4, <2>1
    <2>4. p = "count" /\ reader.page > 1 => StillBehind(reader.page)'
      BY <1>2, <1>7, <2>2, <2>3 DEF ReaderShape, StillBehind
    <2>5. PagesComplete'
      BY <2>1, <2>3 DEF PagesComplete
    <2>6. due' \subseteq HistoryRows(reader.query)'
      BY <1>1, <1>5, <2>2, <2>3 DEF HistoryRows
    <2> QED
      BY <1>4, <2>1, <2>3, <2>4, <2>5, <2>6 DEF ReaderShape
  <1>9. CASE CountRows
    <2>1. /\ reader' = [reader EXCEPT !.pc = "select", !.total = Cardinality(HistoryRows(q))]
          /\ due' = IF reader.page = 1 THEN HistoryRows(q) ELSE due
          /\ reader.pc = "count"
      BY <1>2, <1>9 DEF CountRows
    <2>2. reader'.pc = "select" /\ reader'.query = q /\ reader'.page = reader.page
          /\ reader'.seen = reader.seen
      BY <1>2, <1>4, <2>1
    <2>3. due' \subseteq HistoryRows(q)
      BY <1>5, <2>1
    <2>4. LeftBehind(reader.seen, due', reader.page)
      <3>1. CASE reader.page = 1
        <4>1. Offset(1) = 0
          BY QueriesAssumption DEF Offset
        <4> QED
          BY <2>3, <3>1, <4>1, Places DEF Behind
      <3>2. CASE reader.page # 1
        BY <1>2, <1>4, <2>1, <3>2 DEF ReaderShape, StillBehind
      <3> QED
        BY <3>1, <3>2
    <2>5. PagesComplete'
      BY <2>2 DEF PagesComplete
    <2>6. due' \subseteq HistoryRows(reader.query)'
      BY <1>1, <2>2, <2>3 DEF HistoryRows
    <2> QED
      BY <1>4, <1>5, <1>7, <2>1, <2>2, <2>4, <2>5, <2>6 DEF ReaderShape
  <1>10. CASE SelectPage
    <2> DEFINE rows == HistoryRows(q)
               more == reader.page < Pages(reader.total)
    <2>0. PICK got \in PageRows(rows, reader.page) :
            reader' = [reader EXCEPT
              !.seen = @ \cup got, !.rows = Cardinality(rows),
              !.pc = IF more THEN FirstStatement(q) ELSE "done",
              !.page = IF more THEN @ + 1 ELSE @]
      BY <1>2, <1>10 DEF SelectPage
    <2>1. PICK seen, p, n :
            /\ seen = reader.seen \cup got
            /\ p = IF more THEN FirstStatement(q) ELSE "done"
            /\ n = IF more THEN reader.page + 1 ELSE reader.page
            /\ reader' = [reader EXCEPT !.seen = seen, !.rows = Cardinality(rows),
                                        !.pc = p, !.page = n]
      <3>1. /\ [reader EXCEPT !.seen = reader.seen \cup got,
                              !.rows = Cardinality(rows)].page = reader.page
            /\ \A x : [reader EXCEPT !.seen = reader.seen \cup got, !.rows = Cardinality(rows),
                                     !.pc = x].page = reader.page
        BY <1>4
      <3> QED
        BY <2>0, <3>1
    <2>2. due' = due /\ reader.pc = "select"
      BY <1>10 DEF SelectPage
    <2>3. seen \in SUBSET Transaction /\ n \in Nat \ {0}
          /\ p \in {"find", "count", "done"} /\ reader.page \in Nat \ {0}
          /\ reader.total \in Nat
      BY <1>4, <1>5, <1>6, <2>1 DEF PageRows
    <2>4. /\ reader' \in [pc: {"find", "count", "select", "done", "error",
                               "ErrWalletNotFound", "ErrAccessDenied"},
                          query: Queries, page: Nat \ {0}, total: Nat, rows: Nat,
                          seen: SUBSET Transaction]
          /\ reader'.query = q /\ reader'.seen = seen /\ reader'.pc = p
          /\ reader'.page = n /\ reader'.rows = Cardinality(rows)
          /\ reader'.total = reader.total
      BY <1>2, <1>4, <1>5, <2>1, <2>3
    <2>5. ASSUME NEW t \in due \ seen, ~Tied(t, rows)
          PROVE  /\ Position(t, rows) \in Nat /\ Position(t, rows) <= Cardinality(rows)
                 /\ Position(t, rows) > Offset(reader.page) + PageLimit
      <3>1. t \in rows /\ t \notin got /\ t \in due \ reader.seen
        BY <1>5, <2>1
      <3>2. Position(t, rows) \in Nat /\ Position(t, rows) <= Cardinality(rows)
        BY <3>1, Places
      <3>3. Position(t, rows) > Offset(reader.page)
        <4>1. StillBehind(reader.page)
          BY <2>2 DEF ReaderShape
        <4> QED
          BY <1>2, <2>5, <3>1, <4>1 DEF StillBehind, Behind
      <3>4. PICK place \in Orders(rows) :
              got = {u \in rows :
                       place[u] \in Offset(reader.page) + 1 .. Offset(reader.page) + PageLimit}
        BY <2>1 DEF PageRows
      <3>5. place[t] = Position(t, rows)
        <4>1. \A u \in rows : CreatedAt(u) \in Nat
          BY StampType DEF HistoryRows
        <4> HIDE DEF rows
        <4> QED
          BY <1>5, <2>5, <3>1, <4>1, PlaceOf DEF rows
      <3>6. Position(t, rows) \notin Offset(reader.page) + 1 .. Offset(reader.page) + PageLimit
        BY <3>1, <3>4, <3>5
      <3>7. Offset(reader.page) \in Nat /\ PageLimit \in Nat
        BY <2>3, NextOffset, QueriesAssumption
      <3> HIDE DEF rows
      <3> QED
        BY <3>2, <3>3, <3>6, <3>7
    <2>6. more => LeftBehind(seen, due, n)
      BY <2>1, <2>3, <2>5, NextOffset DEF Behind
    <2>7. ASSUME ~more, reader'.rows = reader'.total, NEW t \in due \ seen
          PROVE  Tied(t, rows)
      <3> SUFFICES ASSUME ~Tied(t, rows) PROVE FALSE
        OBVIOUS
      <3>1. reader.total <= Offset(reader.page) + PageLimit /\ Offset(reader.page) \in Nat
        BY <2>3, <2>7, PagesHoldAll
      <3>2. Cardinality(rows) = reader.total /\ PageLimit \in Nat
        BY <2>4, <2>7, QueriesAssumption
      <3>3. PICK k \in Nat : k = Position(t, rows) /\ k <= Cardinality(rows)
                             /\ k > Offset(reader.page) + PageLimit
        BY <2>5
      <3> HIDE DEF rows
      <3> QED
        BY <2>3, <3>1, <3>2, <3>3
    <2>8. p # "done" => more
      BY <2>1
    <2>9. PagesComplete'
      <3>1. more => p # "done"
        BY <1>6, <2>1
      <3> SUFFICES ASSUME p = "done", reader'.rows = reader'.total, NEW t \in due \ seen
                   PROVE  Tied(t, HistoryRows(q))'
        BY <2>2, <2>4 DEF PagesComplete, Tied, HistoryRows
      <3>2. Tied(t, HistoryRows(q))
        BY <2>7, <3>1
      <3> QED
        BY <1>3, <3>2
    <2>10. due' \subseteq HistoryRows(reader.query)'
      BY <1>1, <1>5, <2>2, <2>4 DEF HistoryRows
    <2>11. p \in {"find", "count"} => StillBehind(reader.page)'
      BY <1>7, <2>2, <2>4, <2>6, <2>8
    <2> QED
      BY <2>3, <2>4, <2>9, <2>10, <2>11 DEF ReaderShape
  <1>11. CASE ReadFails
    <2>1. reader' = [reader EXCEPT !.pc = "error", !.page = 1, !.total = 0,
                                   !.rows = 0, !.seen = {}]
          /\ due' = {}
      BY <1>11 DEF ReadFails
    <2>2. /\ reader' \in [pc: {"find", "count", "select", "done", "error",
                               "ErrWalletNotFound", "ErrAccessDenied"},
                          query: Queries, page: Nat \ {0}, total: Nat, rows: Nat,
                          seen: SUBSET Transaction]
          /\ reader'.pc = "error"
      <3>1. reader' = [pc |-> "error", query |-> q, page |-> 1, total |-> 0,
                       rows |-> 0, seen |-> {}]
        BY <1>2, <1>4, <2>1
      <3>2. reader'.pc = "error"
        BY <3>1
      <3>3. 1 \in Nat \ {0} /\ 0 \in Nat /\ {} \in SUBSET Transaction
        OBVIOUS
      <3> QED
        BY <3>1, <3>2, <3>3
    <2>3. PagesComplete'
      BY <2>2 DEF PagesComplete
    <2>4. due' \subseteq HistoryRows(reader.query)'
      BY <2>1
    <2> QED
      BY <2>2, <2>3, <2>4 DEF ReaderShape
  <1> QED
    BY <1>8, <1>9, <1>10, <1>11 DEF ReadNext, ReadAdvance

\* Whoever reads the history to its last page has seen every row that was there
\* when he began and shares its created_at with no other, unless a posting came
\* between the COUNT and the SELECT of the last page.
THEOREM PagesCompleteInvariant == BooksSpec => []PagesComplete
  <1>1. BooksInit => Stamped /\ ReaderShape
    <2> SUFFICES ASSUME BooksInit PROVE Stamped /\ ReaderShape
      OBVIOUS
    <2>1. Stamped
      BY FS_EmptySet DEF BooksInit, Init, Stamped, NoTx
    <2>2. ReaderShape
      <3>1. PICK q \in Queries :
              /\ due = {}
              /\ reader = [pc |-> FirstStatement(q), query |-> q, page |-> 1,
                           total |-> 0, rows |-> 0, seen |-> {}]
        BY DEF BooksInit, ReadInit
      <3>2. FirstStatement(q) \in {"find", "count"}
        BY DEF FirstStatement
      <3> QED
        BY <3>1, <3>2 DEF ReaderShape, PagesComplete
    <2> QED
      BY <2>1, <2>2
  <1>2. Kept /\ Stamped /\ ReaderShape /\ [BooksNext]_BooksVars => Stamped' /\ ReaderShape'
    <2> SUFFICES ASSUME Kept, Stamped, ReaderShape, [BooksNext]_BooksVars PROVE ReaderShape'
      BY StampedNext
    <2>1. CASE UNCHANGED readVars
      BY <2>1, OthersKeepReader
    <2>2. CASE ReadNext
      BY <2>2, ReadingKeepsReader
    <2> QED
      BY <2>1, <2>2, BooksSteps
  <1>3. ReaderShape => PagesComplete
    BY DEF ReaderShape
  <1> QED
    BY <1>1, <1>2, <1>3, KeptInvariant, PTL DEF BooksSpec
=============================================================================
