------------------------------ MODULE Payment ------------------------------
(***************************************************************************)
(* Send of internal/payment/service.go: Redis in front of the ledger, the   *)
(* response that is cached for retries, the audit row and the live events.  *)
(*                                                                          *)
(* Every element of Attempts is one HTTP request, on its own goroutine of   *)
(* some server process; attempts with one key are a client's retries, which *)
(* may overlap.  The ledger is AbstractLedger, which Ledger.tla implements: *)
(* here a transfer is its key lookup and then one posting.  Redis may be    *)
(* unreachable at any call and forget any key; a process may die anywhere.  *)
(***************************************************************************)
EXTENDS Integers, FiniteSets, IdempotencyStore

CONSTANTS
  Wallets,     \* live wallet rows
  Attempts,    \* HTTP requests
  Wanted,      \* what a request may ask: [from, to, amount, key, ...]
  Opening, MaxBigint,
  Freezable,   \* wallets an operator may freeze and unfreeze
  NoKey, NoWallet, Nobody

ASSUME PaymentAssumption ==
  /\ Wallets \subseteq Int /\ Scopes = Wallets /\ Freezable \subseteq Wallets
  /\ MaxBigint \in Nat /\ Opening \in [Wallets -> 0..MaxBigint]
  /\ NoWallet \notin Wallets /\ Nobody \notin Attempts /\ NoKey \notin Keys
  /\ \A q \in Wanted :
       /\ q.from \in Wallets /\ q.to \in Int /\ q.amount \in Int
       /\ q.key \in Keys \cup {NoKey} /\ q.reference \in {"fits", "long"}

VARIABLES
  balance, frozen, transactions, issuances, \* the ledger (AbstractLedger)
  entries,  \* rows of ledger_entries
  request,  \* what each attempt asks
  pc,       \* the next step of each attempt
  found,    \* the ledger's result, and the detail fetched, of each attempt
  answer,   \* the HTTP answer of each attempt
  audit,    \* rows of audit_logs
  events,   \* live events published
  known     \* history: the payments an attempt is a retry of, when it begins

ledgerVars == <<balance, frozen, transactions, issuances>>
vars == <<balance, frozen, transactions, issuances, cache, entries, request,
          pc, found, answer, audit, events, known>>

Led == INSTANCE AbstractLedger WITH
         Ids <- Attempts, Keys <- Keys,
         Amounts <- {q.amount : q \in Wanted}

-----------------------------------------------------------------------------
LedgerEntry ==
  [txn: Attempts, wallet: Wallets, balance_after: 0..MaxBigint]

\* ledger.TransferResult and TransactionDetail.  After a replay the balances are
\* zero.  counterparty: whose full name the detail shows (NoWallet: none).
TransferResult ==
  [txn: Attempts \cup {Nobody}, replay: BOOLEAN, sender_balance: 0..MaxBigint,
   receiver_balance: 0..MaxBigint, counterparty: Wallets \cup {NoWallet}]

NoResult ==
  [txn |-> Nobody, replay |-> FALSE, sender_balance |-> 0,
   receiver_balance |-> 0, counterparty |-> NoWallet]

SendResponse ==
  [txn: Attempts, new_balance: 0..MaxBigint,
   counterparty: Wallets \cup {NoWallet}]

\* One per publisher.Publish call; `by` tells the calls apart.
Event ==
  [by: Attempts, wallet: Wallets, txn: Attempts,
   direction: {"DEBIT", "CREDIT"}, amount: Int,
   counterparty: Wallets \cup {NoWallet}, new_balance: 0..MaxBigint]

AuditRow == [by: Attempts, actor: Wallets, txn: Attempts, amount: Int]

LedgerRefusals == {"ErrWalletNotFound", "ErrWalletFrozen", "ErrInsufficientFunds"}
InputErrors ==
  {"ErrAmountZero", "ErrReferenceTooLong", "ErrMissingIdempotencyKey",
   "ErrSelfPayment"}

Init ==
  /\ Led!AbsInit
  /\ StoreInit
  /\ entries = {}
  /\ request \in [Attempts -> Wanted]
  /\ pc = [a \in Attempts |-> "start"]
  /\ found = [a \in Attempts |-> NoResult]
  /\ answer = [a \in Attempts |-> [outcome |-> "none", body |-> NoResponse]]
  /\ audit = {}
  /\ events = {}
  /\ known = [a \in Attempts |-> {}]

-----------------------------------------------------------------------------
Goto(a, label) == pc' = [pc EXCEPT ![a] = label]

Answer(a, outcome, body) ==
  /\ Goto(a, "done")
  /\ answer' = [answer EXCEPT ![a] = [outcome |-> outcome, body |-> body]]

Fails(a, outcome) ==
  /\ Answer(a, outcome, NoResponse)
  /\ UNCHANGED <<ledgerVars, entries, cache, found, audit, events>>

\* The committed payments under the key of attempt a.
GetTransactionByIdempotencyKey(a) ==
  {t \in transactions : t.sender = request[a].from /\ t.key = request[a].key}

\* SendRequest.Validate, then the key, then the receiver.
InputError(q) ==
  IF q.amount <= 0 THEN "ErrAmountZero"
  ELSE IF q.reference = "long" THEN "ErrReferenceTooLong"
  ELSE IF q.key = NoKey THEN "ErrMissingIdempotencyKey"
  ELSE IF q.from = q.to THEN "ErrSelfPayment"
  ELSE "none"

Validate(a) ==
  /\ pc[a] = "start"
  /\ known' = [known EXCEPT ![a] =
                 {t.id : t \in GetTransactionByIdempotencyKey(a)}]
  /\ LET error == InputError(request[a])
     IN \/ error # "none" /\ Answer(a, error, NoResponse)
        \/ error = "none" /\ Goto(a, "redis") /\ UNCHANGED answer
  /\ UNCHANGED <<ledgerVars, entries, cache, found, audit, events, request>>

\* A hit is answered from Redis alone.  A miss, an error of Redis and a value
\* that does not parse all go on to the ledger.
CheckRedis(a) ==
  /\ pc[a] = "redis"
  /\ LET hit == Cached(request[a].from, request[a].key)
     IN \/ hit # NoResponse /\ Answer(a, "ok", hit)
        \/ Goto(a, "lookup") /\ UNCHANGED answer
  /\ UNCHANGED <<ledgerVars, entries, cache, found, audit, events, request, known>>

\* (wrong) no lookup: Redis alone guards against retries.
LookupResults_None(a) == {}

LookupResults(a) == GetTransactionByIdempotencyKey(a)

\* The lookup that opens ledger.Transfer, outside the posting.
LookupKey(a) ==
  /\ pc[a] = "lookup"
  /\ \/ /\ \E t \in LookupResults(a) :
             found' = [found EXCEPT ![a] =
                         [NoResult EXCEPT !.txn = t.id, !.replay = TRUE]]
        /\ Goto(a, "fetch")
     \/ /\ LookupResults(a) = {}
        /\ Goto(a, "post")
        /\ UNCHANGED found
  /\ UNCHANGED <<ledgerVars, entries, cache, answer, audit, events, request, known>>

\* (wrong) the amount is taken off the balance a second time.
SenderBalance_Twice(a) == balance'[request[a].from] - request[a].amount

\* The balance that RETURNING reports for the debit.
SenderBalance(a) == balance'[request[a].from]

\* The posting commits; the reply to the commit arrives or is lost.
PostTransfer(a) ==
  LET q == request[a]
  IN /\ pc[a] = "post"
     /\ q.to \in Wallets
     /\ Led!PostTransfer(a, q.from, q.to, q.amount, q.key)
     /\ entries' = entries \cup
          {[txn |-> a, wallet |-> w, balance_after |-> balance'[w]] :
             w \in {q.from, q.to}}
     /\ \/ /\ found' = [found EXCEPT ![a] =
                [NoResult EXCEPT !.txn = a,
                                 !.sender_balance = SenderBalance(a),
                                 !.receiver_balance = balance'[q.to]]]
           /\ Goto(a, "fetch")
           /\ UNCHANGED answer
        \/ Answer(a, "error", NoResponse) /\ UNCHANGED found
     /\ UNCHANGED <<cache, audit, events, request, known>>

\* The ledger's reason for refusing, on the rows as they are now.
Refusal(a, outcome) ==
  LET q == request[a]
  IN CASE outcome = "ErrWalletNotFound" -> q.to \notin Wallets
       [] outcome = "ErrWalletFrozen" ->
            q.to \in Wallets /\ (frozen[q.from] \/ frozen[q.to])
       [] outcome = "ErrInsufficientFunds" ->
            /\ q.to \in Wallets /\ ~frozen[q.from] /\ ~frozen[q.to]
            /\ balance[q.from] < q.amount

RefuseTransfer(a) ==
  /\ pc[a] = "post"
  /\ \E outcome \in LedgerRefusals : Refusal(a, outcome) /\ Fails(a, outcome)
  /\ UNCHANGED <<request, known>>

\* The lookup or a statement of the transfer fails, the unique index or the
\* column's width among the reasons.
LedgerError(a) ==
  /\ pc[a] \in {"lookup", "post"}
  /\ Fails(a, "error")
  /\ UNCHANGED <<request, known>>

AfterFetch(a) == IF found[a].replay THEN "audit" ELSE "store"

\* GetByID: the sender's view of the transaction, with the receiver's name; on
\* an error detailFromLedger, without a name.
FetchDetail(a) ==
  /\ pc[a] = "fetch"
  /\ \E t \in {u \in transactions : u.id = found[a].txn},
        named \in BOOLEAN :
       found' = [found EXCEPT ![a].counterparty =
                   IF named THEN t.receiver ELSE NoWallet]
  /\ Goto(a, AfterFetch(a))
  /\ UNCHANGED <<ledgerVars, entries, cache, answer, audit, events, request, known>>

Response(a) ==
  [txn |-> found[a].txn, new_balance |-> found[a].sender_balance,
   counterparty |-> found[a].counterparty]

\* Errors of the store are ignored.
StoreInRedis(a) ==
  /\ pc[a] = "store"
  /\ \/ StoreResponse(request[a].from, request[a].key, Response(a))
     \/ UNCHANGED cache
  /\ Goto(a, "audit")
  /\ UNCHANGED <<ledgerVars, entries, found, answer, audit, events, request, known>>

\* (wrong) a replay publishes its events again.
AfterAudit_Always(a) == "notify_sender"

AfterAudit(a) == IF found[a].replay THEN "reply" ELSE "notify_sender"

\* audit.Log, whose errors are dropped.
AuditLog(a) ==
  /\ pc[a] = "audit"
  /\ \/ audit' = audit \cup
          {[by |-> a, actor |-> request[a].from, txn |-> found[a].txn,
            amount |-> request[a].amount]}
     \/ UNCHANGED audit
  /\ Goto(a, AfterAudit(a))
  /\ UNCHANGED <<ledgerVars, entries, cache, found, answer, events, request, known>>

\* publisher.Publish, whose errors are dropped.
Publish(a, wallet, direction, newBalance, next) ==
  /\ \/ events' = events \cup
          {[by |-> a, wallet |-> wallet, txn |-> found[a].txn,
            direction |-> direction, amount |-> request[a].amount,
            counterparty |-> found[a].counterparty, new_balance |-> newBalance]}
     \/ UNCHANGED events
  /\ Goto(a, next)
  /\ UNCHANGED <<ledgerVars, entries, cache, found, answer, audit, request, known>>

NotifySender(a) ==
  /\ pc[a] = "notify_sender"
  /\ Publish(a, request[a].from, "DEBIT", found[a].sender_balance,
             "notify_receiver")

NotifyReceiver(a) ==
  /\ pc[a] = "notify_receiver"
  /\ Publish(a, request[a].to, "CREDIT", found[a].receiver_balance, "reply")

Reply(a) ==
  /\ pc[a] = "reply"
  /\ Answer(a, "ok", Response(a))
  /\ UNCHANGED <<ledgerVars, entries, cache, found, audit, events, request, known>>

\* The process dies, or the connection to the client: no answer.
Die(a) ==
  /\ pc[a] \notin {"start", "done", "dead"}
  /\ Goto(a, "dead")
  /\ UNCHANGED <<ledgerVars, entries, cache, found, answer, audit, events,
                 request, known>>

\* Redis forgets a key.
ForgetKey ==
  /\ \E k \in RedisKeys : Forget(k)
  /\ UNCHANGED <<ledgerVars, entries, request, pc, found, answer, audit, events,
                 known>>

\* An operator freezes or thaws a wallet.
SetFrozen(w) ==
  /\ Led!AbsSetFrozen(w)
  /\ UNCHANGED <<entries, cache, request, pc, found, answer, audit, events, known>>

Next ==
  \/ \E a \in Attempts :
       \/ Validate(a) \/ CheckRedis(a) \/ LookupKey(a) \/ PostTransfer(a)
       \/ RefuseTransfer(a) \/ LedgerError(a) \/ FetchDetail(a)
       \/ StoreInRedis(a) \/ AuditLog(a) \/ NotifySender(a) \/ NotifyReceiver(a)
       \/ Reply(a) \/ Die(a)
  \/ ForgetKey
  \/ \E w \in Freezable : SetFrozen(w)

Spec == Init /\ [][Next]_vars

-----------------------------------------------------------------------------
\* Types, among them that no response, event or row of the ledger holds a balance
\* below zero.
TypeOK ==
  /\ balance \in [Wallets -> 0..MaxBigint]
  /\ frozen \in [Wallets -> BOOLEAN]
  /\ entries \subseteq LedgerEntry
  /\ cache \in [RedisKeys -> SendResponse \cup {NoResponse}]
  /\ request \in [Attempts -> Wanted]
  /\ pc \in [Attempts -> {"start", "redis", "lookup", "post", "fetch", "store",
                          "audit", "notify_sender", "notify_receiver", "reply",
                          "done", "dead"}]
  /\ found \in [Attempts -> TransferResult]
  /\ answer \in [Attempts ->
       [outcome: {"none", "ok", "error"} \cup LedgerRefusals \cup InputErrors,
        body: SendResponse \cup {NoResponse}]]
  /\ audit \subseteq AuditRow
  /\ events \subseteq Event
  /\ known \in [Attempts -> SUBSET Attempts]

\* The payment (id, sender, key) is committed.
Paid(id, from, key) ==
  \E t \in transactions : t.id = id /\ t.sender = from /\ t.key = key

\* Whatever order retries, crashes and evictions happen in, a response in Redis
\* is that of the committed payment of its scope and key, with the balance the
\* payment left.  A replay must not overwrite or fill it with its zero balance.
CacheTruthful ==
  \A w \in Wallets, k \in Keys :
    LET r == Cached(w, k)
    IN r # NoResponse =>
         /\ Paid(r.txn, w, k)
         /\ [txn |-> r.txn, wallet |-> w, balance_after |-> r.new_balance]
              \in entries

AnsweredOk(a) == pc[a] = "done" /\ answer[a].outcome = "ok"

\* All successful answers to one sender and key name one payment, and it is
\* committed: from Redis, from the ledger's replay or from the first try.  What Redis
\* keeps for the next one is true as well.
AnswersAgree ==
  /\ CacheTruthful
  /\ \A a, b \in Attempts :
       /\ AnsweredOk(a) =>
            Paid(answer[a].body.txn, request[a].from, request[a].key)
       /\ (/\ AnsweredOk(a) /\ AnsweredOk(b)
           /\ request[a].from = request[b].from /\ request[a].key = request[b].key)
          => answer[a].body.txn = answer[b].body.txn

\* A retry that begins after the payment committed, even one whose commit was
\* reported as an error, finds it: it is never refused for a wallet that was
\* frozen or emptied since, and never pays again.
RetryFindsPayment ==
  \A a \in Attempts : known[a] # {} =>
    /\ answer[a].outcome \notin LedgerRefusals
    /\ AnsweredOk(a) => answer[a].body.txn \in known[a]
    /\ \A t \in transactions : t.id # a

\* Live events tell of committed payments only, to their parties, with the
\* amount and the balance of the ledger, and at most once to each.
EventsTruthful ==
  /\ \A e \in events : \E t \in transactions :
       /\ t.id = e.txn /\ t.amount = e.amount
       /\ e.wallet = IF e.direction = "DEBIT" THEN t.sender ELSE t.receiver
       /\ [txn |-> e.txn, wallet |-> e.wallet, balance_after |-> e.new_balance]
            \in entries
  /\ \A e, f \in events : e.txn = f.txn /\ e.wallet = f.wallet => e = f
=============================================================================
