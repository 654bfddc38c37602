--------------------------- MODULE PaymentProofs ---------------------------
(***************************************************************************)
(* Proofs about Payment, for any wallets, attempts, requests, keys and      *)
(* opening balances.                                                        *)
(***************************************************************************)
EXTENDS Payment, TLAPS

\* Where an attempt is once the ledger has answered it, and once it has tried
\* to publish the event of the payer, and of the payee.
Served == {"fetch", "store", "audit", "notify_sender", "notify_receiver", "reply"}
Past == Served \cup {"done", "dead"}
AfterDebit == {"notify_receiver", "reply", "done", "dead"}
AfterCredit == {"reply", "done", "dead"}

\* The one row that attempt a may commit.
PaymentRow(a) ==
  [id |-> a, type |-> "TRANSFER", status |-> "SETTLED",
   sender |-> request[a].from, receiver |-> request[a].to,
   amount |-> request[a].amount, key |-> request[a].key]

Valid(q) ==
  q.amount > 0 /\ q.key # NoKey /\ q.from # q.to

\* Each committed payment is that of an attempt that is past its posting.
Rows ==
  \A t \in transactions :
    /\ t.id \in Attempts /\ t = PaymentRow(t.id)
    /\ Valid(request[t.id]) /\ request[t.id].to \in Wallets
    /\ pc[t.id] \in Past

OncePerKey ==
  \A t, u \in transactions : t.sender = u.sender /\ t.key = u.key => t = u

Recorded(a, w, b) == [txn |-> a, wallet |-> w, balance_after |-> b] \in entries

\* What the ledger returned to attempt a: a committed payment of its key, and its
\* own one, with the balances of its entries, unless it is a replay.
FoundShape(a) ==
  /\ pc[a] \notin {"start", "done", "dead"} => Valid(request[a])
  /\ pc[a] \in Served =>
       /\ Paid(found[a].txn, request[a].from, request[a].key)
       /\ ~found[a].replay =>
            /\ found[a].txn = a
            /\ Recorded(a, request[a].from, found[a].sender_balance)
            /\ Recorded(a, request[a].to, found[a].receiver_balance)
  /\ pc[a] \in {"store", "notify_sender", "notify_receiver"} => ~found[a].replay

AnswerShape(a) ==
  /\ answer[a].outcome # "none" => pc[a] = "done"
  /\ answer[a].outcome = "ok" =>
       Paid(answer[a].body.txn, request[a].from, request[a].key)

\* A retry of a payment that was committed when it began never gets to post.
KnownShape(a) ==
  /\ \A id \in known[a] : Paid(id, request[a].from, request[a].key)
  /\ known[a] # {} =>
       /\ pc[a] \notin {"start", "post"}
       /\ answer[a].outcome \notin LedgerRefusals
       /\ \A t \in transactions : t.id # a

Shape(a) == FoundShape(a) /\ AnswerShape(a) /\ KnownShape(a)

\* Event e tells of the payment of the attempt that published it.
EventTrue(e) ==
  \E t \in transactions :
    /\ t.id = e.txn /\ t.amount = e.amount
    /\ e.wallet = IF e.direction = "DEBIT" THEN t.sender ELSE t.receiver
    /\ [txn |-> e.txn, wallet |-> e.wallet, balance_after |-> e.new_balance]
         \in entries

Events ==
  /\ \A e \in events :
       /\ EventTrue(e) /\ e.by = e.txn
       /\ e.direction = "DEBIT" => pc[e.by] \in AfterDebit
       /\ e.direction = "CREDIT" => pc[e.by] \in AfterCredit
  /\ \A e, f \in events : e.by = f.by /\ e.direction = f.direction => e = f

\* The inductive invariant.
Inv ==
  /\ TypeOK /\ Rows /\ OncePerKey /\ CacheTruthful /\ Events
  /\ \A a \in Attempts : Shape(a)

-----------------------------------------------------------------------------
\* What a request asks, from the assumption on the constants.
LEMMA RequestType ==
  ASSUME TypeOK, NEW a \in Attempts
  PROVE  /\ request[a].from \in Wallets /\ request[a].to \in Int
         /\ request[a].amount \in Int /\ request[a].key \in Keys \cup {NoKey}
         /\ Valid(request[a]) => request[a].key \in Keys
  BY PaymentAssumption DEF TypeOK, Valid

\* A committed payment names the attempt that made it, and a receiver that exists.
LEMMA PaidType ==
  ASSUME Inv, NEW id, NEW w, NEW k, Paid(id, w, k)
  PROVE  /\ id \in Attempts /\ w = request[id].from /\ k = request[id].key
         /\ request[id].to \in Wallets
  BY DEF Inv, Rows, Paid, PaymentRow

\* One sender and key, one payment.
LEMMA PaidOnce ==
  ASSUME Inv, NEW w, NEW k, NEW id, NEW jd, Paid(id, w, k), Paid(jd, w, k)
  PROVE  id = jd
  BY DEF Inv, OncePerKey, Paid

\* Payments and entries are only added, so what was recorded stays recorded.
LEMMA PaidStays ==
  ASSUME transactions \subseteq transactions'
  PROVE  \A id, w, k : Paid(id, w, k) => Paid(id, w, k)'
  BY DEF Paid

\* A step of attempt a leaves the shape of another attempt alone.
LEMMA Others ==
  ASSUME Inv, NEW a \in Attempts, NEW b \in Attempts, b # a,
         pc'[b] = pc[b], found'[b] = found[b], answer'[b] = answer[b],
         known'[b] = known[b], request' = request,
         transactions \subseteq transactions', entries \subseteq entries',
         \A t \in transactions' \ transactions : t.id = a
  PROVE  Shape(b)'
  <1>1. Shape(b)
    BY DEF Inv
  <1>2. FoundShape(b)'
    BY <1>1 DEF Shape, FoundShape, Paid, Recorded
  <1>3. AnswerShape(b)'
    BY <1>1 DEF Shape, AnswerShape, Paid
  <1>4. KnownShape(b)'
    BY <1>1 DEF Shape, KnownShape, Paid
  <1> QED
    BY <1>2, <1>3, <1>4 DEF Shape

\* Steps of attempt a that write neither the ledger nor the cache nor an event:
\* only the attempt itself is to be looked at.
LEMMA QuietStep ==
  ASSUME Inv, NEW a \in Attempts, NEW p,
         pc' = [pc EXCEPT ![a] = p],
         pc[a] \in Past => p \in Past,
         pc[a] \in AfterDebit => p \in AfterDebit,
         pc[a] \in AfterCredit => p \in AfterCredit,
         UNCHANGED <<transactions, entries, cache, events, request>>,
         \A b \in Attempts \ {a} :
           found'[b] = found[b] /\ answer'[b] = answer[b] /\ known'[b] = known[b],
         TypeOK', Shape(a)'
  PROVE  Inv'
  <1>1. \A b \in Attempts : pc'[b] = IF b = a THEN p ELSE pc[b]
    BY DEF Inv, TypeOK
  <1>2. Rows'
    BY <1>1 DEF Inv, Rows, PaymentRow
  <1>3. OncePerKey'
    BY DEF Inv, OncePerKey
  <1>4. CacheTruthful'
    BY DEF Inv, CacheTruthful, Cached, Paid
  <1>5. Events'
    BY <1>1 DEF Inv, Events, EventTrue, TypeOK, Event
  <1>6. \A b \in Attempts : Shape(b)'
    BY <1>1, Others
  <1> QED
    BY <1>2, <1>3, <1>4, <1>5, <1>6 DEF Inv

LEMMA InvInit == Init => Inv
  <1> SUFFICES ASSUME Init PROVE Inv
    OBVIOUS
  <1>1. TypeOK
    BY PaymentAssumption DEF Init, Led!AbsInit, StoreInit, TypeOK, TransferResult, NoResult
  <1>2. Rows /\ OncePerKey
    BY DEF Init, Led!AbsInit, Rows, OncePerKey
  <1>3. CacheTruthful
    BY PaymentAssumption DEF Init, StoreInit, CacheTruthful, Cached, buildKey, RedisKeys
  <1>4. Events
    BY DEF Init, Events
  <1>5. ASSUME NEW a \in Attempts PROVE Shape(a)
    BY DEF Init, Shape, FoundShape, AnswerShape, KnownShape, Served
  <1> QED
    BY <1>1, <1>2, <1>3, <1>4, <1>5 DEF Inv

-----------------------------------------------------------------------------
\* Failures, death and the steps up to the posting.
LEMMA FailsInv ==
  ASSUME Inv, NEW a \in Attempts, pc[a] \in {"lookup", "post"},
         NEW o, o = "error" \/ (pc[a] = "post" /\ o \in LedgerRefusals),
         Fails(a, o), UNCHANGED <<request, known>>
  PROVE  Inv'
  <1>1. /\ pc' = [pc EXCEPT ![a] = "done"]
        /\ answer' = [answer EXCEPT ![a] = [outcome |-> o, body |-> NoResponse]]
        /\ UNCHANGED <<balance, frozen, transactions, issuances, entries, cache,
                       found, audit, events, request, known>>
    BY DEF Fails, Answer, Goto, ledgerVars
  <1>2. TypeOK'
    BY <1>1 DEF Inv, TypeOK
  <1>3. pc'[a] = "done" /\ answer'[a].outcome = o
    BY <1>1 DEF Inv, TypeOK
  <1>4. Shape(a)
    BY DEF Inv
  <1>5. Shape(a)'
    <2>1. FoundShape(a)'
      BY <1>3 DEF FoundShape, Served
    <2>2. AnswerShape(a)'
      BY <1>3 DEF AnswerShape, LedgerRefusals
    <2>3. KnownShape(a)'
      BY <1>1, <1>3, <1>4 DEF Shape, KnownShape, Paid, LedgerRefusals
    <2> QED
      BY <2>1, <2>2, <2>3 DEF Shape
  <1> QED
    BY <1>1, <1>2, <1>5, QuietStep DEF Past, AfterDebit, AfterCredit, Inv, TypeOK

LEMMA ValidateInv ==
  ASSUME Inv, NEW a \in Attempts, Validate(a)
  PROVE  Inv'
  <1>1. /\ pc[a] = "start" /\ Shape(a)
        /\ UNCHANGED <<balance, frozen, transactions, issuances, entries, cache,
                       found, audit, events, request>>
        /\ known' = [known EXCEPT ![a] = {t.id : t \in GetTransactionByIdempotencyKey(a)}]
    BY DEF Validate, Inv, ledgerVars
  <1>2. PICK p \in {"redis", "done"} :
          /\ pc' = [pc EXCEPT ![a] = p]
          /\ \/ /\ p = "redis" /\ answer' = answer
                /\ InputError(request[a]) = "none"
             \/ /\ p = "done" /\ InputError(request[a]) # "none"
                /\ answer' = [answer EXCEPT ![a] =
                     [outcome |-> InputError(request[a]), body |-> NoResponse]]
    BY DEF Validate, Answer, Goto
  <1>3. InputError(request[a]) \in InputErrors \cup {"none"}
    BY DEF InputError, InputErrors
  <1>4. known'[a] = {t.id : t \in GetTransactionByIdempotencyKey(a)}
        /\ known'[a] \subseteq Attempts
    BY <1>1 DEF Inv, TypeOK, Rows, GetTransactionByIdempotencyKey
  <1>5. TypeOK'
    BY <1>1, <1>2, <1>3, <1>4 DEF Inv, TypeOK
  <1>6. pc'[a] = p
    BY <1>2 DEF Inv, TypeOK
  <1>7. FoundShape(a)'
    <2>1. p = "redis" => Valid(request[a])
      BY <1>2, RequestType DEF InputError, Valid, Inv
    <2> QED
      BY <1>1, <1>6, <2>1 DEF FoundShape, Served
  <1>8. answer'[a].outcome \in InputErrors \cup {"none"}
        /\ (answer'[a].outcome # "none" => p = "done")
    <2>1. answer[a].outcome = "none"
      BY <1>1 DEF Shape, AnswerShape
    <2> QED
      BY <1>2, <1>3, <2>1 DEF Inv, TypeOK
  <1>9. AnswerShape(a)'
    BY <1>6, <1>8 DEF AnswerShape, InputErrors
  <1>10. KnownShape(a)'
    <2>1. \A t \in transactions : t.id # a
      BY <1>1 DEF Inv, Rows, Past, Served
    <2>2. \A id \in known'[a] : Paid(id, request[a].from, request[a].key)
      BY <1>4 DEF GetTransactionByIdempotencyKey, Paid
    <2> QED
      BY <1>1, <1>6, <1>8, <2>1, <2>2 DEF KnownShape, Paid, InputErrors, LedgerRefusals
  <1>11. Shape(a)'
    BY <1>7, <1>9, <1>10 DEF Shape
  <1> QED
    BY <1>1, <1>2, <1>5, <1>11, QuietStep
       DEF Past, Served, AfterDebit, AfterCredit, Inv, TypeOK

LEMMA CheckRedisInv ==
  ASSUME Inv, NEW a \in Attempts, CheckRedis(a)
  PROVE  Inv'
  <1> DEFINE hit == Cached(request[a].from, request[a].key)
  <1>1. /\ pc[a] = "redis" /\ Shape(a)
        /\ UNCHANGED <<balance, frozen, transactions, issuances, entries, cache,
                       found, audit, events, request, known>>
    BY DEF CheckRedis, Inv, ledgerVars
  <1>2. request[a].from \in Wallets /\ request[a].key \in Keys
    BY <1>1, RequestType DEF Shape, FoundShape, Inv
  <1>3. hit # NoResponse =>
          hit \in SendResponse /\ Paid(hit.txn, request[a].from, request[a].key)
    BY <1>2, PaymentAssumption
       DEF Inv, TypeOK, CacheTruthful, Cached, buildKey, RedisKeys
  <1>4. CASE hit # NoResponse /\ Answer(a, "ok", hit)
    <2>1. /\ pc' = [pc EXCEPT ![a] = "done"]
          /\ answer' = [answer EXCEPT ![a] = [outcome |-> "ok", body |-> hit]]
      BY <1>4 DEF Answer, Goto
    <2>2. TypeOK'
      BY <1>1, <1>3, <1>4, <2>1 DEF Inv, TypeOK
    <2>3. pc'[a] = "done" /\ answer'[a].outcome = "ok" /\ answer'[a].body = hit
      BY <2>1 DEF Inv, TypeOK
    <2>4. Shape(a)'
      <3>1. FoundShape(a)'
        BY <2>3 DEF FoundShape, Served
      <3>2. AnswerShape(a)'
        BY <1>1, <1>3, <1>4, <2>3 DEF AnswerShape, Paid
      <3>3. KnownShape(a)'
        BY <1>1, <2>3 DEF Shape, KnownShape, Paid, LedgerRefusals
      <3> QED
        BY <3>1, <3>2, <3>3 DEF Shape
    <2> QED
      BY <1>1, <2>1, <2>2, <2>4, QuietStep DEF Past, AfterDebit, AfterCredit, Inv, TypeOK
  <1>5. CASE Goto(a, "lookup") /\ answer' = answer
    <2>1. pc' = [pc EXCEPT ![a] = "lookup"]
      BY <1>5 DEF Goto
    <2>2. TypeOK'
      BY <1>1, <1>5, <2>1 DEF Inv, TypeOK
    <2>3. pc'[a] = "lookup"
      BY <2>1 DEF Inv, TypeOK
    <2>4. Shape(a)'
      BY <1>1, <1>5, <2>3 DEF Shape, FoundShape, AnswerShape, KnownShape, Paid, Served
    <2> QED
      BY <1>1, <1>5, <2>1, <2>2, <2>4, QuietStep
         DEF Past, Served, AfterDebit, AfterCredit, Inv, TypeOK
  <1> QED
    BY <1>4, <1>5 DEF CheckRedis

\* The lookup finds every payment that was known when the attempt began.
LEMMA LookupKeyInv ==
  ASSUME Inv, NEW a \in Attempts, LookupKey(a)
  PROVE  Inv'
  <1>1. /\ pc[a] = "lookup" /\ Shape(a)
        /\ UNCHANGED <<balance, frozen, transactions, issuances, entries, cache,
                       answer, audit, events, request, known>>
    BY DEF LookupKey, Inv, ledgerVars
  <1>2. ASSUME NEW t \in LookupResults(a), Goto(a, "fetch"),
               found' = [found EXCEPT ![a] = [NoResult EXCEPT !.txn = t.id, !.replay = TRUE]]
        PROVE  Inv'
    <2>1. pc' = [pc EXCEPT ![a] = "fetch"]
      BY <1>2 DEF Goto
    <2>2. Paid(t.id, request[a].from, request[a].key)
      BY <1>2 DEF LookupResults, GetTransactionByIdempotencyKey, Paid
    <2>3. [NoResult EXCEPT !.txn = t.id, !.replay = TRUE] \in TransferResult
      <3>1. t.id \in Attempts /\ 0 \in 0..MaxBigint
        BY <2>2, PaidType, PaymentAssumption
      <3> QED
        BY <3>1 DEF NoResult, TransferResult
    <2>4. TypeOK'
      BY <1>1, <1>2, <2>1, <2>3 DEF Inv, TypeOK
    <2>5. pc'[a] = "fetch" /\ found'[a].txn = t.id /\ found'[a].replay
      BY <1>2, <2>1 DEF Inv, TypeOK, NoResult
    <2>6. FoundShape(a)'
      BY <1>1, <2>2, <2>5 DEF Shape, FoundShape, Paid, Served
    <2>7. AnswerShape(a)' /\ KnownShape(a)'
      BY <1>1, <2>5 DEF Shape, AnswerShape, KnownShape, Paid
    <2> QED
      BY <1>1, <1>2, <2>1, <2>4, <2>6, <2>7, QuietStep
         DEF Past, Served, AfterDebit, AfterCredit, Inv, TypeOK, Shape
  <1>3. CASE LookupResults(a) = {} /\ Goto(a, "post") /\ found' = found
    <2>1. pc' = [pc EXCEPT ![a] = "post"]
      BY <1>3 DEF Goto
    <2>2. TypeOK'
      BY <1>1, <1>3, <2>1 DEF Inv, TypeOK
    <2>3. pc'[a] = "post"
      BY <2>1 DEF Inv, TypeOK
    <2>4. known[a] = {}
      BY <1>1, <1>3 DEF Shape, KnownShape, Paid, LookupResults, GetTransactionByIdempotencyKey
    <2>5. Shape(a)'
      BY <1>1, <1>3, <2>3, <2>4 DEF Shape, FoundShape, AnswerShape, KnownShape, Paid, Served
    <2> QED
      BY <1>1, <1>3, <2>1, <2>2, <2>5, QuietStep
         DEF Past, Served, AfterDebit, AfterCredit, Inv, TypeOK
  <1> QED
    BY <1>2, <1>3 DEF LookupKey

-----------------------------------------------------------------------------
\* The posting.

\* A posting adds the attempt's own row, leaves every balance in range, and is
\* the first under its key.
LEMMA PostingWrites ==
  ASSUME Inv, NEW a \in Attempts, PostTransfer(a)
  PROVE  /\ balance' \in [Wallets -> 0..MaxBigint]
         /\ transactions' = transactions \cup {PaymentRow(a)}
         /\ entries' = entries \cup
              {[txn |-> a, wallet |-> w, balance_after |-> balance'[w]] :
                 w \in {request[a].from, request[a].to}}
         /\ Valid(request[a])
         /\ request[a].from \in Wallets /\ request[a].to \in Wallets
         /\ \A t \in transactions : t.sender = request[a].from => t.key # request[a].key
         /\ UNCHANGED <<frozen, issuances, cache, audit, events, request, known>>
  <1> DEFINE q == request[a]
  <1>1. /\ pc[a] = "post" /\ q.to \in Wallets
        /\ Led!PostTransfer(a, q.from, q.to, q.amount, q.key)
        /\ entries' = entries \cup
             {[txn |-> a, wallet |-> w, balance_after |-> balance'[w]] :
                w \in {q.from, q.to}}
        /\ UNCHANGED <<cache, audit, events, request, known>>
    BY DEF PostTransfer
  <1>2. q.from \in Wallets /\ q.amount \in Int /\ MaxBigint \in Nat
    BY RequestType, PaymentAssumption DEF Inv
  <1>3. Valid(q)
    BY <1>1 DEF Inv, Shape, FoundShape
  <1>4. /\ q.from # q.to /\ q.amount > 0
        /\ balance[q.from] >= q.amount /\ balance[q.to] + q.amount <= MaxBigint
        /\ balance' = [balance EXCEPT ![q.from] = @ - q.amount, ![q.to] = @ + q.amount]
        /\ UNCHANGED <<frozen, issuances>>
    BY <1>1 DEF Led!PostTransfer
  <1>5. balance \in [Wallets -> 0..MaxBigint]
    BY DEF Inv, TypeOK
  <1>6. balance' \in [Wallets -> 0..MaxBigint]
    <2>1. balance[q.from] \in 0..MaxBigint /\ balance[q.to] \in 0..MaxBigint
      BY ONLY <1>1, <1>2, <1>5
    <2>2. balance[q.from] - q.amount \in 0..MaxBigint
          /\ balance[q.to] + q.amount \in 0..MaxBigint
      BY ONLY <1>2, <1>4, <2>1
    <2> QED
      BY ONLY <1>1, <1>2, <1>4, <1>5, <2>2
  <1>7. transactions' = transactions \cup {PaymentRow(a)}
    BY <1>1 DEF Led!PostTransfer, PaymentRow
  <1>8. \A t \in transactions : t.sender = q.from => t.key # q.key
    BY <1>1, <1>3 DEF Led!PostTransfer, Led!KeyUnused, Valid
  <1> QED
    BY <1>1, <1>2, <1>3, <1>4, <1>6, <1>7, <1>8

LEMMA PostTransferInv ==
  ASSUME Inv, NEW a \in Attempts, PostTransfer(a)
  PROVE  Inv'
  <1> DEFINE q == request[a]
  <1>1. pc[a] = "post" /\ Shape(a)
    BY DEF PostTransfer, Inv
  <1>2. PICK p \in {"fetch", "done"} :
          /\ pc' = [pc EXCEPT ![a] = p]
          /\ \/ /\ p = "fetch" /\ answer' = answer
                /\ found' = [found EXCEPT ![a] =
                     [NoResult EXCEPT !.txn = a,
                                      !.sender_balance = balance'[q.from],
                                      !.receiver_balance = balance'[q.to]]]
             \/ /\ p = "done" /\ found' = found
                /\ answer' = [answer EXCEPT ![a] =
                     [outcome |-> "error", body |-> NoResponse]]
    BY DEF PostTransfer, Answer, Goto, SenderBalance
  <1>3. /\ balance' \in [Wallets -> 0..MaxBigint]
        /\ transactions' = transactions \cup {PaymentRow(a)}
        /\ entries' = entries \cup
             {[txn |-> a, wallet |-> w, balance_after |-> balance'[w]] : w \in {q.from, q.to}}
        /\ Valid(q) /\ q.from \in Wallets /\ q.to \in Wallets
        /\ \A t \in transactions : t.sender = q.from => t.key # q.key
        /\ UNCHANGED <<frozen, issuances, cache, audit, events, request, known>>
    BY PostingWrites
  <1>4. balance'[q.from] \in 0..MaxBigint /\ balance'[q.to] \in 0..MaxBigint
    BY <1>3
  <1>5. [NoResult EXCEPT !.txn = a, !.sender_balance = balance'[q.from],
                         !.receiver_balance = balance'[q.to]] \in TransferResult
    BY <1>4 DEF NoResult, TransferResult
  <1>6. TypeOK'
    <2>1. entries' \subseteq LedgerEntry
      BY <1>3, <1>4 DEF Inv, TypeOK, LedgerEntry
    <2>2. found' \in [Attempts -> TransferResult]
      BY <1>2, <1>5 DEF Inv, TypeOK
    <2>3. answer' \in [Attempts ->
            [outcome: {"none", "ok", "error"} \cup LedgerRefusals \cup InputErrors,
             body: SendResponse \cup {NoResponse}]]
      BY <1>2 DEF Inv, TypeOK
    <2>4. pc' \in [Attempts ->
            {"start", "redis", "lookup", "post", "fetch", "store", "audit",
             "notify_sender", "notify_receiver", "reply", "done", "dead"}]
      BY <1>2 DEF Inv, TypeOK
    <2> QED
      BY <1>3, <2>1, <2>2, <2>3, <2>4 DEF Inv, TypeOK
  <1>7. \A b \in Attempts : pc'[b] = IF b = a THEN p ELSE pc[b]
    BY <1>2 DEF Inv, TypeOK
  <1>8. /\ PaymentRow(a).id = a
        /\ PaymentRow(a).sender = q.from /\ PaymentRow(a).key = q.key
    BY DEF PaymentRow
  <1>9. Rows'
    <2>1. ASSUME NEW t \in transactions'
          PROVE  /\ t.id \in Attempts /\ t = PaymentRow(t.id)
                 /\ Valid(request[t.id]) /\ request[t.id].to \in Wallets
                 /\ pc'[t.id] \in Past
      <3>1. CASE t \in transactions
        BY <1>1, <1>7, <3>1 DEF Inv, Rows, Past, Served
      <3>2. CASE t = PaymentRow(a)
        BY <1>3, <1>7, <1>8, <3>2 DEF Past, Served
      <3> QED
        BY <1>3, <3>1, <3>2
    <2> QED
      BY <1>3, <2>1 DEF Rows, PaymentRow
  <1>10. OncePerKey'
    BY <1>3, <1>8 DEF Inv, OncePerKey
  <1>11. CacheTruthful'
    BY <1>3 DEF Inv, CacheTruthful, Cached, Paid
  <1>12. Events'
    <2>1. \A e \in events : EventTrue(e)'
      BY <1>3 DEF Inv, Events, EventTrue
    <2> QED
      BY <1>1, <1>3, <1>7, <2>1
         DEF Inv, Events, TypeOK, Event, AfterDebit, AfterCredit
  <1>13. Shape(a)'
    <2>1. Paid(a, q.from, q.key)'
      BY <1>3, <1>8 DEF Paid
    <2>2. /\ Recorded(a, q.from, balance[q.from])'
          /\ Recorded(a, q.to, balance[q.to])'
      BY <1>3 DEF Recorded
    <2>3. CASE p = "fetch"
      <3>1. /\ pc'[a] = "fetch" /\ answer' = answer
            /\ found'[a].txn = a /\ found'[a].sender_balance = balance'[q.from]
            /\ found'[a].receiver_balance = balance'[q.to]
        <4>1. /\ answer' = answer /\ found' = [found EXCEPT ![a] =
                   [NoResult EXCEPT !.txn = a,
                                    !.sender_balance = balance'[q.from],
                                    !.receiver_balance = balance'[q.to]]]
          BY <1>2, <2>3
        <4>2. found'[a] = [NoResult EXCEPT !.txn = a,
                                           !.sender_balance = balance'[q.from],
                                           !.receiver_balance = balance'[q.to]]
          BY <4>1 DEF Inv, TypeOK
        <4>3. /\ found'[a].txn = a
              /\ found'[a].sender_balance = balance'[q.from]
              /\ found'[a].receiver_balance = balance'[q.to]
          BY ONLY <4>2 DEF NoResult
        <4> QED
          BY <1>7, <2>3, <4>1, <4>3
      <3>2. FoundShape(a)'
        BY <1>3, <2>1, <2>2, <3>1 DEF FoundShape, Served, Recorded
      <3>3. AnswerShape(a)'
        BY <1>1, <3>1 DEF Shape, AnswerShape
      <3>4. known'[a] = {}
        BY <1>1, <1>3 DEF Shape, KnownShape
      <3> QED
        BY <3>2, <3>3, <3>4 DEF Shape, KnownShape
    <2>4. CASE p = "done"
      <3>1. pc'[a] = "done" /\ answer'[a].outcome = "error"
        BY <1>2, <1>7, <2>4 DEF Inv, TypeOK
      <3>2. known'[a] = {}
        BY <1>1, <1>3 DEF Shape, KnownShape
      <3> QED
        BY <3>1, <3>2 DEF Shape, FoundShape, AnswerShape, KnownShape, Served
    <2> QED
      BY <2>3, <2>4
  <1>14. ASSUME NEW b \in Attempts, b # a PROVE Shape(b)'
    <2>1. /\ pc'[b] = pc[b] /\ found'[b] = found[b] /\ answer'[b] = answer[b]
          /\ known'[b] = known[b]
      BY <1>2, <1>3, <1>7, <1>14 DEF Inv, TypeOK
    <2> QED
      BY <1>3, <1>8, <1>14, <2>1, Others
  <1> QED
    BY <1>6, <1>9, <1>10, <1>11, <1>12, <1>13, <1>14 DEF Inv

-----------------------------------------------------------------------------
\* The steps after the ledger has answered.

\* What the attempt was given, from its shape.
LEMMA FoundFacts ==
  ASSUME Inv, NEW a \in Attempts, pc[a] \in Served
  PROVE  /\ found[a].txn \in Attempts
         /\ Paid(found[a].txn, request[a].from, request[a].key)
         /\ request[a].from \in Wallets /\ request[a].key \in Keys
         /\ request[a].amount \in Int
         /\ ~found[a].replay => found[a].txn = a /\ request[a].to \in Wallets
         /\ found[a].sender_balance \in 0..MaxBigint
         /\ found[a].receiver_balance \in 0..MaxBigint
         /\ found[a].counterparty \in Wallets \cup {NoWallet}
  <1>1. FoundShape(a) /\ Valid(request[a])
    BY DEF Inv, Shape, FoundShape, Served
  <1>2. Paid(found[a].txn, request[a].from, request[a].key)
    BY <1>1 DEF FoundShape
  <1>3. ~found[a].replay => found[a].txn = a
    BY <1>1 DEF FoundShape
  <1>4. found[a] \in TransferResult
    BY DEF Inv, TypeOK
  <1> QED
    BY <1>1, <1>2, <1>3, <1>4, PaidType, RequestType DEF Inv, TransferResult

LEMMA ResponseType ==
  ASSUME Inv, NEW a \in Attempts, pc[a] \in Served
  PROVE  Response(a) \in SendResponse /\ Response(a).txn = found[a].txn
  BY FoundFacts DEF Response, SendResponse

LEMMA FetchDetailInv ==
  ASSUME Inv, NEW a \in Attempts, FetchDetail(a)
  PROVE  Inv'
  <1>1. /\ pc[a] = "fetch" /\ Shape(a)
        /\ pc' = [pc EXCEPT ![a] = AfterFetch(a)]
        /\ UNCHANGED <<balance, frozen, transactions, issuances, entries, cache,
                       answer, audit, events, request, known>>
    BY DEF FetchDetail, Inv, Goto, ledgerVars
  <1>2. PICK c \in Wallets \cup {NoWallet} :
          found' = [found EXCEPT ![a].counterparty = c]
    <2>1. \A t \in transactions : t.receiver \in Wallets
      BY DEF Inv, Rows, PaymentRow
    <2> QED
      BY <2>1 DEF FetchDetail
  <1>3. found[a] \in TransferResult
    BY DEF Inv, TypeOK
  <1>4. found'[a] = [found[a] EXCEPT !.counterparty = c]
    BY <1>2 DEF Inv, TypeOK
  <1>5. /\ found'[a].txn = found[a].txn /\ found'[a].replay = found[a].replay
        /\ found'[a].sender_balance = found[a].sender_balance
        /\ found'[a].receiver_balance = found[a].receiver_balance
        /\ found'[a] \in TransferResult
    BY <1>3, <1>4 DEF TransferResult
  <1>6. AfterFetch(a) \in {"audit", "store"} /\ (AfterFetch(a) = "store" => ~found[a].replay)
    BY DEF AfterFetch
  <1>7. pc'[a] = AfterFetch(a)
    BY <1>1 DEF Inv, TypeOK
  <1>8. TypeOK'
    <2>1. found' \in [Attempts -> TransferResult]
      BY <1>2, <1>4, <1>5 DEF Inv, TypeOK
    <2> QED
      BY <1>1, <1>6, <2>1 DEF Inv, TypeOK
  <1>9. FoundShape(a)'
    BY <1>1, <1>5, <1>6, <1>7 DEF Shape, FoundShape, Served, Paid, Recorded
  <1>10. AnswerShape(a)' /\ KnownShape(a)'
    BY <1>1, <1>6, <1>7 DEF Shape, AnswerShape, KnownShape, Paid
  <1>11. \A b \in Attempts \ {a} : found'[b] = found[b]
    BY <1>2 DEF Inv, TypeOK
  <1> QED
    BY <1>1, <1>6, <1>8, <1>9, <1>10, <1>11, QuietStep
       DEF Past, Served, AfterDebit, AfterCredit, Shape

\* SETNX by the attempt that made the payment: it knows the balance.
LEMMA StoreInRedisInv ==
  ASSUME Inv, NEW a \in Attempts, StoreInRedis(a)
  PROVE  Inv'
  <1> DEFINE key == <<request[a].from, request[a].key>>
  <1>1. /\ pc[a] = "store" /\ Shape(a)
        /\ pc' = [pc EXCEPT ![a] = "audit"]
        /\ UNCHANGED <<balance, frozen, transactions, issuances, entries,
                       found, answer, audit, events, request, known>>
    BY DEF StoreInRedis, Inv, Goto, ledgerVars
  <1>2. \A k \in RedisKeys : cache'[k] = cache[k] \/ (k = key /\ cache'[k] = Response(a))
    BY DEF StoreInRedis, StoreResponse, buildKey, Inv, TypeOK
  <1>3. cache' \in [RedisKeys -> SendResponse \cup {NoResponse}]
    <2>1. Response(a) \in SendResponse
      BY <1>1, ResponseType DEF Served
    <2> QED
      BY <2>1 DEF StoreInRedis, StoreResponse, buildKey, Inv, TypeOK
  <1>4. TypeOK'
    BY <1>1, <1>3 DEF Inv, TypeOK
  <1>5. \A b \in Attempts : pc'[b] = IF b = a THEN "audit" ELSE pc[b]
    BY <1>1 DEF Inv, TypeOK
  <1>6. Rows'
    BY <1>1, <1>5 DEF Inv, Rows, PaymentRow, Past, Served
  <1>7. OncePerKey'
    BY <1>1 DEF Inv, OncePerKey
  <1>8. CacheTruthful'
    <2>1. /\ Paid(Response(a).txn, request[a].from, request[a].key)
          /\ Recorded(Response(a).txn, request[a].from, Response(a).new_balance)
      BY <1>1 DEF Shape, FoundShape, Served, Response
    <2>2. ASSUME NEW w \in Wallets, NEW k \in Keys, cache'[<<w, k>>] # NoResponse
          PROVE  /\ Paid(cache'[<<w, k>>].txn, w, k)
                 /\ Recorded(cache'[<<w, k>>].txn, w, cache'[<<w, k>>].new_balance)
      <3>1. <<w, k>> \in RedisKeys
        BY PaymentAssumption DEF RedisKeys
      <3>2. CASE cache'[<<w, k>>] = cache[<<w, k>>]
        BY <2>2, <3>2 DEF Inv, CacheTruthful, Cached, buildKey, Recorded
      <3>3. CASE <<w, k>> = key /\ cache'[<<w, k>>] = Response(a)
        <4>1. w = request[a].from /\ k = request[a].key
          BY <3>3
        <4> QED
          BY <2>1, <3>3, <4>1
      <3> QED
        BY <1>2, <3>1, <3>2, <3>3
    <2> QED
      BY <1>1, <2>2 DEF CacheTruthful, Cached, buildKey, Paid, Recorded
  <1>9. Events'
    BY <1>1, <1>5 DEF Inv, Events, EventTrue, TypeOK, Event, AfterDebit, AfterCredit
  <1>10. Shape(a)'
    BY <1>1, <1>5 DEF Shape, FoundShape, AnswerShape, KnownShape, Paid, Recorded, Served
  <1>11. \A b \in Attempts \ {a} : Shape(b)'
    BY <1>1, <1>5, Others
  <1> QED
    BY <1>4, <1>6, <1>7, <1>8, <1>9, <1>10, <1>11 DEF Inv

LEMMA AuditLogInv ==
  ASSUME Inv, NEW a \in Attempts, AuditLog(a)
  PROVE  Inv'
  <1>1. /\ pc[a] = "audit" /\ Shape(a)
        /\ pc' = [pc EXCEPT ![a] = AfterAudit(a)]
        /\ UNCHANGED <<balance, frozen, transactions, issuances, entries, cache,
                       found, answer, events, request, known>>
    BY DEF AuditLog, Inv, Goto, ledgerVars
  <1>2. AfterAudit(a) \in {"reply", "notify_sender"}
        /\ (AfterAudit(a) = "notify_sender" => ~found[a].replay)
    BY DEF AfterAudit
  <1>3. audit' \subseteq AuditRow
    BY <1>1, FoundFacts DEF AuditLog, Served, AuditRow, Inv, TypeOK
  <1>4. TypeOK'
    BY <1>1, <1>2, <1>3 DEF Inv, TypeOK
  <1>5. pc'[a] = AfterAudit(a)
    BY <1>1 DEF Inv, TypeOK
  <1>6. Shape(a)'
    BY <1>1, <1>2, <1>5
       DEF Shape, FoundShape, AnswerShape, KnownShape, Paid, Recorded, Served
  <1> QED
    BY <1>1, <1>2, <1>4, <1>6, QuietStep DEF Past, Served, AfterDebit, AfterCredit

LEMMA ReplyInv ==
  ASSUME Inv, NEW a \in Attempts, Reply(a)
  PROVE  Inv'
  <1>1. /\ pc[a] = "reply" /\ Shape(a)
        /\ pc' = [pc EXCEPT ![a] = "done"]
        /\ answer' = [answer EXCEPT ![a] = [outcome |-> "ok", body |-> Response(a)]]
        /\ UNCHANGED <<balance, frozen, transactions, issuances, entries, cache,
                       found, audit, events, request, known>>
    BY DEF Reply, Inv, Answer, Goto, ledgerVars
  <1>2. Response(a) \in SendResponse /\ Response(a).txn = found[a].txn
        /\ Paid(found[a].txn, request[a].from, request[a].key)
    BY <1>1, FoundFacts, ResponseType DEF Served
  <1>3. TypeOK'
    BY <1>1, <1>2 DEF Inv, TypeOK
  <1>4. pc'[a] = "done" /\ answer'[a].outcome = "ok" /\ answer'[a].body = Response(a)
    BY <1>1 DEF Inv, TypeOK
  <1>5. Shape(a)'
    <2>1. FoundShape(a)'
      BY <1>4 DEF FoundShape, Served
    <2>2. AnswerShape(a)'
      BY <1>1, <1>2, <1>4 DEF AnswerShape, Paid
    <2>3. KnownShape(a)'
      BY <1>1, <1>4 DEF Shape, KnownShape, Paid, LedgerRefusals
    <2> QED
      BY <2>1, <2>2, <2>3 DEF Shape
  <1> QED
    BY <1>1, <1>3, <1>5, QuietStep DEF Past, AfterDebit, AfterCredit, Inv, TypeOK

LEMMA DieInv ==
  ASSUME Inv, NEW a \in Attempts, Die(a)
  PROVE  Inv'
  <1>1. /\ pc[a] \notin {"start", "done", "dead"} /\ Shape(a)
        /\ pc' = [pc EXCEPT ![a] = "dead"]
        /\ UNCHANGED <<balance, frozen, transactions, issuances, entries, cache,
                       found, answer, audit, events, request, known>>
    BY DEF Die, Inv, Goto, ledgerVars
  <1>2. TypeOK'
    BY <1>1 DEF Inv, TypeOK
  <1>3. pc'[a] = "dead"
    BY <1>1 DEF Inv, TypeOK
  <1>4. Shape(a)'
    BY <1>1, <1>3 DEF Shape, FoundShape, AnswerShape, KnownShape, Paid, Served
  <1> QED
    BY <1>1, <1>2, <1>4, QuietStep DEF Past, AfterDebit, AfterCredit

\* One event of the attempt's own payment, to one of its parties, which it has not
\* published before.
LEMMA PublishInv ==
  ASSUME Inv, NEW a \in Attempts, pc[a] \in {"notify_sender", "notify_receiver"},
         NEW w, NEW direction, NEW b, NEW next,
         \/ /\ pc[a] = "notify_sender" /\ next = "notify_receiver"
            /\ direction = "DEBIT" /\ w = request[a].from
            /\ b = found[a].sender_balance
         \/ /\ pc[a] = "notify_receiver" /\ next = "reply"
            /\ direction = "CREDIT" /\ w = request[a].to
            /\ b = found[a].receiver_balance,
         Publish(a, w, direction, b, next)
  PROVE  Inv'
  <1> DEFINE new ==
        [by |-> a, wallet |-> w, txn |-> found[a].txn, direction |-> direction,
         amount |-> request[a].amount, counterparty |-> found[a].counterparty,
         new_balance |-> b]
  <1>1. /\ Shape(a) /\ ~found[a].replay
        /\ pc' = [pc EXCEPT ![a] = next]
        /\ events' \in {events, events \cup {new}}
        /\ UNCHANGED <<balance, frozen, transactions, issuances, entries, cache,
                       found, answer, audit, request, known>>
    BY DEF Publish, Inv, Goto, Shape, FoundShape, ledgerVars
  <1>2. /\ found[a].txn = a /\ Paid(a, request[a].from, request[a].key)
        /\ Recorded(a, w, b) /\ w \in Wallets /\ b \in 0..MaxBigint
        /\ request[a].amount \in Int
        /\ found[a].counterparty \in Wallets \cup {NoWallet}
    BY <1>1, FoundFacts DEF Shape, FoundShape, Served
  <1>3. new \in Event
    BY <1>2 DEF Event
  <1>4. TypeOK'
    BY <1>1, <1>3 DEF Inv, TypeOK
  <1>5. \A c \in Attempts : pc'[c] = IF c = a THEN next ELSE pc[c]
    BY <1>1 DEF Inv, TypeOK
  <1>6. Rows'
    BY <1>1, <1>5 DEF Inv, Rows, PaymentRow, Past, Served
  <1>7. OncePerKey' /\ CacheTruthful'
    BY <1>1 DEF Inv, OncePerKey, CacheTruthful, Cached, Paid
  <1>8. Shape(a)'
    BY <1>1, <1>5 DEF Shape, FoundShape, AnswerShape, KnownShape, Paid, Recorded, Served
  <1>9. \A c \in Attempts \ {a} : Shape(c)'
    BY <1>1, <1>5, Others
  <1>10. EventTrue(new)
    <2>1. PICK t \in transactions : t.id = a
      BY <1>2 DEF Paid
    <2>2. t = PaymentRow(a)
      BY <2>1 DEF Inv, Rows
    <2> QED
      BY <1>2, <2>1, <2>2 DEF EventTrue, PaymentRow, Recorded
  <1>11. \A e \in events : e.by = a => e.direction # direction
    BY DEF Inv, Events, AfterDebit, AfterCredit
  <1>12. Events'
    <2>1. ASSUME NEW e \in events'
          PROVE  /\ EventTrue(e)' /\ e.by = e.txn
                 /\ e.direction = "DEBIT" => pc'[e.by] \in AfterDebit
                 /\ e.direction = "CREDIT" => pc'[e.by] \in AfterCredit
      <3>1. EventTrue(e)
        BY <1>1, <1>10 DEF Inv, Events
      <3>2. EventTrue(e)'
        BY <1>1, <3>1 DEF EventTrue
      <3>3. CASE e \in events
        BY <1>5, <3>2, <3>3 DEF Inv, Events, TypeOK, Event, AfterDebit, AfterCredit
      <3>4. CASE e = new
        BY <1>2, <1>5, <3>2, <3>4 DEF AfterDebit, AfterCredit
      <3> QED
        BY <1>1, <3>3, <3>4
    <2>2. ASSUME NEW e \in events', NEW f \in events',
                 e.by = f.by, e.direction = f.direction
          PROVE  e = f
      <3>1. CASE e \in events /\ f \in events
        BY <2>2, <3>1 DEF Inv, Events
      <3>2. CASE e = new \/ f = new
        BY <1>1, <1>11, <2>2, <3>2
      <3> QED
        BY <1>1, <3>1, <3>2
    <2> QED
      BY <2>1, <2>2 DEF Events
  <1> QED
    BY <1>4, <1>6, <1>7, <1>8, <1>9, <1>12 DEF Inv

LEMMA ForgetKeyInv == Inv /\ ForgetKey => Inv'
  <1> SUFFICES ASSUME Inv, ForgetKey PROVE Inv'
    OBVIOUS
  <1>1. UNCHANGED <<balance, frozen, transactions, issuances, entries, request, pc,
                    found, answer, audit, events, known>>
    BY DEF ForgetKey, ledgerVars
  <1>2. PICK k \in RedisKeys : cache' = [cache EXCEPT ![k] = NoResponse]
    BY DEF ForgetKey, Forget
  <1>3. TypeOK'
    BY <1>1, <1>2 DEF Inv, TypeOK
  <1>4. \A j \in RedisKeys : cache'[j] \in {cache[j], NoResponse}
    BY <1>2 DEF Inv, TypeOK
  <1>5. CacheTruthful'
    <2>1. ASSUME NEW w \in Wallets, NEW l \in Keys, cache'[<<w, l>>] # NoResponse
          PROVE  /\ Paid(cache'[<<w, l>>].txn, w, l)
                 /\ Recorded(cache'[<<w, l>>].txn, w, cache'[<<w, l>>].new_balance)
      <3>1. cache'[<<w, l>>] = cache[<<w, l>>]
        BY <1>4, <2>1, PaymentAssumption DEF RedisKeys
      <3> QED
        BY <2>1, <3>1 DEF Inv, CacheTruthful, Cached, buildKey, Recorded
    <2> QED
      BY <1>1, <2>1 DEF CacheTruthful, Cached, buildKey, Paid, Recorded
  <1>6. Rows' /\ OncePerKey' /\ Events'
    BY <1>1 DEF Inv, Rows, PaymentRow, OncePerKey, Events, EventTrue
  <1>7. \A a \in Attempts : Shape(a)'
    BY <1>1 DEF Inv, Shape, FoundShape, AnswerShape, KnownShape, Paid, Recorded
  <1> QED
    BY <1>3, <1>5, <1>6, <1>7 DEF Inv

LEMMA FreezeInv ==
  ASSUME Inv, NEW w \in Freezable, SetFrozen(w)
  PROVE  Inv'
  <1>1. /\ frozen' = [frozen EXCEPT ![w] = ~@]
        /\ UNCHANGED <<balance, transactions, issuances, entries, cache, request, pc,
                       found, answer, audit, events, known>>
    BY DEF SetFrozen, Led!AbsSetFrozen
  <1>2. frozen' \in [Wallets -> BOOLEAN]
    BY <1>1 DEF Inv, TypeOK
  <1>3. TypeOK'
    BY <1>1, <1>2 DEF Inv, TypeOK
  <1>4. Rows' /\ OncePerKey' /\ CacheTruthful' /\ Events'
    BY <1>1 DEF Inv, Rows, PaymentRow, OncePerKey, CacheTruthful, Cached, Paid, Events, EventTrue
  <1>5. \A a \in Attempts : Shape(a)'
    BY <1>1 DEF Inv, Shape, FoundShape, AnswerShape, KnownShape, Paid, Recorded
  <1> QED
    BY <1>3, <1>4, <1>5 DEF Inv

LEMMA StutterInv == Inv /\ UNCHANGED vars => Inv'
  <1> SUFFICES ASSUME Inv, UNCHANGED vars PROVE Inv'
    OBVIOUS
  <1>1. UNCHANGED <<balance, frozen, transactions, issuances, entries, cache, request,
                    pc, found, answer, audit, events, known>>
    BY DEF vars
  <1>2. TypeOK' /\ Rows' /\ OncePerKey' /\ CacheTruthful' /\ Events'
    BY <1>1 DEF Inv, TypeOK, Rows, PaymentRow, OncePerKey, CacheTruthful, Cached, Paid,
         Events, EventTrue
  <1>3. \A a \in Attempts : Shape(a)'
    BY <1>1 DEF Inv, Shape, FoundShape, AnswerShape, KnownShape, Paid, Recorded
  <1> QED
    BY <1>2, <1>3 DEF Inv

LEMMA InvNext == Inv /\ [Next]_vars => Inv'
  <1> SUFFICES ASSUME Inv, [Next]_vars PROVE Inv'
    OBVIOUS
  <1>1. ASSUME NEW a \in Attempts, Validate(a) PROVE Inv'
    BY <1>1, ValidateInv
  <1>2. ASSUME NEW a \in Attempts, CheckRedis(a) PROVE Inv'
    BY <1>2, CheckRedisInv
  <1>3. ASSUME NEW a \in Attempts, LookupKey(a) PROVE Inv'
    BY <1>3, LookupKeyInv
  <1>4. ASSUME NEW a \in Attempts, PostTransfer(a) PROVE Inv'
    BY <1>4, PostTransferInv
  <1>5. ASSUME NEW a \in Attempts, RefuseTransfer(a) \/ LedgerError(a) PROVE Inv'
    <2>1. UNCHANGED <<request, known>>
      BY <1>5 DEF RefuseTransfer, LedgerError
    <2>2. CASE RefuseTransfer(a)
      BY <2>1, <2>2, FailsInv DEF RefuseTransfer
    <2>3. CASE LedgerError(a)
      BY <2>1, <2>3, FailsInv DEF LedgerError
    <2> QED
      BY <1>5, <2>2, <2>3
  <1>6. ASSUME NEW a \in Attempts, FetchDetail(a) PROVE Inv'
    BY <1>6, FetchDetailInv
  <1>7. ASSUME NEW a \in Attempts, StoreInRedis(a) PROVE Inv'
    BY <1>7, StoreInRedisInv
  <1>8. ASSUME NEW a \in Attempts, AuditLog(a) PROVE Inv'
    BY <1>8, AuditLogInv
  <1>9. ASSUME NEW a \in Attempts, NotifySender(a) PROVE Inv'
    BY <1>9, PublishInv DEF NotifySender
  <1>10. ASSUME NEW a \in Attempts, NotifyReceiver(a) PROVE Inv'
    BY <1>10, PublishInv DEF NotifyReceiver
  <1>11. ASSUME NEW a \in Attempts, Reply(a) PROVE Inv'
    BY <1>11, ReplyInv
  <1>12. ASSUME NEW a \in Attempts, Die(a) PROVE Inv'
    BY <1>12, DieInv
  <1>13. ASSUME NEW w \in Freezable, SetFrozen(w) PROVE Inv'
    BY <1>13, FreezeInv
  <1> QED
    BY <1>1, <1>2, <1>3, <1>4, <1>5, <1>6, <1>7, <1>8, <1>9, <1>10, <1>11, <1>12,
       <1>13, ForgetKeyInv, StutterInv DEF Next

LEMMA Invariance == Spec => []Inv
  BY InvInit, InvNext, PTL DEF Spec

-----------------------------------------------------------------------------
\* No balance leaves its column's range, and what the attempts, the cache and the
\* events hold has its type.
THEOREM PaymentTypeInvariant == Spec => []TypeOK
  <1>1. Inv => TypeOK
    BY DEF Inv
  <1> QED
    BY <1>1, Invariance, PTL

\* However retries, crashes and evictions interleave, the successful answers to one
\* sender and key name one committed payment, and Redis holds no other response.
THEOREM AnswersAgreeInvariant == Spec => []AnswersAgree
  <1>1. Inv => AnswersAgree
    <2> SUFFICES ASSUME Inv PROVE AnswersAgree
      OBVIOUS
    <2>1. \A a \in Attempts : AnsweredOk(a) =>
            Paid(answer[a].body.txn, request[a].from, request[a].key)
      BY DEF Inv, Shape, AnswerShape, AnsweredOk
    <2>2. ASSUME NEW a \in Attempts, NEW b \in Attempts, AnsweredOk(a), AnsweredOk(b),
                 request[a].from = request[b].from, request[a].key = request[b].key
          PROVE  answer[a].body.txn = answer[b].body.txn
      BY <2>1, <2>2, PaidOnce
    <2> QED
      BY <2>1, <2>2 DEF AnswersAgree, Inv
  <1> QED
    BY <1>1, Invariance, PTL

\* A retry that begins after its payment was committed is answered with that payment
\* or with an error: it is not refused for the state of the wallets and pays nothing.
THEOREM RetryFindsPaymentInvariant == Spec => []RetryFindsPayment
  <1>1. Inv => RetryFindsPayment
    <2> SUFFICES ASSUME Inv, NEW a \in Attempts, known[a] # {}
                 PROVE  /\ answer[a].outcome \notin LedgerRefusals
                        /\ AnsweredOk(a) => answer[a].body.txn \in known[a]
                        /\ \A t \in transactions : t.id # a
      BY DEF RetryFindsPayment
    <2>1. Shape(a)
      BY DEF Inv
    <2>2. PICK id \in known[a] : Paid(id, request[a].from, request[a].key)
      BY <2>1 DEF Shape, KnownShape
    <2>3. AnsweredOk(a) => answer[a].body.txn = id
      BY <2>1, <2>2, PaidOnce DEF Shape, AnswerShape, AnsweredOk
    <2> QED
      BY <2>1, <2>2, <2>3 DEF Shape, KnownShape
  <1> QED
    BY <1>1, Invariance, PTL

\* A live event is that of a committed payment, with the ledger's balance, and no
\* party of a payment is told twice, whatever attempts replay it.
THEOREM EventsTruthfulInvariant == Spec => []EventsTruthful
  <1>1. Inv => EventsTruthful
    <2> SUFFICES ASSUME Inv PROVE EventsTruthful
      OBVIOUS
    <2>1. ASSUME NEW e \in events, NEW f \in events, e.txn = f.txn, e.wallet = f.wallet
          PROVE  e = f
      <3>1. e.by = f.by /\ EventTrue(e) /\ EventTrue(f)
        BY <2>1 DEF Inv, Events
      <3>2. PICK t \in transactions :
              t.id = e.txn /\ e.wallet = IF e.direction = "DEBIT" THEN t.sender ELSE t.receiver
        BY <3>1 DEF EventTrue
      <3>3. f.wallet = IF f.direction = "DEBIT" THEN t.sender ELSE t.receiver
        BY <2>1, <3>1, <3>2 DEF EventTrue, Inv, Rows
      <3>4. t.sender # t.receiver
        BY DEF Inv, Rows, PaymentRow, Valid
      <3>5. e.direction \in {"DEBIT", "CREDIT"} /\ f.direction \in {"DEBIT", "CREDIT"}
        BY DEF Inv, TypeOK, Event
      <3>6. e.direction = f.direction
        BY <2>1, <3>2, <3>3, <3>4, <3>5
      <3> QED
        BY <3>1, <3>6 DEF Inv, Events
    <2> QED
      BY <2>1 DEF EventsTruthful, Inv, Events, EventTrue
  <1> QED
    BY <1>1, Invariance, PTL
=============================================================================
