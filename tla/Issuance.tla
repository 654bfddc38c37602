------------------------------ MODULE Issuance ------------------------------
(***************************************************************************)
(* IssueCBDC of internal/admin/service.go: Redis in front of a ledger call  *)
(* that has no idempotency key of its own.                                  *)
(*                                                                          *)
(* Every element of Attempts is one HTTP request of an admin.  The variable *)
(* faults says what may go wrong in a behaviour: "overlap" (a request is    *)
(* repeated while an earlier one is under way), "redis" (a call of Redis    *)
(* fails or a key is forgotten), "die" (the process or the connection is    *)
(* lost), "commit" (the reply to the commit is lost).                       *)
(***************************************************************************)
EXTENDS Integers, FiniteSets, FiniteSetsExt, IdempotencyStore

CONSTANTS
  Wallets, Attempts,
  Wanted,            \* what a request may ask: [admin, wallet, amount, key, reason]
  FaultSets,         \* the sets of faults a behaviour may start with
  Opening, MaxBigint,
  Freezable,
  maxIssuanceCents,  \* largest amount of one issuance
  NoKey, NoWallet, Nobody

ASSUME IssuanceAssumption ==
  /\ Wallets \subseteq Int /\ Freezable \subseteq Wallets
  /\ MaxBigint \in Nat /\ Opening \in [Wallets -> 0..MaxBigint]
  /\ NoWallet \notin Wallets /\ Nobody \notin Attempts /\ NoKey \notin Keys
  /\ maxIssuanceCents \in Nat
  /\ FaultSets \subseteq SUBSET {"overlap", "redis", "die", "commit"}
  /\ \A q \in Wanted :
       /\ q.admin \in Scopes /\ q.wallet \in Int /\ q.amount \in Int
       /\ q.key \in Keys \cup {NoKey} /\ q.reason \in {"given", "short"}

VARIABLES
  balance, frozen, transactions, issuances, \* the ledger (AbstractLedger)
  faults,  \* what may go wrong
  request, \* what each attempt asks
  pc,      \* the next step of each attempt
  issued,  \* the balance the issuance of an attempt left
  answer,  \* the HTTP answer of each attempt
  audit,   \* rows of audit_logs
  events   \* live events published

ledgerVars == <<balance, frozen, transactions, issuances>>
given == <<faults, request>>
vars == <<balance, frozen, transactions, issuances, cache, faults, request, pc,
          issued, answer, audit, events>>

Led == INSTANCE AbstractLedger WITH
         Ids <- Attempts, Keys <- Keys,
         Amounts <- {q.amount : q \in Wanted}

IssuanceResponse ==
  [txn: Attempts, wallet: Wallets, amount: 1..maxIssuanceCents,
   new_balance: 0..MaxBigint]

\* redis.Nil is no response.
ASSUME NoResponseAssumption == NoResponse \notin IssuanceResponse

Event ==
  [by: Attempts, wallet: Wallets, txn: Attempts, amount: Int,
   new_balance: 0..MaxBigint]

InputErrors ==
  {"ErrAmountZero", "ErrAmountTooLarge", "ErrReasonTooShort",
   "ErrMissingIdempotencyKey"}
LedgerRefusals == {"ErrWalletNotFound", "ErrWalletFrozen"}

Init ==
  /\ Led!AbsInit
  /\ StoreInit
  /\ faults \in FaultSets
  /\ request \in [Attempts -> Wanted]
  /\ pc = [a \in Attempts |-> "start"]
  /\ issued = [a \in Attempts |-> 0]
  /\ answer = [a \in Attempts |-> [outcome |-> "none", body |-> NoResponse]]
  /\ audit = {}
  /\ events = {}

-----------------------------------------------------------------------------
Goto(a, label) == pc' = [pc EXCEPT ![a] = label]

Answer(a, outcome, body) ==
  /\ Goto(a, "done")
  /\ answer' = [answer EXCEPT ![a] = [outcome |-> outcome, body |-> body]]

\* A repetition of the request is under way.
Overlaps(a) ==
  \E b \in Attempts \ {a} :
    /\ request[b].admin = request[a].admin /\ request[b].key = request[a].key
    /\ pc[b] \notin {"start", "done", "dead"}

\* (wrong) an amount above the limit passes.
InputError_NoLimit(q) ==
  IF q.amount <= 0 THEN "ErrAmountZero"
  ELSE IF q.reason = "short" THEN "ErrReasonTooShort"
  ELSE IF q.key = NoKey THEN "ErrMissingIdempotencyKey"
  ELSE "none"

\* IssueRequest.Validate, then the key.
InputError(q) ==
  IF q.amount <= 0 THEN "ErrAmountZero"
  ELSE IF q.amount > maxIssuanceCents THEN "ErrAmountTooLarge"
  ELSE IF q.reason = "short" THEN "ErrReasonTooShort"
  ELSE IF q.key = NoKey THEN "ErrMissingIdempotencyKey"
  ELSE "none"

Validate(a) ==
  /\ pc[a] = "start"
  /\ "overlap" \in faults \/ ~Overlaps(a)
  /\ LET error == InputError(request[a])
     IN \/ error # "none" /\ Answer(a, error, NoResponse)
        \/ error = "none" /\ Goto(a, "redis") /\ UNCHANGED answer
  /\ UNCHANGED <<ledgerVars, cache, given, issued, audit, events>>

CheckRedis(a) ==
  /\ pc[a] = "redis"
  /\ LET hit == Cached(request[a].admin, request[a].key)
     IN \/ hit # NoResponse /\ Answer(a, "ok", hit)
        \/ /\ hit = NoResponse \/ "redis" \in faults
           /\ Goto(a, "issue")
           /\ UNCHANGED answer
  /\ UNCHANGED <<ledgerVars, cache, given, issued, audit, events>>

\* The issuance commits; the reply to the commit arrives or is lost.
Issue(a) ==
  LET q == request[a]
  IN /\ pc[a] = "issue"
     /\ q.wallet \in Wallets
     /\ Led!PostIssue(a, q.wallet, q.amount)
     /\ \/ /\ issued' = [issued EXCEPT ![a] = balance'[q.wallet]]
           /\ Goto(a, "store")
           /\ UNCHANGED answer
        \/ /\ "commit" \in faults
           /\ Answer(a, "error", NoResponse)
           /\ UNCHANGED issued
     /\ UNCHANGED <<cache, given, audit, events>>

\* The ledger refuses, or one of its statements fails and all is rolled back.
RefuseIssue(a) ==
  /\ pc[a] = "issue"
  /\ \/ request[a].wallet \notin Wallets
        /\ Answer(a, "ErrWalletNotFound", NoResponse)
     \/ /\ request[a].wallet \in Wallets
        /\ frozen[request[a].wallet]
        /\ Answer(a, "ErrWalletFrozen", NoResponse)
     \/ Answer(a, "error", NoResponse)
  /\ UNCHANGED <<ledgerVars, cache, given, issued, audit, events>>

\* (wrong) the balance is left out.
Response_NoBalance(a) ==
  [txn |-> a, wallet |-> request[a].wallet, amount |-> request[a].amount,
   new_balance |-> 0]

Response(a) ==
  [txn |-> a, wallet |-> request[a].wallet, amount |-> request[a].amount,
   new_balance |-> issued[a]]

\* (wrong) the response is not stored.
StoreInRedis_Dropped(a) ==
  /\ pc[a] = "store"
  /\ Goto(a, "audit")
  /\ UNCHANGED <<ledgerVars, cache, given, issued, answer, audit, events>>

StoreInRedis(a) ==
  /\ pc[a] = "store"
  /\ \/ StoreResponse(request[a].admin, request[a].key, Response(a))
     \/ "redis" \in faults /\ UNCHANGED cache
  /\ Goto(a, "audit")
  /\ UNCHANGED <<ledgerVars, given, issued, answer, audit, events>>

AuditLog(a) ==
  /\ pc[a] = "audit"
  /\ audit' \in {audit, audit \cup {[by |-> a, wallet |-> request[a].wallet,
                                     txn |-> a, amount |-> request[a].amount]}}
  /\ Goto(a, "notify")
  /\ UNCHANGED <<ledgerVars, cache, given, issued, answer, events>>

Notify(a) ==
  /\ pc[a] = "notify"
  /\ events' \in {events, events \cup
       {[by |-> a, wallet |-> request[a].wallet, txn |-> a,
         amount |-> request[a].amount, new_balance |-> issued[a]]}}
  /\ Goto(a, "reply")
  /\ UNCHANGED <<ledgerVars, cache, given, issued, answer, audit>>

Reply(a) ==
  /\ pc[a] = "reply"
  /\ Answer(a, "ok", Response(a))
  /\ UNCHANGED <<ledgerVars, cache, given, issued, audit, events>>

\* The process dies, or the connection to the client: no answer.
Die(a) ==
  /\ "die" \in faults
  /\ pc[a] \notin {"start", "done", "dead"}
  /\ Goto(a, "dead")
  /\ UNCHANGED <<ledgerVars, cache, given, issued, answer, audit, events>>

ForgetKey ==
  /\ "redis" \in faults
  /\ \E k \in RedisKeys : Forget(k)
  /\ UNCHANGED <<ledgerVars, given, pc, issued, answer, audit, events>>

SetFrozen(w) ==
  /\ Led!AbsSetFrozen(w)
  /\ UNCHANGED <<cache, given, pc, issued, answer, audit, events>>

Next ==
  \/ \E a \in Attempts :
       \/ Validate(a) \/ CheckRedis(a) \/ Issue(a) \/ RefuseIssue(a)
       \/ StoreInRedis(a) \/ AuditLog(a) \/ Notify(a) \/ Reply(a) \/ Die(a)
  \/ ForgetKey
  \/ \E w \in Freezable : SetFrozen(w)

Spec == Init /\ [][Next]_vars

-----------------------------------------------------------------------------
\* Types, among them that no issuance above the limit is answered with success.
TypeOK ==
  /\ balance \in [Wallets -> 0..MaxBigint]
  /\ frozen \in [Wallets -> BOOLEAN]
  /\ cache \in [RedisKeys -> IssuanceResponse \cup {NoResponse}]
  /\ faults \in FaultSets
  /\ request \in [Attempts -> Wanted]
  /\ pc \in [Attempts -> {"start", "redis", "issue", "store", "audit", "notify",
                          "reply", "done", "dead"}]
  /\ issued \in [Attempts -> 0..MaxBigint]
  /\ answer \in [Attempts ->
       [outcome: {"none", "ok", "error"} \cup LedgerRefusals \cup InputErrors,
        body: IssuanceResponse \cup {NoResponse}]]
  /\ events \subseteq Event

Total(rows) == MapThenSumSet(LAMBDA x : x.amount, rows)

\* The money issued up to some point of time would leave wallet w at b: the
\* opening balance and some of the issuances into w, the one named among them.
Explains(w, id, b) ==
  \E S \in SUBSET {x \in issuances : x.wallet = w} :
    /\ \E x \in S : x.txn = id
    /\ b = Opening[w] + Total(S)

\* Response r reports a committed issuance by that admin under that key.
Minted(r, admin, key) ==
  /\ [txn |-> r.txn, wallet |-> r.wallet, amount |-> r.amount] \in issuances
  /\ request[r.txn].admin = admin
  /\ request[r.txn].key = key

\* Every success an admin is told of, first hand or from Redis, is a committed
\* issuance by that admin under that key.
AnswersCommitted ==
  \A a \in Attempts : answer[a].outcome = "ok" =>
    Minted(answer[a].body, request[a].admin, request[a].key)

\* It is so, and the balance the answer reports is one the wallet had with it.
AnswersTruthful ==
  /\ AnswersCommitted
  /\ \A a \in Attempts : answer[a].outcome = "ok" =>
       LET r == answer[a].body IN Explains(r.wallet, r.txn, r.new_balance)

\* One admin and key mint at most once.
MintedOnce ==
  \A x, y \in issuances :
    (/\ request[x.txn].admin = request[y.txn].admin
     /\ request[x.txn].key = request[y.txn].key)
    => x = y

\* A retry that waits for the answer of the first try does not mint again, as
\* long as Redis keeps what it is told and nobody dies: Redis alone, in front of
\* a ledger call without a key, is enough then.
MintedOnceWithoutFaults == faults = {} => MintedOnce
=============================================================================
