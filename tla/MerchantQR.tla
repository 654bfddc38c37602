----------------------------- MODULE MerchantQR -----------------------------
(***************************************************************************)
(* internal/merchant: merchants register and make payment requests, whose   *)
(* QR codes customers scan and pay (PayViaQR).                              *)
(*                                                                          *)
(* Every element of Attempts is one HTTP request to POST /payments/qr.  A   *)
(* user is known by the id of his wallet, a merchant by that of his user    *)
(* (merchants_user_unique).  Time passes in ticks; QR payloads carry their  *)
(* expiry in whole seconds.  The variable faults says what may go wrong in  *)
(* a behaviour: "overlap" (a QR code is scanned while an earlier scan of it *)
(* is being paid), "database" (MarkPaid fails), "commit" (the reply to a    *)
(* commit is lost), "die" (the process is lost).                            *)
(***************************************************************************)
EXTENDS Integers, FiniteSets, Sequences

CONSTANTS
  Wallets,        \* live wallet rows, and their owners
  Merchants,      \* users with role merchant
  Attempts,
  Wanted,         \* what a scan may come with: [payer, key]
  Keys,
  FaultSets,      \* the sets of faults a behaviour may start with
  Opening, MaxBigint,
  PageLimit,      \* rows findPaymentRequestByPayload looks at (100)
  Amounts, ExpirySecs, \* what a merchant may ask for
  TicksPerSecond,
  MaxRequests, MaxClock, \* bounds of the instance
  NoKey, NoWallet, Nobody

ASSUME MerchantAssumption ==
  /\ Wallets \subseteq Int /\ Merchants \subseteq Wallets
  /\ MaxBigint \in Nat /\ Opening \in [Wallets -> 0..MaxBigint]
  /\ PageLimit \in Nat \ {0} /\ TicksPerSecond \in Nat \ {0}
  /\ Amounts \subseteq Nat \ {0} /\ ExpirySecs \subseteq Nat \ {0}
  /\ MaxRequests \in Nat /\ MaxClock \in Nat
  /\ NoWallet \notin Wallets /\ Nobody \notin Attempts /\ NoKey \notin Keys
  /\ FaultSets \subseteq SUBSET {"overlap", "database", "commit", "die"}
  /\ Wanted \subseteq [payer: Wallets, key: Keys]

VARIABLES
  balance, frozen, transactions, issuances, \* the ledger (AbstractLedger)
  profiles,     \* merchants: is_active of each merchant, or "none"
  requests,     \* rows of payment_requests, oldest first
  clock,        \* the time, in ticks
  faults,       \* what may go wrong
  request,      \* what each attempt comes with
  scan,         \* the row whose QR code an attempt scanned (0: none yet)
  found,        \* the row findPaymentRequestByPayload returned (0: none)
  result,       \* the transaction ledger.Transfer returned
  pc,           \* the next step of each attempt
  answer,       \* the HTTP answer of each attempt
  notices       \* webhooks and live events sent to merchants

ledgerVars == <<balance, frozen, transactions, issuances>>
vars == <<balance, frozen, transactions, issuances, profiles, requests, clock,
          faults, request, scan, found, result, pc, answer,
          notices>>
\* What no attempt changes.
worldVars == <<profiles, clock, faults, request>>

Led == INSTANCE AbstractLedger WITH Ids <- Attempts

-----------------------------------------------------------------------------
Payload == [merchant: Merchants, amount: Amounts, expires: Nat]

PaymentRequest ==
  [amount: Amounts, qr_payload: Payload, expires_at: Nat,
   status: {"PENDING", "PAID", "EXPIRED", "CANCELLED"},
   paid_by_wallet_id: Wallets \cup {NoWallet},
   transaction_id: Attempts \cup {Nobody}]

Notice ==
  [by: Attempts, row: 1..MaxRequests, txn: Attempts, amount: Amounts]

ScanErrors == {"ErrMerchantInactive", "ErrSelfPayment"}
StatusErrors ==
  {"ErrPaymentRequestNotFound", "ErrPaymentRequestAlreadyPaid",
   "ErrPaymentRequestExpired", "ErrPaymentRequestCancelled"}

Rows == 1..Len(requests)
payload(a) == requests[scan[a]].qr_payload

Init ==
  /\ Led!AbsInit
  /\ profiles = [m \in Merchants |-> "none"]
  /\ requests = <<>>
  /\ clock = 0
  /\ faults \in FaultSets
  /\ request \in [Attempts -> Wanted]
  /\ scan = [a \in Attempts |-> 0]
  /\ found = [a \in Attempts |-> 0]
  /\ result = [a \in Attempts |-> Nobody]
  /\ pc = [a \in Attempts |-> "start"]
  /\ answer = [a \in Attempts |-> [outcome |-> "none", txn |-> Nobody]]
  /\ notices = {}

-----------------------------------------------------------------------------
(* Merchants.                                                              *)
attemptVars == <<request, scan, found, result, pc, answer, notices>>

\* Only the INSERT changes anything, and only for a user without a profile.
Register(m) ==
  /\ profiles[m] = "none"
  /\ profiles' = [profiles EXCEPT ![m] = "active"]
  /\ UNCHANGED <<ledgerVars, attemptVars, requests, clock, faults>>

\* expires_at goes into the payload in whole seconds.
Unix(t) == t - (t % TicksPerSecond)

\* The payload names no row: two requests of one second that ask for the same
\* have the same one.
BuildURI(m, amount, expiresAt) ==
  [merchant |-> m, amount |-> amount, expires |-> Unix(expiresAt)]

CreatePaymentRequest(m, amount, secs) ==
  LET expiresAt == clock + secs * TicksPerSecond
  IN /\ Len(requests) < MaxRequests
     /\ profiles[m] = "active"
     /\ requests' = Append(requests,
          [amount |-> amount, qr_payload |-> BuildURI(m, amount, expiresAt),
           expires_at |-> expiresAt, status |-> "PENDING",
           paid_by_wallet_id |-> NoWallet, transaction_id |-> Nobody])
     /\ UNCHANGED <<ledgerVars, attemptVars, profiles, clock, faults>>

CancelPaymentRequest(i) ==
  /\ requests[i].status = "PENDING"
  /\ requests' = [requests EXCEPT ![i].status = "CANCELLED"]
  /\ UNCHANGED <<ledgerVars, attemptVars, profiles, clock, faults>>

-----------------------------------------------------------------------------
(* PayViaQR.                                                               *)
Goto(a, label) == pc' = [pc EXCEPT ![a] = label]

Answer(a, outcome, txn) ==
  /\ Goto(a, "done")
  /\ answer' = [answer EXCEPT ![a] = [outcome |-> outcome, txn |-> txn]]

Overlaps(a, i) ==
  \E b \in Attempts \ {a} :
    /\ pc[b] \notin {"start", "done"}
    /\ payload(b) = requests[i].qr_payload

\* Verify, then the merchant, then the payer.
ScanError(a, p) ==
  IF clock > p.expires THEN "error"
  ELSE IF profiles[p.merchant] # "active" THEN "ErrMerchantInactive"
  ELSE IF p.merchant = request[a].payer THEN "ErrSelfPayment"
  ELSE "none"

Scan(a, i) ==
  /\ pc[a] = "start"
  /\ "overlap" \in faults \/ ~Overlaps(a, i)
  /\ scan' = [scan EXCEPT ![a] = i]
  /\ LET error == ScanError(a, requests[i].qr_payload)
     IN \/ error # "none" /\ Answer(a, error, Nobody)
        \/ error = "none" /\ Goto(a, "find_pending") /\ UNCHANGED answer
  /\ UNCHANGED <<ledgerVars, worldVars, requests, found, result, notices>>

\* (wrong) as the comment of PayViaQR has it: a request "with matching amount".
ListMatch_ByAmount(p, statuses) ==
  LET matches == {i \in Rows : /\ requests[i].qr_payload.merchant = p.merchant
                               /\ requests[i].status \in statuses
                               /\ requests[i].amount = p.amount}
  IN {i \in matches : \A j \in matches : j <= i}

\* The row of ListByMerchant with the payload: the rows of a merchant, newest
\* first, PageLimit of them, the newest that matches.  {} when there is none.
ListMatch(p, statuses) ==
  LET listed == {i \in Rows : /\ requests[i].qr_payload.merchant = p.merchant
                              /\ requests[i].status \in statuses}
      page == {i \in listed : Cardinality({j \in listed : j > i}) < PageLimit}
      matches == {i \in page : requests[i].qr_payload = p}
  IN {i \in matches : \A j \in matches : j <= i}

AnyStatus == {"PENDING", "PAID", "EXPIRED", "CANCELLED"}

FindPending(a) ==
  /\ pc[a] = "find_pending"
  /\ \/ \E i \in ListMatch(payload(a), {"PENDING"}) :
          found' = [found EXCEPT ![a] = i] /\ Goto(a, "lookup")
     \/ /\ ListMatch(payload(a), {"PENDING"}) = {}
        /\ Goto(a, "find_any")
        /\ UNCHANGED found
  /\ UNCHANGED <<ledgerVars, worldVars, requests, scan, result, answer, notices>>

\* (wrong) a request that is paid already passes.
StatusError_PaidPasses(status) ==
  CASE status \in {"PENDING", "PAID"} -> "none"
    [] status = "EXPIRED" -> "ErrPaymentRequestExpired"
    [] status = "CANCELLED" -> "ErrPaymentRequestCancelled"

StatusError(status) ==
  CASE status = "PENDING" -> "none"
    [] status = "PAID" -> "ErrPaymentRequestAlreadyPaid"
    [] status = "EXPIRED" -> "ErrPaymentRequestExpired"
    [] status = "CANCELLED" -> "ErrPaymentRequestCancelled"

\* No pending row matches: any row, and its status.
FindAny(a) ==
  LET match == ListMatch(payload(a), AnyStatus)
  IN /\ pc[a] = "find_any"
     /\ \/ match = {} /\ Answer(a, "ErrPaymentRequestNotFound", Nobody)
           /\ UNCHANGED found
        \/ \E i \in match :
             /\ found' = [found EXCEPT ![a] = i]
             /\ LET error == StatusError(requests[i].status)
                IN \/ error # "none" /\ Answer(a, error, Nobody)
                   \/ error = "none" /\ Goto(a, "lookup") /\ UNCHANGED answer
     /\ UNCHANGED <<ledgerVars, worldVars, requests, scan, result, notices>>

Replayed(a) ==
  {t \in transactions : t.sender = request[a].payer /\ t.key = request[a].key}

\* (wrong) the replay is taken for a success, as Send does: the payer gets the
\* payment he once made under the key.
LookupKey_Accepted(a) ==
  /\ pc[a] = "lookup"
  /\ \/ \E t \in Replayed(a) :
          Goto(a, "mark") /\ result' = [result EXCEPT ![a] = t.id]
     \/ Replayed(a) = {} /\ Goto(a, "post") /\ UNCHANGED result
  /\ UNCHANGED <<ledgerVars, worldVars, requests, scan, found, answer, notices>>

\* The lookup that opens ledger.Transfer.  PayViaQR takes ErrIdempotentReplay
\* for a failure.
LookupKey(a) ==
  /\ pc[a] = "lookup"
  /\ \/ Replayed(a) # {} /\ Answer(a, "error", Nobody)
     \/ Replayed(a) = {} /\ Goto(a, "post") /\ UNCHANGED answer
  /\ UNCHANGED <<ledgerVars, worldVars, requests, scan, found, result, notices>>

\* The transfer commits, with the payload's amount.
PostTransfer(a) ==
  LET p == payload(a)
  IN /\ pc[a] = "post"
     /\ Led!PostTransfer(a, request[a].payer, p.merchant, p.amount,
                         request[a].key)
     /\ \/ /\ result' = [result EXCEPT ![a] = a]
           /\ Goto(a, "mark")
           /\ UNCHANGED answer
        \/ "commit" \in faults /\ Answer(a, "error", Nobody) /\ UNCHANGED result
     /\ UNCHANGED <<worldVars, requests, scan, found, notices>>

\* The ledger refuses, or a statement up to here fails: an internal error.
Fail(a) ==
  /\ pc[a] \in {"find_pending", "find_any", "lookup", "post"}
  /\ Answer(a, "error", Nobody)
  /\ UNCHANGED <<ledgerVars, worldVars, requests, scan, found, result, notices>>

\* (wrong) the UPDATE does not look at the status.
Markable_Any(i) == requests[i].expires_at > clock

\* The condition of the UPDATE in MarkPaid.
Markable(i) == requests[i].status = "PENDING" /\ requests[i].expires_at > clock

\* (wrong) the two ids of MarkPaid are swapped.
PaidRow_Swapped(row, wallet, txn) ==
  [row EXCEPT !.status = "PAID", !.paid_by_wallet_id = txn, !.transaction_id = wallet]

PaidRow(row, wallet, txn) ==
  [row EXCEPT !.status = "PAID", !.paid_by_wallet_id = wallet, !.transaction_id = txn]

\* What MarkPaid returns is only logged.
MarkPaid(a) ==
  LET i == found[a]
  IN /\ pc[a] = "mark"
     /\ \/ /\ Markable(i)
           /\ requests' = [requests EXCEPT ![i] =
                            PaidRow(@, request[a].payer, result[a])]
        \/ ~Markable(i) /\ UNCHANGED requests
        \/ "database" \in faults /\ UNCHANGED requests
     /\ Goto(a, "notify")
     /\ UNCHANGED <<ledgerVars, worldVars, scan, found, result, answer, notices>>

\* The webhook and the live event, sent or lost, and the answer.
Notify(a) ==
  /\ pc[a] = "notify"
  /\ \/ notices' = notices \cup
          {[by |-> a, row |-> found[a], txn |-> result[a],
            amount |-> payload(a).amount]}
     \/ UNCHANGED notices
  /\ Answer(a, "ok", result[a])
  /\ UNCHANGED <<ledgerVars, worldVars, requests, scan, found, result>>

\* The process dies after the transfer; before it, that is no more than Fail.
Die(a) ==
  /\ "die" \in faults
  /\ pc[a] \in {"mark", "notify"}
  /\ Answer(a, "error", Nobody)
  /\ UNCHANGED <<ledgerVars, worldVars, requests, scan, found, result, notices>>

-----------------------------------------------------------------------------
(* The world.                                                              *)
Tick ==
  /\ clock < MaxClock
  /\ clock' = clock + 1
  /\ UNCHANGED <<ledgerVars, attemptVars, profiles, requests, faults>>

\* An operator deactivates a merchant.
Deactivate(m) ==
  /\ profiles[m] = "active"
  /\ profiles' = [profiles EXCEPT ![m] = "inactive"]
  /\ UNCHANGED <<ledgerVars, attemptVars, requests, clock, faults>>

Next ==
  \/ \E m \in Merchants :
       \/ Register(m) \/ Deactivate(m)
       \/ \E amount \in Amounts, secs \in ExpirySecs :
            CreatePaymentRequest(m, amount, secs)
  \/ \E i \in Rows : CancelPaymentRequest(i)
  \/ \E a \in Attempts :
       \/ \E i \in Rows : Scan(a, i)
       \/ FindPending(a) \/ FindAny(a) \/ LookupKey(a) \/ PostTransfer(a)
       \/ Fail(a) \/ MarkPaid(a) \/ Notify(a) \/ Die(a)
  \/ Tick

Spec == Init /\ [][Next]_vars

-----------------------------------------------------------------------------
\* Types, among them that a row names a wallet as its payer and a transaction as
\* its payment.
TypeOK ==
  /\ balance \in [Wallets -> 0..MaxBigint]
  /\ frozen \in [Wallets -> BOOLEAN]
  /\ profiles \in [Merchants -> {"none", "active", "inactive"}]
  /\ requests \in Seq(PaymentRequest) /\ Len(requests) <= MaxRequests
  /\ clock \in 0..MaxClock
  /\ faults \in FaultSets
  /\ request \in [Attempts -> Wanted]
  /\ scan \in [Attempts -> 0..Len(requests)]
  /\ found \in [Attempts -> 0..Len(requests)]
  /\ result \in [Attempts -> Attempts \cup {Nobody}]
  /\ pc \in [Attempts -> {"start", "find_pending", "find_any", "lookup", "post",
                          "mark", "notify", "done"}]
  /\ answer \in [Attempts ->
       [outcome: {"none", "ok", "error"} \cup ScanErrors \cup StatusErrors,
        txn: Attempts \cup {Nobody}]]
  /\ notices \subseteq Notice

\* Transaction id was made for the QR code of row i, from wallet w.
PaysFor(id, i, w) ==
  \E t \in transactions :
    /\ t.id = id /\ t.sender = w /\ t.amount = requests[i].amount
    /\ t.receiver = requests[i].qr_payload.merchant
    /\ payload(id) = requests[i].qr_payload

\* A row that says PAID names a committed payment that was made for its QR code,
\* of its amount, from the wallet it names to the merchant, and no two rows name
\* the same payment.
PaidIsPaid ==
  \A i \in Rows : requests[i].status = "PAID" =>
    /\ PaysFor(requests[i].transaction_id, i, requests[i].paid_by_wallet_id)
    /\ \A j \in Rows :
         requests[j].transaction_id = requests[i].transaction_id => j = i

\* PAID and CANCELLED are final, also when a payer and the merchant, or two
\* payers, are at the row together.
FinalStatus ==
  [][\A i \in Rows : requests[i].status # "PENDING" => requests'[i] = requests[i]]_vars

\* A payer who is told that he paid did pay, for the code that he scanned, and so
\* does every notice to the merchant tell of a payment of the row it names.
AnswersTruthful ==
  /\ \A a \in Attempts : answer[a].outcome = "ok" =>
       PaysFor(answer[a].txn, scan[a], request[a].payer)
  /\ \A n \in notices : PaysFor(n.txn, n.row, request[n.by].payer)

PaymentsOf(p) ==
  {a \in Attempts : /\ scan[a] # 0 /\ payload(a) = p
                    /\ \E t \in transactions : t.id = a}

\* Not more payments of a QR code than there are rows with it.
PaidOnce(p) ==
  Cardinality(PaymentsOf(p)) <= Cardinality({i \in Rows : requests[i].qr_payload = p})

\* Payers who scan a code one after the other pay it once, until it expires,
\* whatever the merchant cancels meanwhile, as long as nothing fails.  (The code
\* expires in whole seconds, and none of its rows before it.)
PaidOnceWithoutFaults ==
  faults = {} => \A i \in Rows :
    clock < requests[i].qr_payload.expires => PaidOnce(requests[i].qr_payload)

\* "conditional UPDATE - prevents double-pay" (merchant/service.go): also when
\* the two payers overlap.
PaidOnceDespiteOverlap ==
  faults \subseteq {"overlap"} => \A i \in Rows :
    clock < requests[i].qr_payload.expires => PaidOnce(requests[i].qr_payload)
=============================================================================
