--------------------------- MODULE MerchantProofs ---------------------------
(***************************************************************************)
(* Proofs about MerchantQR, for any wallets, merchants, scans, amounts,     *)
(* expiries and page size.                                                  *)
(***************************************************************************)
EXTENDS MerchantQR, FiniteSetTheorems, FunctionTheorems, SequenceTheorems, TLAPS

\* A scan that is under way, one that has found its row, one whose transfer it
\* knows to be committed.
InFlight(a) == pc[a] \notin {"start", "done"}
HasRow == {"lookup", "post", "mark", "notify"}
HasPaid == {"mark", "notify"}

\* Scan a paid, what the code it scanned asks for.
Paid(a) == \E t \in transactions : t.id = a
PaidInFull(a) ==
  \E t \in transactions :
    /\ t.id = a /\ t.sender = request[a].payer
    /\ t.amount = payload(a).amount /\ t.receiver = payload(a).merchant

\* The row that scan a found has the code that it scanned.
FoundMatches(a) ==
  found[a] \in Rows /\ requests[found[a]].qr_payload = payload(a)

\* A row agrees with its code, does not expire before it, and names a payment
\* only when it is PAID: that of a scan that found this very row.
RowShape(i) ==
  /\ requests[i].amount = requests[i].qr_payload.amount
  /\ requests[i].qr_payload.expires <= requests[i].expires_at
  /\ requests[i].transaction_id # Nobody => requests[i].status = "PAID"
  /\ requests[i].status = "PAID" =>
       \E a \in Attempts :
         /\ requests[i].transaction_id = a
         /\ requests[i].paid_by_wallet_id = request[a].payer
         /\ found[a] = i /\ FoundMatches(a) /\ PaidInFull(a)
         /\ pc[a] \in {"notify", "done"}

ScanShape(a) ==
  /\ scan[a] = 0 <=> pc[a] = "start"
  /\ Paid(a) => pc[a] \in HasPaid \cup {"done"} /\ FoundMatches(a)
  /\ pc[a] \in HasRow => FoundMatches(a)
  /\ pc[a] \in HasPaid => result[a] = a /\ PaidInFull(a)
  /\ answer[a].outcome = "ok" =>
       pc[a] = "done" /\ answer[a].txn = a /\ PaidInFull(a)

NoticeShape(n) ==
  /\ n.txn = n.by /\ PaidInFull(n.by) /\ scan[n.by] # 0
  /\ n.row \in Rows /\ requests[n.row].qr_payload = payload(n.by)

\* Without faults, and until the code expires, two scans of one code are not under
\* way together; a row that a scan has paid and gone past marking is no longer
\* PENDING; and no other scan has paid or is to pay for the row.
Exclusive ==
  faults = {} =>
    /\ \A a, b \in Attempts :
         InFlight(a) /\ InFlight(b) /\ payload(a) = payload(b) => a = b
    /\ \A a \in Attempts : Paid(a) /\ clock < payload(a).expires =>
         /\ pc[a] \in {"notify", "done"} => requests[found[a]].status # "PENDING"
         /\ \A b \in Attempts :
              (Paid(b) \/ pc[b] \in HasRow) /\ found[b] = found[a] => a = b

\* The inductive invariant.
Inv ==
  /\ TypeOK
  /\ \A i \in Rows : RowShape(i)
  /\ \A a \in Attempts : ScanShape(a)
  /\ \A n \in notices : NoticeShape(n)
  /\ Exclusive

-----------------------------------------------------------------------------
\* A row, and the code a scan has scanned.
LEMMA RowType ==
  ASSUME TypeOK, NEW i \in Rows
  PROVE  requests[i] \in PaymentRequest
  BY DEF TypeOK, Rows

LEMMA ScannedType ==
  ASSUME Inv, NEW a \in Attempts, pc[a] # "start"
  PROVE  /\ scan[a] \in Rows /\ payload(a) \in Payload
         /\ request[a].payer \in Wallets /\ request[a].key \in Keys
  <1>1. scan[a] # 0
    BY DEF Inv, ScanShape
  <1>2. scan[a] \in Rows
    BY <1>1 DEF Inv, TypeOK, Rows
  <1>3. requests[scan[a]] \in PaymentRequest
    BY <1>2, RowType DEF Inv
  <1>4. request[a] \in [payer: Wallets, key: Keys]
    BY MerchantAssumption DEF Inv, TypeOK
  <1> QED
    BY <1>2, <1>3, <1>4 DEF payload, PaymentRequest

\* Rows are only added, and a row keeps its code, its amount and its expiry.
RowsKept ==
  \A i \in Rows :
    /\ i \in Rows' /\ requests'[i].qr_payload = requests[i].qr_payload
    /\ requests'[i].amount = requests[i].amount
    /\ requests'[i].expires_at = requests[i].expires_at

\* A scan in whose favour nothing is undone.
ScanKept(a) ==
  /\ pc'[a] = pc[a] /\ scan'[a] = scan[a] /\ found'[a] = found[a]
  /\ result'[a] = result[a] /\ answer'[a] = answer[a]

LEMMA PaidInFullStays ==
  ASSUME NEW a, RowsKept, transactions \subseteq transactions',
         request' = request, scan[a] \in Rows, scan'[a] = scan[a], PaidInFull(a)
  PROVE  PaidInFull(a)'
  BY DEF PaidInFull, payload, RowsKept

LEMMA FoundMatchesStays ==
  ASSUME NEW a, RowsKept, scan[a] \in Rows, scan'[a] = scan[a],
         found'[a] = found[a], FoundMatches(a)
  PROVE  FoundMatches(a)'
  BY DEF FoundMatches, payload, RowsKept

\* Another scan than the one that moves keeps its shape.
LEMMA ScanFrame ==
  ASSUME Inv, NEW b \in Attempts, ScanKept(b), RowsKept, request' = request,
         transactions \subseteq transactions',
         \A t \in transactions' \ transactions : t.id # b
  PROVE  ScanShape(b)'
  <1>1. ScanShape(b)
    BY DEF Inv
  <1>2. Paid(b)' => Paid(b)
    BY DEF Paid
  <1>3. pc[b] # "start" => scan[b] \in Rows
    BY ScannedType
  <1>4. pc[b] # "start" /\ PaidInFull(b) => PaidInFull(b)'
    BY <1>3, PaidInFullStays DEF ScanKept
  <1>5. pc[b] # "start" /\ FoundMatches(b) => FoundMatches(b)'
    BY <1>3, FoundMatchesStays DEF ScanKept
  <1> QED
    BY <1>1, <1>2, <1>4, <1>5 DEF ScanShape, ScanKept, HasRow, HasPaid

\* A row that does not change keeps its shape.
LEMMA RowFrame ==
  ASSUME Inv, NEW i \in Rows, requests'[i] = requests[i], RowsKept,
         request' = request, transactions \subseteq transactions',
         \A a \in Attempts : pc[a] \in {"notify", "done"} =>
           /\ pc'[a] \in {"notify", "done"}
           /\ scan'[a] = scan[a] /\ found'[a] = found[a]
  PROVE  RowShape(i)'
  <1>1. RowShape(i)
    BY DEF Inv
  <1>2. CASE requests[i].status # "PAID"
    BY <1>1, <1>2 DEF RowShape
  <1>3. CASE requests[i].status = "PAID"
    <2>1. PICK a \in Attempts :
            /\ requests[i].transaction_id = a
            /\ requests[i].paid_by_wallet_id = request[a].payer
            /\ found[a] = i /\ FoundMatches(a) /\ PaidInFull(a)
            /\ pc[a] \in {"notify", "done"}
      BY <1>1, <1>3 DEF RowShape
    <2>2. scan[a] \in Rows
      BY <2>1, ScannedType
    <2>3. PaidInFull(a)' /\ FoundMatches(a)'
      BY <2>1, <2>2, PaidInFullStays, FoundMatchesStays
    <2> QED
      BY <1>1, <2>1, <2>3 DEF RowShape
  <1> QED
    BY <1>2, <1>3

LEMMA NoticeFrame ==
  ASSUME Inv, NEW n \in notices, RowsKept, request' = request,
         transactions \subseteq transactions',
         \A a \in Attempts : pc[a] # "start" => scan'[a] = scan[a]
  PROVE  NoticeShape(n)'
  <1>1. NoticeShape(n) /\ n.by \in Attempts
    BY DEF Inv, TypeOK, Notice
  <1>2. pc[n.by] # "start" /\ scan[n.by] \in Rows
    BY <1>1, ScannedType DEF NoticeShape, Inv, ScanShape
  <1>3. PaidInFull(n.by)'
    BY <1>1, <1>2, PaidInFullStays DEF NoticeShape
  <1> QED
    BY <1>1, <1>2, <1>3 DEF NoticeShape, RowsKept, payload

\* Exclusive, after a step in which no scan begins, finds a row or pays, and none
\* that has paid gets past marking.
LEMMA ExclusiveFrame ==
  ASSUME Inv, RowsKept, faults' = faults, clock' \in Nat, clock' >= clock,
         transactions' = transactions,
         \A i \in Rows : requests[i].status # "PENDING" => requests'[i].status # "PENDING",
         \A a \in Attempts : InFlight(a)' => InFlight(a),
         \A a \in Attempts : pc[a] # "start" => scan'[a] = scan[a],
         \A a \in Attempts : pc[a] = "start" => pc'[a] = "start",
         \A a \in Attempts : pc'[a] \in HasRow => pc[a] \in HasRow,
         \A a \in Attempts : pc[a] \in HasRow \/ Paid(a) => found'[a] = found[a],
         faults = {} => \A a \in Attempts :
           Paid(a) /\ pc'[a] \in {"notify", "done"} => pc[a] \in {"notify", "done"}
  PROVE  Exclusive'
  <1> SUFFICES ASSUME faults = {}
               PROVE  /\ \A a, b \in Attempts :
                           InFlight(a)' /\ InFlight(b)' /\ payload(a)' = payload(b)' => a = b
                      /\ \A a \in Attempts : Paid(a)' /\ clock' < payload(a)'.expires =>
                           /\ pc'[a] \in {"notify", "done"} =>
                                requests'[found'[a]].status # "PENDING"
                           /\ \A b \in Attempts :
                                (Paid(b)' \/ pc'[b] \in HasRow) /\ found'[b] = found'[a] => a = b
    BY DEF Exclusive
  <1>1. \A a \in Attempts : pc[a] # "start" => payload(a)' = payload(a)
    BY ScannedType DEF payload, RowsKept
  <1>2. \A a \in Attempts : Paid(a)' => Paid(a) /\ pc[a] # "start" /\ found[a] \in Rows
    BY DEF Paid, Inv, ScanShape, HasPaid, FoundMatches
  <1>3. ASSUME NEW a \in Attempts, NEW b \in Attempts,
               InFlight(a)', InFlight(b)', payload(a)' = payload(b)'
        PROVE  a = b
    BY <1>1, <1>3 DEF Inv, Exclusive, InFlight
  <1>4. ASSUME NEW a \in Attempts, Paid(a)', clock' < payload(a)'.expires
        PROVE  /\ Paid(a) /\ clock < payload(a).expires /\ found'[a] = found[a]
               /\ found[a] \in Rows
    <2>1. Paid(a) /\ pc[a] # "start" /\ found[a] \in Rows
      BY <1>2, <1>4
    <2>2. payload(a)' = payload(a) /\ payload(a).expires \in Nat
      BY <1>1, <2>1, ScannedType DEF Payload
    <2> QED
      BY <1>4, <2>1, <2>2, MerchantAssumption DEF Inv, TypeOK
  <1>5. ASSUME NEW a \in Attempts, Paid(a)', clock' < payload(a)'.expires,
               pc'[a] \in {"notify", "done"}
        PROVE  requests'[found'[a]].status # "PENDING"
    BY <1>4, <1>5 DEF Inv, Exclusive
  <1>6. ASSUME NEW a \in Attempts, Paid(a)', clock' < payload(a)'.expires,
               NEW b \in Attempts, Paid(b)' \/ pc'[b] \in HasRow, found'[b] = found'[a]
        PROVE  a = b
    <2>1. (Paid(b) \/ pc[b] \in HasRow) /\ found'[b] = found[b]
      BY <1>2, <1>6
    <2> QED
      BY <1>4, <1>6, <2>1 DEF Inv, Exclusive
  <1> QED
    BY <1>3, <1>5, <1>6

-----------------------------------------------------------------------------
\* Steps of the merchants, the clock and the operator: no scan moves.
LEMMA WorldStep ==
  ASSUME Inv, TypeOK', RowsKept,
         UNCHANGED <<balance, frozen, transactions, issuances, request, scan, found,
                     result, pc, answer, notices, faults>>,
         clock' >= clock,
         \A i \in Rows : requests'[i] = requests[i]
                         \/ (RowShape(i)' /\ requests'[i].status # "PENDING"),
         \A i \in Rows' \ Rows : RowShape(i)'
  PROVE  Inv'
  <1>1. \A i \in Rows' : RowShape(i)'
    BY RowFrame
  <1>2. \A a \in Attempts : ScanShape(a)'
    BY ScanFrame DEF ScanKept
  <1>3. \A n \in notices' : NoticeShape(n)'
    BY NoticeFrame
  <1>4. Exclusive'
    <2>1. clock' \in Nat
      BY MerchantAssumption DEF TypeOK
    <2> QED
      BY <2>1, ExclusiveFrame DEF InFlight, Paid
  <1> QED
    BY <1>1, <1>2, <1>3, <1>4 DEF Inv

LEMMA SameRows ==
  ASSUME requests' = requests
  PROVE  RowsKept /\ Rows' = Rows
  BY DEF RowsKept, Rows

LEMMA RegisterInv ==
  ASSUME Inv, NEW m \in Merchants, Register(m) \/ Deactivate(m)
  PROVE  Inv'
  <1>1. UNCHANGED <<balance, frozen, transactions, issuances, request, scan, found,
                    result, pc, answer, notices, faults, requests, clock>>
    BY DEF Register, Deactivate, ledgerVars, attemptVars
  <1>2. profiles' \in [Merchants -> {"none", "active", "inactive"}]
    BY DEF Register, Deactivate, Inv, TypeOK
  <1>3. TypeOK'
    BY <1>1, <1>2 DEF Inv, TypeOK
  <1>4. clock' >= clock
    BY <1>1, MerchantAssumption DEF Inv, TypeOK
  <1> QED
    BY <1>1, <1>3, <1>4, SameRows, WorldStep

LEMMA TickInv ==
  ASSUME Inv, Tick
  PROVE  Inv'
  <1>1. UNCHANGED <<balance, frozen, transactions, issuances, request, scan, found,
                    result, pc, answer, notices, faults, requests, profiles>>
    BY DEF Tick, ledgerVars, attemptVars
  <1>2. clock' \in 0..MaxClock /\ clock' >= clock
    BY MerchantAssumption DEF Tick, Inv, TypeOK
  <1>3. TypeOK'
    BY <1>1, <1>2 DEF Inv, TypeOK
  <1> QED
    BY <1>1, <1>2, <1>3, SameRows, WorldStep

\* The seconds of a time are not after it.
LEMMA UnixBelow ==
  ASSUME NEW t \in Nat
  PROVE  Unix(t) \in Nat /\ Unix(t) <= t
  <1>1. t % TicksPerSecond \in 0..t
    BY MerchantAssumption
  <1> QED
    BY <1>1 DEF Unix

LEMMA CreateInv ==
  ASSUME Inv, NEW m \in Merchants, NEW amount \in Amounts, NEW secs \in ExpirySecs,
         CreatePaymentRequest(m, amount, secs)
  PROVE  Inv'
  <1> DEFINE at == clock + secs * TicksPerSecond
             row == [amount |-> amount, qr_payload |-> BuildURI(m, amount, at),
                     expires_at |-> at, status |-> "PENDING",
                     paid_by_wallet_id |-> NoWallet, transaction_id |-> Nobody]
  <1>1. /\ Len(requests) < MaxRequests /\ requests' = Append(requests, row)
        /\ UNCHANGED <<balance, frozen, transactions, issuances, request, scan, found,
                       result, pc, answer, notices, faults, profiles, clock>>
    BY DEF CreatePaymentRequest, ledgerVars, attemptVars
  <1>2. at \in Nat
    <2>1. secs \in Nat /\ TicksPerSecond \in Nat /\ clock \in Nat
      BY MerchantAssumption DEF Inv, TypeOK
    <2> QED
      BY ONLY <2>1
  <1>3. Unix(at) \in Nat /\ Unix(at) <= at
    BY <1>2, UnixBelow
  <1>4. row \in PaymentRequest
    BY <1>2, <1>3 DEF PaymentRequest, BuildURI, Payload
  <1>5. requests \in Seq(PaymentRequest)
    BY DEF Inv, TypeOK
  <1>6. /\ requests' \in Seq(PaymentRequest)
        /\ Len(requests') = Len(requests) + 1 /\ Len(requests) \in Nat
        /\ \A i \in 1..Len(requests) : requests'[i] = requests[i]
        /\ requests'[Len(requests) + 1] = row
    BY ONLY <1>1, <1>4, <1>5, AppendProperties, LenProperties
  <1>7. TypeOK'
    <2>1. Len(requests') <= MaxRequests
      BY <1>1, <1>6, MerchantAssumption
    <2>2. 0..Len(requests) \subseteq 0..Len(requests')
      BY <1>6
    <2>3. scan' \in [Attempts -> 0..Len(requests')] /\ found' \in [Attempts -> 0..Len(requests')]
      BY <1>1, <2>2 DEF Inv, TypeOK
    <2> QED
      BY <1>1, <1>6, <2>1, <2>3 DEF Inv, TypeOK
  <1>8. RowsKept
    BY <1>6 DEF RowsKept, Rows
  <1>9. \A i \in Rows : requests'[i] = requests[i]
    BY <1>6 DEF Rows
  <1>10. \A i \in Rows' \ Rows : RowShape(i)'
    <2>1. SUFFICES ASSUME NEW i \in Rows' \ Rows PROVE RowShape(i)'
      OBVIOUS
    <2>2. i = Len(requests) + 1
      BY <1>6 DEF Rows
    <2>3. requests'[i] = row
      BY <1>6, <2>2
    <2> QED
      BY <1>3, <2>3 DEF RowShape, BuildURI
  <1>11. clock' >= clock
    BY <1>1, MerchantAssumption DEF Inv, TypeOK
  <1> QED
    BY <1>1, <1>7, <1>8, <1>9, <1>10, <1>11, WorldStep

\* A row that changes its status only.
LEMMA CancelInv ==
  ASSUME Inv, NEW k \in Rows, CancelPaymentRequest(k)
  PROVE  Inv'
  <1>1. /\ requests[k].status = "PENDING"
        /\ requests' = [requests EXCEPT ![k].status = "CANCELLED"]
        /\ UNCHANGED <<balance, frozen, transactions, issuances, request, scan, found,
                       result, pc, answer, notices, faults, profiles, clock>>
    BY DEF CancelPaymentRequest, ledgerVars, attemptVars
  <1>2. requests \in Seq(PaymentRequest) /\ k \in 1..Len(requests)
        /\ requests[k] \in PaymentRequest
    BY RowType DEF Inv, TypeOK, Rows
  <1>3. [requests[k] EXCEPT !.status = "CANCELLED"] \in PaymentRequest
    BY <1>2 DEF PaymentRequest
  <1>4. requests' = [requests EXCEPT ![k] = [requests[k] EXCEPT !.status = "CANCELLED"]]
    BY <1>1
  <1>5. /\ requests' \in Seq(PaymentRequest) /\ Len(requests') = Len(requests)
        /\ \A i \in 1..Len(requests) :
             requests'[i] = IF i = k THEN [requests[k] EXCEPT !.status = "CANCELLED"]
                            ELSE requests[i]
    BY ONLY <1>2, <1>3, <1>4, ExceptSeq
  <1>6. TypeOK'
    BY <1>1, <1>5 DEF Inv, TypeOK
  <1>7. /\ requests'[k].qr_payload = requests[k].qr_payload
        /\ requests'[k].amount = requests[k].amount
        /\ requests'[k].expires_at = requests[k].expires_at
        /\ requests'[k].transaction_id = requests[k].transaction_id
        /\ requests'[k].status = "CANCELLED"
    BY <1>2, <1>5 DEF PaymentRequest
  <1>8. RowsKept /\ Rows' = Rows
    BY <1>5, <1>7 DEF RowsKept, Rows
  <1>9. RowShape(k)'
    BY <1>1, <1>7 DEF RowShape, Inv
  <1>10. \A i \in Rows \ {k} : requests'[i] = requests[i]
    BY <1>5 DEF Rows
  <1>11. clock' >= clock
    BY <1>1, MerchantAssumption DEF Inv, TypeOK
  <1> QED
    BY <1>1, <1>6, <1>7, <1>8, <1>9, <1>10, <1>11, WorldStep

-----------------------------------------------------------------------------
\* Steps of one scan that leave the rows alone.
LEMMA ScanStep ==
  ASSUME Inv, NEW a \in Attempts, TypeOK',
         UNCHANGED <<requests, clock, faults, request>>,
         transactions \subseteq transactions',
         \A t \in transactions' \ transactions : t.id = a,
         \A b \in Attempts \ {a} : ScanKept(b),
         pc[a] # "done", pc[a] = "notify" => pc'[a] = "done" /\ found'[a] = found[a],
         pc[a] # "start" => scan'[a] = scan[a],
         ScanShape(a)',
         \A n \in notices' : n \in notices \/ NoticeShape(n)',
         Exclusive'
  PROVE  Inv'
  <1>1. RowsKept /\ Rows' = Rows
    BY SameRows
  <1>2. \A i \in Rows' : RowShape(i)'
    BY <1>1, RowFrame DEF ScanKept
  <1>3. \A b \in Attempts : ScanShape(b)'
    BY <1>1, ScanFrame
  <1>4. \A n \in notices' : NoticeShape(n)'
    BY <1>1, NoticeFrame DEF ScanKept
  <1> QED
    BY <1>2, <1>3, <1>4 DEF Inv

Outcomes == {"none", "ok", "error"} \cup ScanErrors \cup StatusErrors

\* An answer, or none, keeps the answers' type.
LEMMA AnswerType ==
  ASSUME TypeOK, NEW a \in Attempts,
         \/ answer' = answer
         \/ \E o \in Outcomes, t \in Attempts \cup {Nobody} :
              answer' = [answer EXCEPT ![a] = [outcome |-> o, txn |-> t]]
  PROVE  answer' \in [Attempts -> [outcome: {"none", "ok", "error"}
                                     \cup ScanErrors \cup StatusErrors,
                                   txn: Attempts \cup {Nobody}]]
  <1> DEFINE S == [outcome: Outcomes, txn: Attempts \cup {Nobody}]
  <1>1. answer \in [Attempts -> S]
    BY DEF TypeOK, Outcomes
  <1>2. \A o \in Outcomes, t \in Attempts \cup {Nobody} : [outcome |-> o, txn |-> t] \in S
    OBVIOUS
  <1> HIDE DEF S
  <1>3. answer' \in [Attempts -> S]
    BY <1>1, <1>2
  <1> QED
    BY <1>3 DEF S, Outcomes

\* An attempt that answers with an error.
LEMMA RefusedShape ==
  ASSUME Inv, NEW a \in Attempts, NEW o, o # "ok",
         pc[a] # "done", answer' = [answer EXCEPT ![a] = [outcome |-> o, txn |-> Nobody]],
         pc' = [pc EXCEPT ![a] = "done"], scan'[a] # 0,
         transactions' = transactions, request' = request, requests' = requests,
         Paid(a) => scan' = scan /\ found' = found
  PROVE  ScanShape(a)'
  <1>1. pc'[a] = "done" /\ answer'[a].outcome = o
    BY DEF Inv, TypeOK
  <1>2. Paid(a)' => Paid(a) /\ FoundMatches(a)'
    BY DEF Paid, Inv, ScanShape, FoundMatches, payload, Rows
  <1> QED
    BY <1>1, <1>2 DEF ScanShape, HasPaid, HasRow

\* Exclusive after a scan ended, or moved on with what it had.
LEMMA ScanExclusive ==
  ASSUME Inv, NEW a \in Attempts, NEW p, pc' = [pc EXCEPT ![a] = p],
         UNCHANGED <<requests, clock, faults, transactions, scan>>,
         pc[a] \notin {"start", "done"}, p # "start",
         p \in HasRow => pc[a] \in HasRow,
         pc[a] \in HasRow \/ Paid(a) => found' = found,
         \A b \in Attempts \ {a} : found'[b] = found[b],
         faults = {} /\ Paid(a) /\ p \in {"notify", "done"} => pc[a] = "notify"
  PROVE  Exclusive'
  <1>1. \A b \in Attempts : pc'[b] = IF b = a THEN p ELSE pc[b]
    BY DEF Inv, TypeOK
  <1>2. RowsKept
    BY SameRows
  <1>3. clock' \in Nat /\ clock' >= clock
    BY MerchantAssumption DEF Inv, TypeOK
  <1>4. \A b \in Attempts : InFlight(b)' => InFlight(b)
    BY <1>1 DEF InFlight
  <1>5. \A i \in Rows : requests[i].status # "PENDING" => requests'[i].status # "PENDING"
    OBVIOUS
  <1> QED
    BY <1>1, <1>2, <1>3, <1>4, <1>5, ExclusiveFrame

\* A code that nobody else is paying, unless overlaps are among the faults.
LEMMA ScanInv ==
  ASSUME Inv, NEW a \in Attempts, NEW i \in Rows, Scan(a, i)
  PROVE  Inv'
  <1> DEFINE error == ScanError(a, requests[i].qr_payload)
  <1>1. /\ pc[a] = "start" /\ scan' = [scan EXCEPT ![a] = i]
        /\ "overlap" \in faults \/ ~Overlaps(a, i)
        /\ UNCHANGED <<balance, frozen, transactions, issuances, profiles, clock,
                       faults, request, requests, found, result, notices>>
    BY DEF Scan, ledgerVars, worldVars
  <1>2. error \in ScanErrors \cup {"error", "none"}
    BY DEF ScanError, ScanErrors
  <1>3. PICK p \in {"done", "find_pending"} :
          /\ pc' = [pc EXCEPT ![a] = p]
          /\ \/ /\ p = "done" /\ error # "none"
                /\ answer' = [answer EXCEPT ![a] = [outcome |-> error, txn |-> Nobody]]
             \/ p = "find_pending" /\ answer' = answer
    BY DEF Scan, Answer, Goto
  <1>4. i \in 0..Len(requests) /\ i # 0 /\ scan'[a] = i
    BY <1>1 DEF Rows, Inv, TypeOK
  <1>5. TypeOK'
    <2>1. scan' \in [Attempts -> 0..Len(requests)]
      BY <1>1, <1>4 DEF Inv, TypeOK
    <2>2. pc' \in [Attempts -> {"start", "find_pending", "find_any", "lookup", "post",
                                "mark", "notify", "done"}]
      BY <1>3 DEF Inv, TypeOK
    <2>3. answer' \in [Attempts ->
            [outcome: {"none", "ok", "error"} \cup ScanErrors \cup StatusErrors,
             txn: Attempts \cup {Nobody}]]
      <3>1. \/ answer' = answer
            \/ \E o \in Outcomes :
                 answer' = [answer EXCEPT ![a] = [outcome |-> o, txn |-> Nobody]]
        BY ONLY <1>2, <1>3 DEF Outcomes
      <3> QED
        BY <3>1, AnswerType DEF Inv
    <2> QED
      BY <1>1, <2>1, <2>2, <2>3 DEF Inv, TypeOK
  <1>6. ~Paid(a) /\ ~Paid(a)'
    BY <1>1 DEF Inv, ScanShape, Paid, HasPaid
  <1>7. ScanShape(a)'
    <2>1. CASE p = "done"
      BY <1>1, <1>2, <1>3, <1>4, <1>6, <2>1, RefusedShape DEF ScanErrors
    <2>2. CASE p = "find_pending"
      <3>1. pc'[a] = "find_pending" /\ answer' = answer
        BY <1>3, <2>2 DEF Inv, TypeOK
      <3>2. answer[a].outcome # "ok"
        BY <1>1 DEF Inv, ScanShape
      <3> QED
        BY <1>4, <1>6, <3>1, <3>2 DEF ScanShape, HasPaid, HasRow
    <2> QED
      BY <2>1, <2>2
  <1>8. \A b \in Attempts \ {a} : ScanKept(b)
    BY <1>1, <1>3 DEF ScanKept, Inv, TypeOK
  <1>9. Exclusive'
    <2> SUFFICES ASSUME faults = {}
                 PROVE  /\ \A b, c \in Attempts :
                             InFlight(b)' /\ InFlight(c)' /\ payload(b)' = payload(c)' => b = c
                        /\ \A b \in Attempts : Paid(b)' /\ clock' < payload(b)'.expires =>
                             /\ pc'[b] \in {"notify", "done"} =>
                                  requests'[found'[b]].status # "PENDING"
                             /\ \A c \in Attempts :
                                  (Paid(c)' \/ pc'[c] \in HasRow) /\ found'[c] = found'[b] => b = c
      BY <1>1 DEF Exclusive
    <2>1. \A b \in Attempts \ {a} :
            /\ payload(b)' = payload(b) /\ (InFlight(b)' <=> InFlight(b))
            /\ (Paid(b)' <=> Paid(b)) /\ pc'[b] = pc[b]
      BY <1>1, <1>8 DEF ScanKept, payload, InFlight, Paid
    <2>2. \A b \in Attempts \ {a} : InFlight(b) => payload(b) # requests[i].qr_payload
      BY <1>1 DEF Overlaps, InFlight
    <2>3. payload(a)' = requests[i].qr_payload
      BY <1>1, <1>4 DEF payload
    <2>4. pc'[a] = p
      BY <1>3 DEF Inv, TypeOK
    <2>5. ASSUME NEW b \in Attempts, NEW c \in Attempts,
                 InFlight(b)', InFlight(c)', payload(b)' = payload(c)'
          PROVE  b = c
      <3>1. CASE b # a /\ c # a
        BY <2>1, <2>5, <3>1 DEF Inv, Exclusive
      <3>2. CASE b = a \/ c = a
        BY <2>1, <2>2, <2>3, <2>5, <3>2
      <3> QED
        BY <3>1, <3>2
    <2>6. ASSUME NEW b \in Attempts, Paid(b)', clock' < payload(b)'.expires
          PROVE  /\ b # a /\ Paid(b) /\ clock < payload(b).expires
                 /\ pc'[b] = pc[b]
      BY <1>1, <1>6, <2>1, <2>6
    <2>7. ASSUME NEW b \in Attempts, Paid(b)', clock' < payload(b)'.expires,
                 pc'[b] \in {"notify", "done"}
          PROVE  requests'[found'[b]].status # "PENDING"
      BY <1>1, <2>6, <2>7 DEF Inv, Exclusive
    <2>8. ASSUME NEW b \in Attempts, Paid(b)', clock' < payload(b)'.expires,
                 NEW c \in Attempts, Paid(c)' \/ pc'[c] \in HasRow, found'[c] = found'[b]
          PROVE  b = c
      <3>1. c # a
        BY <1>6, <2>4, <2>8 DEF HasRow
      <3> QED
        BY <1>1, <2>1, <2>6, <2>8, <3>1 DEF Inv, Exclusive
    <2> QED
      BY <2>5, <2>7, <2>8
  <1>10. \A n \in notices' : n \in notices
    BY <1>1
  <1> QED
    BY <1>1, <1>5, <1>7, <1>8, <1>9, <1>10, ScanStep

-----------------------------------------------------------------------------
\* A scan that ends with an error.  Without faults it has not paid.
LEMMA RefuseInv ==
  ASSUME Inv, NEW a \in Attempts, NEW o \in {"error"} \cup StatusErrors,
         InFlight(a), Answer(a, o, Nobody),
         UNCHANGED <<balance, frozen, transactions, issuances, profiles, clock, faults,
                     request, requests, scan, result, notices>>,
         \/ found' = found
         \/ /\ pc[a] \notin HasRow /\ ~Paid(a)
            /\ \E i \in Rows : found' = [found EXCEPT ![a] = i],
         faults = {} => ~Paid(a)
  PROVE  Inv'
  <1>1. /\ pc' = [pc EXCEPT ![a] = "done"]
        /\ answer' = [answer EXCEPT ![a] = [outcome |-> o, txn |-> Nobody]]
    BY DEF Answer, Goto
  <1>2. o # "ok" /\ o \in Outcomes
    BY DEF StatusErrors, Outcomes
  <1>3. found' \in [Attempts -> 0..Len(requests)]
    <2>1. \A i \in Rows : i \in 0..Len(requests)
      BY DEF Rows, Inv, TypeOK
    <2>2. found \in [Attempts -> 0..Len(requests)]
      BY DEF Inv, TypeOK
    <2> QED
      BY <2>1, <2>2
  <1>4. TypeOK'
    BY <1>1, <1>2, <1>3, AnswerType DEF Inv, TypeOK
  <1>5. scan'[a] # 0
    BY DEF InFlight, Inv, ScanShape
  <1>6. ScanShape(a)'
    BY <1>1, <1>2, <1>5, RefusedShape DEF InFlight
  <1>7. \A b \in Attempts \ {a} : ScanKept(b)
    BY <1>1 DEF ScanKept, Inv, TypeOK
  <1>8. Exclusive'
    BY <1>1, <1>7, ScanExclusive DEF InFlight, HasRow, ScanKept
  <1>9. pc[a] = "notify" => pc'[a] = "done" /\ found'[a] = found[a]
    BY <1>1 DEF Inv, TypeOK, HasRow
  <1> QED
    BY <1>1, <1>4, <1>6, <1>7, <1>8, <1>9, ScanStep DEF InFlight

LEMMA FailInv ==
  ASSUME Inv, NEW a \in Attempts, Fail(a) \/ Die(a)
  PROVE  Inv'
  <1>1. /\ InFlight(a) /\ Answer(a, "error", Nobody)
        /\ UNCHANGED <<balance, frozen, transactions, issuances, profiles, clock, faults,
                       request, requests, scan, found, result, notices>>
    BY DEF Fail, Die, InFlight, ledgerVars, worldVars
  <1>2. faults = {} => ~Paid(a)
    BY DEF Fail, Die, Inv, ScanShape, HasPaid
  <1> QED
    BY <1>1, <1>2, RefuseInv

LEMMA LookupKeyInv ==
  ASSUME Inv, NEW a \in Attempts, LookupKey(a)
  PROVE  Inv'
  <1>1. /\ pc[a] = "lookup"
        /\ UNCHANGED <<balance, frozen, transactions, issuances, profiles, clock, faults,
                       request, requests, scan, found, result, notices>>
    BY DEF LookupKey, ledgerVars, worldVars
  <1>2. ~Paid(a)
    BY <1>1 DEF Inv, ScanShape, HasPaid
  <1>3. CASE Answer(a, "error", Nobody)
    BY <1>1, <1>2, <1>3, RefuseInv DEF InFlight
  <1>4. CASE Goto(a, "post") /\ answer' = answer
    <2>1. pc' = [pc EXCEPT ![a] = "post"]
      BY <1>4 DEF Goto
    <2>2. TypeOK'
      BY <1>1, <1>4, <2>1 DEF Inv, TypeOK
    <2>3. pc'[a] = "post"
      BY <2>1 DEF Inv, TypeOK
    <2>4. ScanShape(a)'
      BY <1>1, <1>2, <1>4, <2>3
         DEF Inv, ScanShape, HasRow, HasPaid, Paid, FoundMatches, payload, Rows
    <2>5. \A b \in Attempts \ {a} : ScanKept(b)
      BY <1>1, <1>4, <2>1 DEF ScanKept, Inv, TypeOK
    <2>6. Exclusive'
      BY <1>1, <1>2, <2>1, ScanExclusive DEF HasRow
    <2> QED
      BY <1>1, <2>2, <2>4, <2>5, <2>6, ScanStep
  <1> QED
    BY <1>3, <1>4 DEF LookupKey

LEMMA NotifyInv ==
  ASSUME Inv, NEW a \in Attempts, Notify(a)
  PROVE  Inv'
  <1> DEFINE new == [by |-> a, row |-> found[a], txn |-> result[a],
                     amount |-> payload(a).amount]
  <1>1. /\ pc[a] = "notify" /\ notices' \in {notices, notices \cup {new}}
        /\ pc' = [pc EXCEPT ![a] = "done"]
        /\ answer' = [answer EXCEPT ![a] = [outcome |-> "ok", txn |-> result[a]]]
        /\ UNCHANGED <<balance, frozen, transactions, issuances, profiles, clock, faults,
                       request, requests, scan, found, result>>
    BY DEF Notify, Answer, Goto, ledgerVars, worldVars
  <1>2. /\ result[a] = a /\ PaidInFull(a) /\ FoundMatches(a)
        /\ scan[a] \in Rows /\ scan[a] # 0 /\ payload(a) \in Payload
    BY <1>1, ScannedType DEF Inv, ScanShape, HasPaid, HasRow, Rows
  <1>3. new \in Notice
    <2>1. found[a] \in 1..MaxRequests
      BY <1>2, MerchantAssumption DEF FoundMatches, Rows, Inv, TypeOK
    <2> QED
      BY <1>2, <2>1 DEF Notice, Payload
  <1>4. TypeOK'
    <2>1. "ok" \in Outcomes
      BY DEF Outcomes
    <2> QED
      BY <1>1, <1>2, <1>3, <2>1, AnswerType DEF Inv, TypeOK
  <1>5. pc'[a] = "done" /\ answer'[a].txn = a
    BY <1>1, <1>2 DEF Inv, TypeOK
  <1>6. PaidInFull(a)' /\ FoundMatches(a)'
    BY <1>1, <1>2 DEF PaidInFull, FoundMatches, payload, Rows
  <1>7. ScanShape(a)'
    BY <1>1, <1>2, <1>5, <1>6 DEF ScanShape, HasRow, HasPaid
  <1>8. \A n \in notices' : n \in notices \/ NoticeShape(n)'
    <2>1. SUFFICES ASSUME NEW n \in notices', n \notin notices PROVE NoticeShape(n)'
      OBVIOUS
    <2>2. n = new
      BY <1>1, <2>1
    <2> QED
      BY <1>1, <1>2, <1>6, <2>2 DEF NoticeShape, FoundMatches, payload, Rows
  <1>9. \A b \in Attempts \ {a} : ScanKept(b)
    BY <1>1 DEF ScanKept, Inv, TypeOK
  <1>10. Exclusive'
    BY <1>1, ScanExclusive DEF HasRow
  <1> QED
    BY <1>1, <1>4, <1>5, <1>7, <1>8, <1>9, <1>10, ScanStep

\* A scan that has found a PENDING row of its code.  Nobody has paid for the row: a
\* scan that had would be under way, or would have left it PAID.
LEMMA FindRowInv ==
  ASSUME Inv, NEW a \in Attempts, pc[a] \in {"find_pending", "find_any"},
         NEW i \in Rows, requests[i].qr_payload = payload(a),
         requests[i].status = "PENDING",
         found' = [found EXCEPT ![a] = i], Goto(a, "lookup"),
         UNCHANGED <<balance, frozen, transactions, issuances, profiles, clock, faults,
                     request, requests, scan, result, answer, notices>>
  PROVE  Inv'
  <1>1. pc' = [pc EXCEPT ![a] = "lookup"]
    BY DEF Goto
  <1>2. pc'[a] = "lookup" /\ found'[a] = i
    BY <1>1 DEF Inv, TypeOK
  <1>3. TypeOK'
    <2>1. i \in 0..Len(requests)
      BY DEF Rows, Inv, TypeOK
    <2> QED
      BY <1>1, <2>1 DEF Inv, TypeOK
  <1>4. ~Paid(a) /\ ~Paid(a)'
    BY DEF Inv, ScanShape, HasPaid, Paid
  <1>5. FoundMatches(a)'
    BY <1>2 DEF FoundMatches, payload, Rows
  <1>6. ScanShape(a)'
    BY <1>2, <1>4, <1>5 DEF Inv, ScanShape, HasPaid, HasRow
  <1>7. \A b \in Attempts \ {a} : ScanKept(b)
    BY <1>1 DEF ScanKept, Inv, TypeOK
  <1>8. Exclusive'
    <2> SUFFICES ASSUME faults = {}
                 PROVE  /\ \A b, c \in Attempts :
                             InFlight(b)' /\ InFlight(c)' /\ payload(b)' = payload(c)' => b = c
                        /\ \A b \in Attempts : Paid(b)' /\ clock' < payload(b)'.expires =>
                             /\ pc'[b] \in {"notify", "done"} =>
                                  requests'[found'[b]].status # "PENDING"
                             /\ \A c \in Attempts :
                                  (Paid(c)' \/ pc'[c] \in HasRow) /\ found'[c] = found'[b] => b = c
      BY DEF Exclusive
    <2>1. \A b \in Attempts :
            /\ payload(b)' = payload(b) /\ (InFlight(b)' <=> InFlight(b))
            /\ (Paid(b)' <=> Paid(b))
      BY <1>2, <1>7 DEF ScanKept, payload, InFlight, Paid
    <2>2. \A b, c \in Attempts :
            InFlight(b)' /\ InFlight(c)' /\ payload(b)' = payload(c)' => b = c
      BY <2>1 DEF Inv, Exclusive
    <2>3. ASSUME NEW b \in Attempts, Paid(b)', clock' < payload(b)'.expires
          PROVE  /\ b # a /\ Paid(b) /\ clock < payload(b).expires
                 /\ pc'[b] = pc[b] /\ found'[b] = found[b]
      BY <1>4, <1>7, <2>1, <2>3 DEF ScanKept
    <2>4. ASSUME NEW b \in Attempts, Paid(b)', clock' < payload(b)'.expires
          PROVE  found[b] # i
      <3>1. SUFFICES ASSUME found[b] = i PROVE FALSE
        OBVIOUS
      <3>2. payload(b) = payload(a)
        BY <2>3, <2>4, <3>1 DEF Inv, ScanShape, FoundMatches
      <3>3. ~InFlight(b) /\ InFlight(a)
        BY <2>3, <2>4, <3>2 DEF Inv, Exclusive, InFlight
      <3>4. pc[b] = "done"
        BY <2>3, <2>4, <3>3 DEF Inv, ScanShape, InFlight, HasPaid
      <3> QED
        BY <2>3, <2>4, <3>1, <3>4 DEF Inv, Exclusive
    <2>5. ASSUME NEW b \in Attempts, Paid(b)', clock' < payload(b)'.expires,
                 pc'[b] \in {"notify", "done"}
          PROVE  requests'[found'[b]].status # "PENDING"
      BY <2>3, <2>5 DEF Inv, Exclusive
    <2>6. ASSUME NEW b \in Attempts, Paid(b)', clock' < payload(b)'.expires,
                 NEW c \in Attempts, Paid(c)' \/ pc'[c] \in HasRow, found'[c] = found'[b]
          PROVE  b = c
      <3>1. c # a
        BY <1>2, <2>3, <2>4, <2>6
      <3>2. (Paid(c) \/ pc[c] \in HasRow) /\ found[c] = found[b]
        BY <1>7, <2>1, <2>3, <2>6, <3>1 DEF ScanKept
      <3> QED
        BY <2>3, <2>6, <3>2 DEF Inv, Exclusive
    <2> QED
      BY <2>2, <2>5, <2>6
  <1> QED
    BY <1>3, <1>6, <1>7, <1>8, ScanStep

LEMMA FindPendingInv ==
  ASSUME Inv, NEW a \in Attempts, FindPending(a)
  PROVE  Inv'
  <1>1. /\ pc[a] = "find_pending"
        /\ UNCHANGED <<balance, frozen, transactions, issuances, profiles, clock, faults,
                       request, requests, scan, result, answer, notices>>
    BY DEF FindPending, ledgerVars, worldVars
  <1>2. ASSUME NEW i \in ListMatch(payload(a), {"PENDING"}),
               found' = [found EXCEPT ![a] = i], Goto(a, "lookup")
        PROVE  Inv'
    <2>1. i \in Rows /\ requests[i].qr_payload = payload(a) /\ requests[i].status = "PENDING"
      BY DEF ListMatch
    <2> QED
      BY <1>1, <1>2, <2>1, FindRowInv
  <1>3. CASE Goto(a, "find_any") /\ found' = found
    <2>1. pc' = [pc EXCEPT ![a] = "find_any"]
      BY <1>3 DEF Goto
    <2>2. TypeOK'
      BY <1>1, <1>3, <2>1 DEF Inv, TypeOK
    <2>3. pc'[a] = "find_any"
      BY <2>1 DEF Inv, TypeOK
    <2>4. ScanShape(a)'
      BY <1>1, <2>3 DEF Inv, ScanShape, HasRow, HasPaid, Paid
    <2>5. \A b \in Attempts \ {a} : ScanKept(b)
      BY <1>1, <1>3, <2>1 DEF ScanKept, Inv, TypeOK
    <2>6. Exclusive'
      BY <1>1, <1>3, <2>1, ScanExclusive DEF HasRow
    <2> QED
      BY <1>1, <1>3, <2>2, <2>4, <2>5, <2>6, ScanStep
  <1> QED
    BY <1>2, <1>3 DEF FindPending

LEMMA FindAnyInv ==
  ASSUME Inv, NEW a \in Attempts, FindAny(a)
  PROVE  Inv'
  <1>1. /\ pc[a] = "find_any" /\ InFlight(a)
        /\ UNCHANGED <<balance, frozen, transactions, issuances, profiles, clock, faults,
                       request, requests, scan, result, notices>>
    BY DEF FindAny, InFlight, ledgerVars, worldVars
  <1>2. ~Paid(a) /\ pc[a] \notin HasRow
    BY <1>1 DEF Inv, ScanShape, HasPaid, HasRow
  <1>3. CASE Answer(a, "ErrPaymentRequestNotFound", Nobody) /\ found' = found
    BY <1>1, <1>2, <1>3, RefuseInv DEF StatusErrors
  <1>4. ASSUME NEW i \in ListMatch(payload(a), AnyStatus), found' = [found EXCEPT ![a] = i],
               \/ /\ StatusError(requests[i].status) # "none"
                  /\ Answer(a, StatusError(requests[i].status), Nobody)
               \/ /\ StatusError(requests[i].status) = "none"
                  /\ Goto(a, "lookup") /\ answer' = answer
        PROVE  Inv'
    <2>1. i \in Rows /\ requests[i].qr_payload = payload(a)
      BY DEF ListMatch
    <2>2. requests[i].status \in AnyStatus
      BY <2>1, RowType DEF Inv, PaymentRequest, AnyStatus
    <2>3. CASE requests[i].status = "PENDING"
      <3>1. StatusError(requests[i].status) = "none"
        BY <2>3 DEF StatusError
      <3> QED
        BY <1>1, <1>4, <2>1, <2>3, <3>1, FindRowInv
    <2>4. CASE requests[i].status # "PENDING"
      <3>1. StatusError(requests[i].status) \in StatusErrors
            /\ StatusError(requests[i].status) # "none"
        BY <2>2, <2>4 DEF StatusError, StatusErrors, AnyStatus
      <3> QED
        BY <1>1, <1>2, <1>4, <2>1, <3>1, RefuseInv
    <2> QED
      BY <2>3, <2>4
  <1> QED
    BY <1>3, <1>4 DEF FindAny

-----------------------------------------------------------------------------
\* The transfer commits: a payment of the scan's code, from its payer.
LEMMA PostingWrites ==
  ASSUME Inv, NEW a \in Attempts, PostTransfer(a)
  PROVE  /\ balance' \in [Wallets -> 0..MaxBigint]
         /\ transactions \subseteq transactions'
         /\ \A t \in transactions' \ transactions : t.id = a
         /\ \E t \in transactions' :
              /\ t.id = a /\ t.sender = request[a].payer
              /\ t.amount = payload(a).amount /\ t.receiver = payload(a).merchant
         /\ UNCHANGED <<frozen, issuances>>
  <1> DEFINE s == request[a].payer
             r == payload(a).merchant
             n == payload(a).amount
             row == [id |-> a, type |-> "TRANSFER", status |-> "SETTLED", sender |-> s,
                     receiver |-> r, amount |-> n, key |-> request[a].key]
  <1>1. pc[a] = "post" /\ Led!PostTransfer(a, s, r, n, request[a].key)
    BY DEF PostTransfer
  <1>2. s \in Wallets /\ r \in Wallets /\ n \in Nat /\ MaxBigint \in Nat
    BY <1>1, ScannedType, MerchantAssumption DEF Payload
  <1>3. /\ s # r /\ n > 0 /\ balance[s] >= n /\ balance[r] + n <= MaxBigint
        /\ balance' = [balance EXCEPT ![s] = @ - n, ![r] = @ + n]
        /\ transactions' = transactions \cup {row}
        /\ UNCHANGED <<frozen, issuances>>
    BY <1>1 DEF Led!PostTransfer
  <1>4. balance \in [Wallets -> 0..MaxBigint]
    BY DEF Inv, TypeOK
  <1>5. balance' \in [Wallets -> 0..MaxBigint]
    <2>1. balance[s] \in 0..MaxBigint /\ balance[r] \in 0..MaxBigint
      BY ONLY <1>2, <1>4
    <2>2. balance[s] - n \in 0..MaxBigint /\ balance[r] + n \in 0..MaxBigint
      BY ONLY <1>2, <1>3, <2>1
    <2> QED
      BY ONLY <1>2, <1>3, <1>4, <2>2
  <1>6. row \in transactions'
        /\ row.id = a /\ row.sender = s /\ row.amount = n /\ row.receiver = r
    BY <1>3
  <1> QED
    BY <1>3, <1>5, <1>6

LEMMA PostTransferInv ==
  ASSUME Inv, NEW a \in Attempts, PostTransfer(a)
  PROVE  Inv'
  <1>1. /\ pc[a] = "post"
        /\ UNCHANGED <<profiles, clock, faults, request, requests, scan, found, notices>>
    BY DEF PostTransfer, worldVars
  <1>2. PICK p \in {"mark", "done"} :
          /\ pc' = [pc EXCEPT ![a] = p]
          /\ \/ /\ p = "mark" /\ answer' = answer
                /\ result' = [result EXCEPT ![a] = a]
             \/ /\ p = "done" /\ result' = result /\ "commit" \in faults
                /\ answer' = [answer EXCEPT ![a] = [outcome |-> "error", txn |-> Nobody]]
    BY DEF PostTransfer, Answer, Goto
  <1>3. /\ balance' \in [Wallets -> 0..MaxBigint]
        /\ transactions \subseteq transactions'
        /\ \A t \in transactions' \ transactions : t.id = a
        /\ \E t \in transactions' :
             /\ t.id = a /\ t.sender = request[a].payer
             /\ t.amount = payload(a).amount /\ t.receiver = payload(a).merchant
        /\ UNCHANGED <<frozen, issuances>>
    BY PostingWrites
  <1>4. TypeOK'
    <2>1. "error" \in Outcomes
      BY DEF Outcomes
    <2>2. answer' \in [Attempts ->
            [outcome: {"none", "ok", "error"} \cup ScanErrors \cup StatusErrors,
             txn: Attempts \cup {Nobody}]]
      BY <1>2, <2>1, AnswerType DEF Inv
    <2>3. result' \in [Attempts -> Attempts \cup {Nobody}]
      BY <1>2 DEF Inv, TypeOK
    <2>4. pc' \in [Attempts -> {"start", "find_pending", "find_any", "lookup", "post",
                                "mark", "notify", "done"}]
      BY <1>2 DEF Inv, TypeOK
    <2> QED
      BY <1>1, <1>3, <2>2, <2>3, <2>4 DEF Inv, TypeOK
  <1>5. FoundMatches(a) /\ FoundMatches(a)' /\ scan[a] # 0 /\ answer[a].outcome # "ok"
    BY <1>1 DEF Inv, ScanShape, HasRow, FoundMatches, payload, Rows
  <1>6. PaidInFull(a)'
    BY <1>1, <1>3 DEF PaidInFull, payload
  <1>7. ScanShape(a)'
    <2>1. pc'[a] = p
      BY <1>2 DEF Inv, TypeOK
    <2>2. p = "mark" => result'[a] = a
      BY <1>2 DEF Inv, TypeOK
    <2>3. answer'[a].outcome # "ok"
      BY <1>2, <1>5 DEF Inv, TypeOK
    <2> QED
      BY <1>1, <1>5, <1>6, <2>1, <2>2, <2>3 DEF ScanShape, HasRow, HasPaid
  <1>8. \A b \in Attempts \ {a} : ScanKept(b)
    BY <1>1, <1>2 DEF ScanKept, Inv, TypeOK
  <1>9. Exclusive'
    <2> SUFFICES ASSUME faults = {}
                 PROVE  /\ \A b, c \in Attempts :
                             InFlight(b)' /\ InFlight(c)' /\ payload(b)' = payload(c)' => b = c
                        /\ \A b \in Attempts : Paid(b)' /\ clock' < payload(b)'.expires =>
                             /\ pc'[b] \in {"notify", "done"} =>
                                  requests'[found'[b]].status # "PENDING"
                             /\ \A c \in Attempts :
                                  (Paid(c)' \/ pc'[c] \in HasRow) /\ found'[c] = found'[b] => b = c
      BY <1>1 DEF Exclusive
    <2>1. pc'[a] = "mark" /\ pc[a] \in HasRow
      BY <1>1, <1>2 DEF Inv, TypeOK, HasRow
    <2>2. \A b \in Attempts :
            payload(b)' = payload(b) /\ (InFlight(b)' <=> InFlight(b))
      BY <1>1, <1>8, <2>1 DEF ScanKept, payload, InFlight
    <2>3. \A b \in Attempts \ {a} :
            /\ Paid(b)' <=> Paid(b)
            /\ pc'[b] = pc[b]
      BY <1>3, <1>8 DEF Paid, ScanKept
    <2>4. \A b, c \in Attempts :
            InFlight(b)' /\ InFlight(c)' /\ payload(b)' = payload(c)' => b = c
      BY <2>2 DEF Inv, Exclusive
    <2>5. ASSUME NEW b \in Attempts, Paid(b)', clock' < payload(b)'.expires,
                 pc'[b] \in {"notify", "done"}
          PROVE  requests'[found'[b]].status # "PENDING"
      BY <1>1, <2>1, <2>2, <2>3, <2>5 DEF Inv, Exclusive
    <2>6. ASSUME NEW c \in Attempts \ {a}, Paid(c) \/ pc[c] \in HasRow,
                 found[c] = found[a], clock < payload(a).expires
          PROVE  FALSE
      <3>1. FoundMatches(c)
        BY <2>6 DEF Inv, ScanShape
      <3>2. payload(c) = payload(a)
        BY <1>5, <2>6, <3>1 DEF FoundMatches
      <3>3. CASE Paid(c)
        BY <2>1, <2>6, <3>2, <3>3 DEF Inv, Exclusive
      <3>4. CASE pc[c] \in HasRow
        <4>1. InFlight(c) /\ InFlight(a)
          BY <1>1, <3>4 DEF InFlight, HasRow
        <4> QED
          BY <2>6, <3>2, <4>1 DEF Inv, Exclusive
      <3> QED
        BY <2>6, <3>3, <3>4
    <2>7. ASSUME NEW b \in Attempts, Paid(b)', clock' < payload(b)'.expires,
                 NEW c \in Attempts, Paid(c)' \/ pc'[c] \in HasRow, found'[c] = found'[b]
          PROVE  b = c
      <3>1. CASE b = a
        BY <1>1, <2>2, <2>3, <2>6, <2>7, <3>1
      <3>2. CASE b # a
        <4>1. Paid(b) /\ clock < payload(b).expires /\ found[c] = found[b]
          BY <1>1, <2>2, <2>3, <2>7, <3>2
        <4>2. Paid(c) \/ pc[c] \in HasRow
          BY <2>1, <2>3, <2>7
        <4> QED
          BY <4>1, <4>2 DEF Inv, Exclusive
      <3> QED
        BY <3>1, <3>2
    <2> QED
      BY <2>4, <2>5, <2>7
  <1> QED
    BY <1>1, <1>3, <1>4, <1>7, <1>8, <1>9, ScanStep

\* The UPDATE of MarkPaid, when it finds its row: only the status and the two ids
\* change.
LEMMA MarkedRow ==
  ASSUME Inv, NEW a \in Attempts, found[a] \in Rows,
         requests' = [requests EXCEPT ![found[a]] = PaidRow(@, request[a].payer, a)],
         request[a].payer \in Wallets
  PROVE  /\ requests' \in Seq(PaymentRequest) /\ Len(requests') = Len(requests)
         /\ RowsKept /\ Rows' = Rows
         /\ \A i \in Rows \ {found[a]} : requests'[i] = requests[i]
         /\ requests'[found[a]].status = "PAID"
         /\ requests'[found[a]].transaction_id = a
         /\ requests'[found[a]].paid_by_wallet_id = request[a].payer
  <1> DEFINE k == found[a]
             old == requests[k]
             row == PaidRow(old, request[a].payer, a)
  <1>1. requests \in Seq(PaymentRequest) /\ k \in 1..Len(requests) /\ old \in PaymentRequest
    BY RowType DEF Inv, TypeOK, Rows
  <1>2. /\ row \in PaymentRequest
        /\ row.qr_payload = old.qr_payload /\ row.amount = old.amount
        /\ row.expires_at = old.expires_at /\ row.status = "PAID"
        /\ row.transaction_id = a /\ row.paid_by_wallet_id = request[a].payer
    BY <1>1 DEF PaymentRequest, PaidRow
  <1>3. requests' = [requests EXCEPT ![k] = row]
    OBVIOUS
  <1> HIDE DEF row
  <1>4. /\ requests' \in Seq(PaymentRequest) /\ Len(requests') = Len(requests)
        /\ \A i \in 1..Len(requests) : requests'[i] = IF i = k THEN row ELSE requests[i]
    BY ONLY <1>1, <1>2, <1>3, ExceptSeq
  <1>5. RowsKept /\ Rows' = Rows
    BY <1>2, <1>4 DEF RowsKept, Rows
  <1> QED
    BY <1>1, <1>2, <1>4, <1>5 DEF Rows

LEMMA MarkPaidInv ==
  ASSUME Inv, NEW a \in Attempts, MarkPaid(a)
  PROVE  Inv'
  <1> DEFINE k == found[a]
  <1>1. /\ pc[a] = "mark" /\ pc' = [pc EXCEPT ![a] = "notify"]
        /\ UNCHANGED <<balance, frozen, transactions, issuances, profiles, clock, faults,
                       request, scan, found, result, answer, notices>>
    BY DEF MarkPaid, Goto, ledgerVars, worldVars
  <1>2. /\ result[a] = a /\ PaidInFull(a) /\ FoundMatches(a) /\ k \in Rows
        /\ scan[a] \in Rows /\ scan[a] # 0 /\ request[a].payer \in Wallets
    BY <1>1, ScannedType DEF Inv, ScanShape, HasPaid, HasRow, FoundMatches, Rows
  <1>3. \/ Markable(k) /\ requests' = [requests EXCEPT ![k] = PaidRow(@, request[a].payer, a)]
        \/ requests' = requests /\ (~Markable(k) \/ "database" \in faults)
    BY <1>2 DEF MarkPaid
  <1>4. pc'[a] = "notify"
    BY <1>1 DEF Inv, TypeOK
  <1>5. \A b \in Attempts \ {a} : ScanKept(b)
    BY <1>1 DEF ScanKept, Inv, TypeOK
  <1>6. /\ requests' \in Seq(PaymentRequest) /\ Len(requests') = Len(requests)
        /\ RowsKept /\ Rows' = Rows
        /\ \A i \in Rows \ {k} : requests'[i] = requests[i]
        /\ \/ requests'[k] = requests[k]
           \/ /\ requests'[k].status = "PAID" /\ requests'[k].transaction_id = a
              /\ requests'[k].paid_by_wallet_id = request[a].payer
    <2>1. CASE requests' = requests
      BY <2>1, SameRows DEF Inv, TypeOK
    <2>2. CASE requests' = [requests EXCEPT ![k] = PaidRow(@, request[a].payer, a)]
      BY <1>2, <2>2, MarkedRow
    <2> QED
      BY <1>3, <2>1, <2>2
  <1>7. TypeOK'
    BY <1>1, <1>6 DEF Inv, TypeOK
  <1>8. PaidInFull(a)' /\ FoundMatches(a)'
    BY <1>1, <1>2, <1>6, PaidInFullStays, FoundMatchesStays
  <1>9. ScanShape(a)'
    BY <1>1, <1>2, <1>4, <1>8 DEF Inv, ScanShape, HasRow, HasPaid
  <1>10. \A b \in Attempts : ScanShape(b)'
    BY <1>1, <1>5, <1>6, <1>9, ScanFrame
  <1>11. \A b \in Attempts : pc[b] \in {"notify", "done"} =>
           /\ pc'[b] \in {"notify", "done"}
           /\ scan'[b] = scan[b] /\ found'[b] = found[b]
    BY <1>1, <1>5 DEF ScanKept
  <1>12. RowShape(k)'
    <2>1. CASE requests'[k] = requests[k]
      BY <1>1, <1>2, <1>6, <1>11, <2>1, RowFrame
    <2>2. CASE requests'[k].status = "PAID" /\ requests'[k].transaction_id = a
               /\ requests'[k].paid_by_wallet_id = request[a].payer
      <3>1. RowShape(k)
        BY <1>2 DEF Inv
      <3> QED
        BY <1>1, <1>2, <1>4, <1>6, <1>8, <2>2, <3>1 DEF RowShape, RowsKept
    <2> QED
      BY <1>6, <2>1, <2>2
  <1>13. \A i \in Rows' : RowShape(i)'
    <2>1. ASSUME NEW i \in Rows \ {k} PROVE RowShape(i)'
      BY <1>1, <1>6, <1>11, <2>1, RowFrame
    <2>2. ASSUME NEW i \in Rows, i = k PROVE RowShape(i)'
      BY <1>1, <1>12, <2>2 DEF RowShape
    <2> QED
      BY <1>6, <2>1, <2>2
  <1>14. \A n \in notices' : NoticeShape(n)'
    BY <1>1, <1>6, NoticeFrame
  <1>15. Exclusive'
    <2> SUFFICES ASSUME faults = {}
                 PROVE  /\ \A b, c \in Attempts :
                             InFlight(b)' /\ InFlight(c)' /\ payload(b)' = payload(c)' => b = c
                        /\ \A b \in Attempts : Paid(b)' /\ clock' < payload(b)'.expires =>
                             /\ pc'[b] \in {"notify", "done"} =>
                                  requests'[found'[b]].status # "PENDING"
                             /\ \A c \in Attempts :
                                  (Paid(c)' \/ pc'[c] \in HasRow) /\ found'[c] = found'[b] => b = c
      BY <1>1 DEF Exclusive
    <2>1. \A b \in Attempts : (InFlight(b)' => InFlight(b)) /\ (Paid(b)' <=> Paid(b))
                              /\ (pc'[b] \in HasRow <=> pc[b] \in HasRow)
      BY <1>1, <1>4, <1>5 DEF ScanKept, InFlight, Paid, HasRow
    <2>2. \A b \in Attempts : InFlight(b) \/ Paid(b) => payload(b)' = payload(b)
      <3>1. \A b \in Attempts : InFlight(b) \/ Paid(b) => scan[b] \in Rows
        BY ScannedType DEF InFlight, Inv, ScanShape, HasPaid
      <3> QED
        BY <1>1, <1>6, <3>1 DEF payload, RowsKept
    <2>3. \A b, c \in Attempts :
            InFlight(b)' /\ InFlight(c)' /\ payload(b)' = payload(c)' => b = c
      BY <2>1, <2>2 DEF Inv, Exclusive
    <2>4. ASSUME NEW b \in Attempts, Paid(b)', clock' < payload(b)'.expires
          PROVE  Paid(b) /\ clock < payload(b).expires /\ found[b] \in Rows
      BY <1>1, <2>1, <2>2, <2>4 DEF Inv, ScanShape, FoundMatches
    <2>5. ASSUME clock < payload(a).expires
          PROVE  requests'[k].status # "PENDING"
      <3>1. CASE requests' = requests /\ ~Markable(k)
        <4>1. /\ requests[k].expires_at \in Nat /\ clock \in Nat
              /\ payload(a).expires \in Nat
          <5>1. requests[k] \in PaymentRequest /\ requests[k].qr_payload = payload(a)
            BY <1>2, RowType DEF Inv, FoundMatches
          <5>2. payload(a) \in Payload
            BY <5>1 DEF PaymentRequest
          <5>3. clock \in Nat
            BY MerchantAssumption DEF Inv, TypeOK
          <5> QED
            BY <5>1, <5>2, <5>3 DEF PaymentRequest, Payload
        <4>2. payload(a).expires <= requests[k].expires_at
          BY <1>2 DEF Inv, RowShape, FoundMatches
        <4> QED
          BY <1>1, <2>5, <3>1, <4>1, <4>2 DEF Markable
      <3>2. CASE requests' = [requests EXCEPT ![k] = PaidRow(@, request[a].payer, a)]
        BY <1>2, <3>2, MarkedRow
      <3> QED
        BY <1>3, <3>1, <3>2
    <2>6. ASSUME NEW b \in Attempts, Paid(b)', clock' < payload(b)'.expires,
                 pc'[b] \in {"notify", "done"}
          PROVE  requests'[found'[b]].status # "PENDING"
      <3>1. CASE b = a
        BY <1>1, <2>4, <2>5, <2>6, <3>1
      <3>2. CASE b # a
        <4>1. pc[b] \in {"notify", "done"}
          BY <1>5, <2>6, <3>2 DEF ScanKept
        <4>2. requests[found[b]].status # "PENDING" /\ found[b] \in Rows
          BY <2>4, <2>6, <4>1 DEF Inv, Exclusive
        <4> QED
          BY <1>1, <1>6, <4>2
      <3> QED
        BY <3>1, <3>2
    <2>7. ASSUME NEW b \in Attempts, Paid(b)', clock' < payload(b)'.expires,
                 NEW c \in Attempts, Paid(c)' \/ pc'[c] \in HasRow, found'[c] = found'[b]
          PROVE  b = c
      BY <1>1, <2>1, <2>4, <2>7 DEF Inv, Exclusive
    <2> QED
      BY <2>3, <2>6, <2>7
  <1> QED
    BY <1>7, <1>10, <1>13, <1>14, <1>15 DEF Inv

-----------------------------------------------------------------------------
LEMMA StutterInv ==
  ASSUME Inv, UNCHANGED vars
  PROVE  Inv'
  <1>1. UNCHANGED <<balance, frozen, transactions, issuances, profiles, requests, clock,
                    faults, request, scan, found, result, pc, answer, notices>>
    BY DEF vars
  <1>2. TypeOK'
    BY <1>1 DEF Inv, TypeOK
  <1>3. clock' >= clock
    BY <1>1, MerchantAssumption DEF Inv, TypeOK
  <1> QED
    BY <1>1, <1>2, <1>3, SameRows, WorldStep

LEMMA InvInit ==
  ASSUME Init
  PROVE  Inv
  <1> USE DEF Init, Led!AbsInit
  <1>1. TypeOK
    <2>1. requests \in Seq(PaymentRequest) /\ Len(requests) = 0
      OBVIOUS
    <2>2. answer \in [Attempts ->
            [outcome: {"none", "ok", "error"} \cup ScanErrors \cup StatusErrors,
             txn: Attempts \cup {Nobody}]]
      <3>1. \A a \in Attempts : answer[a] = [outcome |-> "none", txn |-> Nobody]
        OBVIOUS
      <3>2. [outcome |-> "none", txn |-> Nobody] \in
              [outcome: {"none", "ok", "error"} \cup ScanErrors \cup StatusErrors,
               txn: Attempts \cup {Nobody}]
        OBVIOUS
      <3> QED
        BY <3>2
    <2> QED
      BY <2>1, <2>2, MerchantAssumption DEF TypeOK
  <1>2. Rows = {} /\ \A a \in Attempts : ~Paid(a) /\ pc[a] = "start"
    BY DEF Rows, Paid
  <1>3. \A a \in Attempts : ScanShape(a)
    BY <1>2 DEF ScanShape, HasRow, HasPaid
  <1>4. Exclusive
    BY <1>2 DEF Exclusive, InFlight
  <1> QED
    BY <1>1, <1>2, <1>3, <1>4 DEF Inv

LEMMA InvNext ==
  ASSUME Inv, [Next]_vars
  PROVE  Inv'
  <1>1. ASSUME NEW m \in Merchants, Register(m) \/ Deactivate(m)
        PROVE  Inv'
    BY <1>1, RegisterInv
  <1>2. ASSUME NEW m \in Merchants, NEW amount \in Amounts, NEW secs \in ExpirySecs,
               CreatePaymentRequest(m, amount, secs)
        PROVE  Inv'
    BY <1>2, CreateInv
  <1>3. ASSUME NEW i \in Rows, CancelPaymentRequest(i)
        PROVE  Inv'
    BY <1>3, CancelInv
  <1>4. ASSUME NEW a \in Attempts, NEW i \in Rows, Scan(a, i)
        PROVE  Inv'
    BY <1>4, ScanInv
  <1>5. ASSUME NEW a \in Attempts, FindPending(a) \/ FindAny(a)
        PROVE  Inv'
    BY <1>5, FindPendingInv, FindAnyInv
  <1>6. ASSUME NEW a \in Attempts, LookupKey(a) \/ PostTransfer(a)
        PROVE  Inv'
    BY <1>6, LookupKeyInv, PostTransferInv
  <1>7. ASSUME NEW a \in Attempts, Fail(a) \/ Die(a)
        PROVE  Inv'
    BY <1>7, FailInv
  <1>8. ASSUME NEW a \in Attempts, MarkPaid(a) \/ Notify(a)
        PROVE  Inv'
    BY <1>8, MarkPaidInv, NotifyInv
  <1>9. CASE Tick
    BY <1>9, TickInv
  <1>10. CASE UNCHANGED vars
    BY <1>10, StutterInv
  <1> QED
    BY <1>1, <1>2, <1>3, <1>4, <1>5, <1>6, <1>7, <1>8, <1>9, <1>10 DEF Next

LEMMA Invariance == Spec => []Inv
  <1>1. Init => Inv
    BY InvInit
  <1>2. Inv /\ [Next]_vars => Inv'
    BY InvNext
  <1> QED
    BY <1>1, <1>2, PTL DEF Spec

-----------------------------------------------------------------------------
\* However merchants, payers, the clock and the faults interleave, the rows of
\* payment_requests keep their types: a PAID row's ids name a wallet and a payment.
THEOREM MerchantTypeInvariant == Spec => []TypeOK
  <1>1. Inv => TypeOK
    BY DEF Inv
  <1> QED
    BY <1>1, Invariance, PTL

\* MarkPaid never marks a row with a payment that did not commit, or was made for
\* another code, another amount or from another wallet, and never with one that
\* another row names.
THEOREM PaidIsPaidInvariant == Spec => []PaidIsPaid
  <1>1. ASSUME Inv PROVE PaidIsPaid
    <2>1. SUFFICES ASSUME NEW i \in Rows, requests[i].status = "PAID"
                   PROVE  /\ PaysFor(requests[i].transaction_id, i,
                                     requests[i].paid_by_wallet_id)
                          /\ \A j \in Rows :
                               requests[j].transaction_id = requests[i].transaction_id => j = i
      BY DEF PaidIsPaid
    <2>2. PICK a \in Attempts :
            /\ requests[i].transaction_id = a
            /\ requests[i].paid_by_wallet_id = request[a].payer
            /\ found[a] = i /\ FoundMatches(a) /\ PaidInFull(a)
      BY <1>1, <2>1 DEF Inv, RowShape
    <2>3. PaysFor(a, i, request[a].payer)
      BY <1>1, <2>2 DEF PaysFor, PaidInFull, FoundMatches, Inv, RowShape
    <2>4. ASSUME NEW j \in Rows, requests[j].transaction_id = a
          PROVE  j = i
      <3>1. a # Nobody
        BY MerchantAssumption
      <3> QED
        BY <1>1, <2>2, <2>4, <3>1 DEF Inv, RowShape
    <2> QED
      BY <2>2, <2>3, <2>4
  <1> QED
    BY <1>1, Invariance, PTL

\* PayViaQR answers success, and tells the merchant, only of a payment for the code
\* that was scanned, from the wallet of the user who scanned it.
THEOREM AnswersTruthfulInvariant == Spec => []AnswersTruthful
  <1>1. ASSUME Inv PROVE AnswersTruthful
    <2>1. ASSUME NEW a \in Attempts, answer[a].outcome = "ok"
          PROVE  PaysFor(answer[a].txn, scan[a], request[a].payer)
      <3>1. answer[a].txn = a /\ PaidInFull(a) /\ scan[a] \in Rows
        BY <1>1, <2>1, ScannedType DEF Inv, ScanShape
      <3>2. requests[scan[a]].amount = payload(a).amount
        BY <1>1, <3>1 DEF Inv, RowShape, payload
      <3> QED
        BY <3>1, <3>2 DEF PaysFor, PaidInFull, payload
    <2>2. ASSUME NEW n \in notices
          PROVE  PaysFor(n.txn, n.row, request[n.by].payer)
      BY <1>1, <2>2 DEF Inv, NoticeShape, RowShape, PaysFor, PaidInFull
    <2> QED
      BY <2>1, <2>2 DEF AnswersTruthful
  <1> QED
    BY <1>1, Invariance, PTL

\* Whatever merchants cancel and payers pay, no statement writes a row that is
\* PAID or CANCELLED: the condition of both UPDATEs is that it is PENDING.
THEOREM FinalStatusInvariant == Spec => FinalStatus
  <1>1. ASSUME TypeOK, [Next]_vars, NEW i \in Rows, requests[i].status # "PENDING"
        PROVE  requests'[i] = requests[i]
    <2>1. requests \in Seq(PaymentRequest) /\ i \in 1..Len(requests)
      BY <1>1 DEF TypeOK, Rows
    <2>2. ASSUME NEW m \in Merchants, NEW amount \in Amounts, NEW secs \in ExpirySecs,
                 CreatePaymentRequest(m, amount, secs)
          PROVE  requests'[i] = requests[i]
      BY <2>1, <2>2 DEF CreatePaymentRequest
    <2>3. ASSUME NEW j \in Rows, CancelPaymentRequest(j)
          PROVE  requests'[i] = requests[i]
      BY <1>1, <2>1, <2>3 DEF CancelPaymentRequest
    <2>4. ASSUME NEW a \in Attempts, MarkPaid(a)
          PROVE  requests'[i] = requests[i]
      BY <1>1, <2>1, <2>4 DEF MarkPaid, Markable
    <2>5. CASE requests' = requests
      BY <2>5
    <2>6. \A m \in Merchants : Register(m) \/ Deactivate(m) => requests' = requests
      BY DEF Register, Deactivate
    <2>7. \A a \in Attempts :
            /\ \A j \in Rows : Scan(a, j) => requests' = requests
            /\ FindPending(a) \/ FindAny(a) \/ LookupKey(a) \/ PostTransfer(a)
               \/ Fail(a) \/ Notify(a) \/ Die(a) => requests' = requests
      BY DEF Scan, FindPending, FindAny, LookupKey, PostTransfer, Fail, Notify, Die
    <2>8. Tick \/ UNCHANGED vars => requests' = requests
      BY DEF Tick, vars
    <2> QED
      BY <1>1, <2>2, <2>3, <2>4, <2>5, <2>6, <2>7, <2>8 DEF Next
  <1>2. TypeOK /\ [Next]_vars =>
          [\A i \in Rows : requests[i].status # "PENDING" => requests'[i] = requests[i]]_vars
    BY <1>1
  <1> QED
    BY <1>2, MerchantTypeInvariant, PTL DEF Spec, FinalStatus

\* As long as no fault happens, scans of one code that come one after the other do
\* not pay it more often than there are rows for it, whatever the merchant cancels,
\* until it expires: each payment found a row of its own.
THEOREM PaidOnceWithoutFaultsInvariant == Spec => []PaidOnceWithoutFaults
  <1>1. ASSUME Inv PROVE PaidOnceWithoutFaults
    <2>1. SUFFICES ASSUME faults = {}, NEW k \in Rows,
                          clock < requests[k].qr_payload.expires
                   PROVE  PaidOnce(requests[k].qr_payload)
      BY DEF PaidOnceWithoutFaults
    <2> DEFINE p == requests[k].qr_payload
               S == PaymentsOf(p)
               T == {i \in Rows : requests[i].qr_payload = p}
               f == [a \in S |-> found[a]]
    <2>2. \A a \in S : a \in Attempts /\ Paid(a) /\ payload(a) = p
      BY DEF PaymentsOf, Paid
    <2>3. \A a \in S : found[a] \in T
      BY <1>1, <2>2 DEF Inv, ScanShape, FoundMatches
    <2>4. \A a, b \in S : found[a] = found[b] => a = b
      BY <1>1, <2>1, <2>2 DEF Inv, Exclusive
    <2>5. f \in Injection(S, T)
      <3> HIDE DEF S, T
      <3>1. f \in [S -> T] /\ \A a, b \in S : f[a] = f[b] => a = b
        BY <2>3, <2>4
      <3> QED
        BY <3>1 DEF Injection, IsInjective
    <2>6. IsFiniteSet(T)
      <3>1. Len(requests) \in Nat /\ Rows = 1..Len(requests)
        BY <1>1 DEF Inv, TypeOK, Rows
      <3>2. IsFiniteSet(Rows)
        BY <3>1, FS_Interval
      <3> QED
        BY <3>2, FS_Subset
    <2>7. Cardinality(S) <= Cardinality(T)
      BY ONLY <2>5, <2>6, FS_Injection
    <2> QED
      BY <2>7 DEF PaidOnce
  <1> QED
    BY <1>1, Invariance, PTL
=============================================================================
