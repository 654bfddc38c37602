--------------------------- MODULE IssuanceProofs ---------------------------
(***************************************************************************)
(* Proofs about Issuance, for any wallets, admins, attempts, requests, keys *)
(* and sets of faults.                                                      *)
(***************************************************************************)
EXTENDS Issuance, FiniteSetTheorems, WellFoundedInduction, TLAPS

\* Where an attempt is while it is under way, once its issuance is answered by the
\* ledger, and once it may have been committed.
Active == {"redis", "issue", "store", "audit", "notify", "reply"}
Served == {"store", "audit", "notify", "reply"}
Past == Served \cup {"done", "dead"}

Valid(q) == q.amount \in 1..maxIssuanceCents /\ q.key \in Keys

\* The one row that attempt a may commit.
IssuanceRow(a) ==
  [txn |-> a, wallet |-> request[a].wallet, amount |-> request[a].amount]

\* Each committed issuance is that of an attempt that is past its posting.
Rows ==
  \A x \in issuances :
    /\ x.txn \in Attempts /\ x = IssuanceRow(x.txn)
    /\ Valid(request[x.txn])
    /\ pc[x.txn] \in Past

\* Redis holds responses of committed issuances of the admin and key they are under.
CacheCommitted ==
  \A admin \in Scopes, key \in Keys :
    Cached(admin, key) # NoResponse => Minted(Cached(admin, key), admin, key)

Shape(a) ==
  /\ pc[a] \in Active => Valid(request[a])
  /\ pc[a] \in Served => request[a].wallet \in Wallets /\ IssuanceRow(a) \in issuances
  /\ answer[a].outcome = "ok" =>
       Minted(answer[a].body, request[a].admin, request[a].key)

Same(a, b) ==
  request[a].admin = request[b].admin /\ request[a].key = request[b].key

\* Without faults one attempt at a time is under way for an admin and key,
\* an issuance whose attempt is past storing its response has it in Redis, and an
\* attempt that missed Redis has no issuance to repeat.
OneAtATime ==
  \A a, b \in Attempts : a # b /\ Same(a, b) /\ pc[a] \in Active => pc[b] \notin Active
Stored ==
  \A x \in issuances :
    \/ pc[x.txn] = "store"
    \/ Cached(request[x.txn].admin, request[x.txn].key) # NoResponse
MissIsTrue ==
  \A a \in Attempts : pc[a] = "issue" => \A x \in issuances : ~Same(a, x.txn)

Serial == OneAtATime /\ Stored /\ MissIsTrue /\ MintedOnce

\* The inductive invariant.
Inv ==
  /\ TypeOK /\ Rows /\ CacheCommitted
  /\ \A a \in Attempts : Shape(a)
  /\ faults = {} => Serial

-----------------------------------------------------------------------------
\* What a request asks, from the assumption on the constants.
LEMMA RequestType ==
  ASSUME TypeOK, NEW a \in Attempts
  PROVE  /\ request[a].admin \in Scopes /\ request[a].wallet \in Int
         /\ request[a].amount \in Int /\ request[a].key \in Keys \cup {NoKey}
  BY IssuanceAssumption DEF TypeOK

\* The checks of IssueRequest.Validate and of the handler.
LEMMA InputErrorFacts ==
  ASSUME TypeOK, NEW a \in Attempts
  PROVE  /\ InputError(request[a]) \in InputErrors \cup {"none"}
         /\ InputError(request[a]) = "none" => Valid(request[a])
  BY RequestType, IssuanceAssumption DEF InputError, InputErrors, Valid

\* Issuances are only added, so what was committed stays committed.
LEMMA MintedStays ==
  ASSUME issuances \subseteq issuances', request' = request
  PROVE  \A r, admin, key : Minted(r, admin, key) => Minted(r, admin, key)'
  BY DEF Minted

\* A step of attempt a leaves the shape of another attempt alone.
LEMMA Others ==
  ASSUME Inv, NEW a \in Attempts, NEW b \in Attempts, b # a,
         pc'[b] = pc[b], answer'[b] = answer[b], request' = request,
         issuances \subseteq issuances'
  PROVE  Shape(b)'
  BY MintedStays DEF Inv, Shape, IssuanceRow

\* Steps of attempt a that write neither the ledger nor Redis: only the attempt
\* itself and the order of attempts are to be looked at.
LEMMA QuietStep ==
  ASSUME Inv, NEW a \in Attempts, NEW p,
         pc' = [pc EXCEPT ![a] = p],
         pc[a] \in Past => p \in Past,
         UNCHANGED <<issuances, cache, faults, request>>,
         \A b \in Attempts \ {a} : answer'[b] = answer[b],
         TypeOK', Shape(a)', faults = {} => Serial'
  PROVE  Inv'
  <1>1. \A b \in Attempts : pc'[b] = IF b = a THEN p ELSE pc[b]
    BY DEF Inv, TypeOK
  <1>2. Rows'
    BY <1>1 DEF Inv, Rows, IssuanceRow
  <1>3. CacheCommitted'
    BY DEF Inv, CacheCommitted, Cached, Minted
  <1>4. \A b \in Attempts : Shape(b)'
    BY <1>1, Others
  <1> QED
    BY <1>2, <1>3, <1>4 DEF Inv

\* The order of attempts survives a step of an attempt that is under way, unless
\* it leaves "store" or reaches "issue".
LEMMA SerialStep ==
  ASSUME Inv, NEW a \in Attempts, NEW p,
         pc' = [pc EXCEPT ![a] = p],
         pc[a] \in Active, pc[a] # "store", p # "issue",
         UNCHANGED <<issuances, cache, faults, request>>
  PROVE  faults = {} => Serial'
  <1> SUFFICES ASSUME faults = {} PROVE Serial'
    OBVIOUS
  <1>1. Serial /\ \A b \in Attempts : pc'[b] = IF b = a THEN p ELSE pc[b]
    BY DEF Inv, TypeOK
  <1>2. OneAtATime'
    BY <1>1 DEF Serial, OneAtATime, Same
  <1>3. Stored'
    BY <1>1 DEF Inv, Rows, Serial, Stored, Cached
  <1>4. MissIsTrue'
    BY <1>1 DEF Serial, MissIsTrue, Same
  <1>5. MintedOnce'
    BY <1>1 DEF Serial, MintedOnce
  <1> QED
    BY <1>2, <1>3, <1>4, <1>5 DEF Serial

LEMMA InvInit == Init => Inv
  <1> SUFFICES ASSUME Init PROVE Inv
    OBVIOUS
  <1>1. TypeOK
    BY IssuanceAssumption DEF Init, Led!AbsInit, StoreInit, TypeOK
  <1>2. Rows
    BY DEF Init, Led!AbsInit, Rows
  <1>3. CacheCommitted
    BY DEF Init, StoreInit, CacheCommitted, Cached, buildKey, RedisKeys
  <1>4. ASSUME NEW a \in Attempts PROVE Shape(a)
    BY DEF Init, Shape, Active, Served
  <1>5. Serial
    BY DEF Init, Led!AbsInit, Serial, OneAtATime, Stored, MissIsTrue, MintedOnce, Active
  <1> QED
    BY <1>1, <1>2, <1>3, <1>4, <1>5 DEF Inv

-----------------------------------------------------------------------------
\* An attempt begins: without faults it waits for the one before it.
LEMMA ValidateInv ==
  ASSUME Inv, NEW a \in Attempts, Validate(a)
  PROVE  Inv'
  <1> DEFINE error == InputError(request[a])
  <1>1. /\ pc[a] = "start"
        /\ UNCHANGED <<balance, frozen, transactions, issuances, cache, faults,
                       request, issued, audit, events>>
    BY DEF Validate, ledgerVars, given
  <1>2. CASE error # "none" /\ Answer(a, error, NoResponse)
    <2>1. /\ pc' = [pc EXCEPT ![a] = "done"]
          /\ answer' = [answer EXCEPT ![a] = [outcome |-> error, body |-> NoResponse]]
      BY <1>2 DEF Answer, Goto
    <2>2. error \in InputErrors
      BY <1>2, InputErrorFacts DEF Inv
    <2>3. TypeOK'
      BY <1>1, <2>1, <2>2 DEF Inv, TypeOK
    <2>4. /\ pc'[a] = "done" /\ answer'[a].outcome = error
          /\ \A b \in Attempts \ {a} : answer'[b] = answer[b]
      BY <2>1 DEF Inv, TypeOK
    <2>5. Shape(a)'
      BY <2>2, <2>4 DEF Shape, Active, Served, InputErrors
    <2>6. faults = {} => Serial'
      <3> SUFFICES ASSUME faults = {} PROVE Serial'
        OBVIOUS
      <3>1. Serial /\ \A b \in Attempts : pc'[b] = IF b = a THEN "done" ELSE pc[b]
        BY <2>1 DEF Inv, TypeOK
      <3>2. OneAtATime'
        BY <1>1, <3>1 DEF Serial, OneAtATime, Same, Active
      <3>3. Stored'
        BY <1>1, <3>1 DEF Inv, Rows, Serial, Stored, Cached
      <3>4. MissIsTrue'
        BY <1>1, <3>1 DEF Serial, MissIsTrue, Same
      <3>5. MintedOnce'
        BY <1>1, <3>1 DEF Serial, MintedOnce
      <3> QED
        BY <3>2, <3>3, <3>4, <3>5 DEF Serial
    <2> QED
      BY <1>1, <2>1, <2>3, <2>4, <2>5, <2>6, QuietStep DEF Past, Served
  <1>3. CASE error = "none" /\ Goto(a, "redis") /\ UNCHANGED answer
    <2>1. pc' = [pc EXCEPT ![a] = "redis"] /\ answer' = answer
      BY <1>3 DEF Goto
    <2>2. TypeOK'
      BY <1>1, <2>1 DEF Inv, TypeOK
    <2>3. pc'[a] = "redis" /\ Valid(request[a]) /\ Shape(a)
      BY <1>3, <2>1, InputErrorFacts DEF Inv, TypeOK
    <2>4. Shape(a)'
      BY <1>1, <2>1, <2>3 DEF Shape, Served, Minted, Valid
    <2>5. faults = {} => Serial'
      <3> SUFFICES ASSUME faults = {} PROVE Serial'
        OBVIOUS
      <3>1. Serial /\ \A b \in Attempts : pc'[b] = IF b = a THEN "redis" ELSE pc[b]
        BY <2>1 DEF Inv, TypeOK
      <3>2. \A b \in Attempts \ {a} : Same(a, b) => pc[b] \notin Active
        BY DEF Validate, Overlaps, Same, Active
      <3>3. OneAtATime'
        BY <1>1, <3>1, <3>2 DEF Serial, OneAtATime, Same
      <3>4. Stored'
        BY <1>1, <3>1 DEF Inv, Rows, Serial, Stored, Cached
      <3>5. MissIsTrue'
        BY <1>1, <3>1 DEF Serial, MissIsTrue, Same
      <3>6. MintedOnce'
        BY <1>1, <3>1 DEF Serial, MintedOnce
      <3> QED
        BY <3>3, <3>4, <3>5, <3>6 DEF Serial
    <2> QED
      BY <1>1, <2>1, <2>2, <2>4, <2>5, QuietStep DEF Past, Served
  <1> QED
    BY <1>2, <1>3 DEF Validate

\* An attempt that is under way ends without success: the ledger or a statement
\* refuses.
LEMMA RefuseIssueInv ==
  ASSUME Inv, NEW a \in Attempts, RefuseIssue(a)
  PROVE  Inv'
  <1>1. PICK o \in LedgerRefusals \cup {"error"} : Answer(a, o, NoResponse)
    BY DEF RefuseIssue, LedgerRefusals
  <1>2. /\ pc[a] = "issue"
        /\ UNCHANGED <<balance, frozen, transactions, issuances, cache, faults,
                       request, issued, audit, events>>
    BY DEF RefuseIssue, ledgerVars, given
  <1>3. /\ pc' = [pc EXCEPT ![a] = "done"]
        /\ answer' = [answer EXCEPT ![a] = [outcome |-> o, body |-> NoResponse]]
    BY <1>1 DEF Answer, Goto
  <1>4. TypeOK'
    BY <1>2, <1>3 DEF Inv, TypeOK
  <1>5. /\ pc'[a] = "done" /\ answer'[a].outcome = o
        /\ \A b \in Attempts \ {a} : answer'[b] = answer[b]
    BY <1>3 DEF Inv, TypeOK
  <1>6. Shape(a)'
    BY <1>5 DEF Shape, Active, Served, LedgerRefusals
  <1>7. faults = {} => Serial'
    BY <1>2, <1>3, SerialStep DEF Active
  <1> QED
    BY <1>2, <1>3, <1>4, <1>5, <1>6, <1>7, QuietStep DEF Past, Served

\* The look at Redis: a hit is an issuance of the same admin and key; a miss,
\* without faults, means that there is none.
LEMMA CheckRedisInv ==
  ASSUME Inv, NEW a \in Attempts, CheckRedis(a)
  PROVE  Inv'
  <1> DEFINE hit == Cached(request[a].admin, request[a].key)
  <1>1. /\ pc[a] = "redis"
        /\ UNCHANGED <<balance, frozen, transactions, issuances, cache, faults,
                       request, issued, audit, events>>
    BY DEF CheckRedis, ledgerVars, given
  <1>2. Shape(a) /\ Valid(request[a])
    BY <1>1 DEF Inv, Shape, Active
  <1>3. request[a].admin \in Scopes /\ request[a].key \in Keys
    BY <1>2, RequestType DEF Inv, Valid
  <1>4. hit \in IssuanceResponse \cup {NoResponse}
    BY <1>3 DEF Inv, TypeOK, Cached, buildKey, RedisKeys
  <1>5. CASE hit # NoResponse /\ Answer(a, "ok", hit)
    <2>1. /\ pc' = [pc EXCEPT ![a] = "done"]
          /\ answer' = [answer EXCEPT ![a] = [outcome |-> "ok", body |-> hit]]
      BY <1>5 DEF Answer, Goto
    <2>2. TypeOK'
      BY <1>1, <1>4, <2>1 DEF Inv, TypeOK
    <2>3. /\ pc'[a] = "done" /\ answer'[a].body = hit
          /\ \A b \in Attempts \ {a} : answer'[b] = answer[b]
      BY <2>1 DEF Inv, TypeOK
    <2>4. Minted(hit, request[a].admin, request[a].key)
      BY <1>3, <1>5 DEF Inv, CacheCommitted
    <2>5. Shape(a)'
      BY <1>1, <2>3, <2>4 DEF Shape, Active, Served, Minted
    <2>6. faults = {} => Serial'
      BY <1>1, <2>1, SerialStep DEF Active
    <2> QED
      BY <1>1, <2>1, <2>2, <2>3, <2>5, <2>6, QuietStep DEF Past, Served
  <1>6. CASE /\ hit = NoResponse \/ "redis" \in faults
             /\ Goto(a, "issue") /\ UNCHANGED answer
    <2>1. pc' = [pc EXCEPT ![a] = "issue"] /\ answer' = answer
      BY <1>6 DEF Goto
    <2>2. TypeOK'
      BY <1>1, <2>1 DEF Inv, TypeOK
    <2>3. pc'[a] = "issue"
      BY <2>1 DEF Inv, TypeOK
    <2>4. Shape(a)'
      BY <1>1, <1>2, <2>1, <2>3 DEF Shape, Served, Minted, Valid
    <2>5. faults = {} => Serial'
      <3> SUFFICES ASSUME faults = {} PROVE Serial'
        OBVIOUS
      <3>1. /\ Serial /\ hit = NoResponse
            /\ \A b \in Attempts : pc'[b] = IF b = a THEN "issue" ELSE pc[b]
        BY <1>6, <2>1 DEF Inv, TypeOK
      <3>2. OneAtATime'
        BY <1>1, <3>1 DEF Serial, OneAtATime, Same, Active
      <3>3. Stored'
        BY <1>1, <3>1 DEF Inv, Rows, Serial, Stored, Cached
      <3>4. ASSUME NEW x \in issuances PROVE ~Same(a, x.txn)
        <4> SUFFICES ASSUME Same(a, x.txn) PROVE FALSE
          OBVIOUS
        <4>1. x.txn \in Attempts
          BY DEF Inv, Rows
        <4>2. pc[x.txn] = "store"
          BY <3>1 DEF Serial, Stored, Same
        <4> QED
          BY <1>1, <3>1, <4>1, <4>2 DEF Serial, OneAtATime, Same, Active
      <3>5. MissIsTrue'
        BY <1>1, <3>1, <3>4 DEF Serial, MissIsTrue, Same
      <3>6. MintedOnce'
        BY <1>1, <3>1 DEF Serial, MintedOnce
      <3> QED
        BY <3>2, <3>3, <3>5, <3>6 DEF Serial
    <2> QED
      BY <1>1, <2>1, <2>2, <2>4, <2>5, QuietStep DEF Past, Served
  <1> QED
    BY <1>5, <1>6 DEF CheckRedis

\* The posting adds the row of the attempt, whether or not its commit is
\* acknowledged; without faults it is the first of its admin and key.
LEMMA IssueInv ==
  ASSUME Inv, NEW a \in Attempts, Issue(a)
  PROVE  Inv'
  <1> DEFINE q == request[a]
             b == balance[q.wallet] + q.amount
  <1>1. /\ pc[a] = "issue" /\ q.wallet \in Wallets
        /\ q.amount > 0 /\ b <= MaxBigint
        /\ balance' = [balance EXCEPT ![q.wallet] = b]
        /\ issuances' = issuances \cup {IssuanceRow(a)}
        /\ UNCHANGED <<frozen, cache, faults, request, audit, events>>
    BY DEF Issue, Led!PostIssue, IssuanceRow, given
  <1>2. Shape(a) /\ Valid(request[a])
    BY <1>1 DEF Inv, Shape, Active
  <1>3. b \in 0..MaxBigint /\ balance'[q.wallet] = b
    BY <1>1, RequestType, IssuanceAssumption DEF Inv, TypeOK
  <1>4. PICK p \in {"store", "done"} :
          /\ pc' = [pc EXCEPT ![a] = p]
          /\ p = "store" => /\ issued' = [issued EXCEPT ![a] = balance'[q.wallet]]
                            /\ answer' = answer
          /\ p = "done" =>
               /\ "commit" \in faults /\ issued' = issued
               /\ answer' = [answer EXCEPT ![a] = [outcome |-> "error",
                                                   body |-> NoResponse]]
    BY DEF Issue, Answer, Goto
  <1>5. TypeOK'
    <2>1. balance' \in [Wallets -> 0..MaxBigint]
      BY <1>1, <1>3 DEF Inv, TypeOK
    <2>2. issued' \in [Attempts -> 0..MaxBigint]
      BY <1>3, <1>4 DEF Inv, TypeOK
    <2>3. /\ pc' \in [Attempts -> {"start", "redis", "issue", "store", "audit",
                                  "notify", "reply", "done", "dead"}]
          /\ answer' \in [Attempts ->
               [outcome: {"none", "ok", "error"} \cup LedgerRefusals \cup InputErrors,
                body: IssuanceResponse \cup {NoResponse}]]
      BY <1>4 DEF Inv, TypeOK
    <2>4. /\ frozen \in [Wallets -> BOOLEAN] /\ faults \in FaultSets
          /\ cache \in [RedisKeys -> IssuanceResponse \cup {NoResponse}]
          /\ request \in [Attempts -> Wanted] /\ events \subseteq Event
      BY DEF Inv, TypeOK
    <2> QED
      BY <1>1, <2>1, <2>2, <2>3, <2>4 DEF TypeOK
  <1>6. \A c \in Attempts : pc'[c] = IF c = a THEN p ELSE pc[c]
    BY <1>4 DEF Inv, TypeOK
  <1>7. \A c \in Attempts \ {a} : answer'[c] = answer[c]
    BY <1>4 DEF Inv, TypeOK
  <1>8. issuances \subseteq issuances' /\ IssuanceRow(a)' = IssuanceRow(a)
    BY <1>1 DEF IssuanceRow
  <1>9. Rows'
    BY <1>1, <1>2, <1>6 DEF Inv, Rows, IssuanceRow, Past, Served
  <1>10. CacheCommitted'
    BY <1>1, <1>8, MintedStays DEF Inv, CacheCommitted, Cached
  <1>11. \A c \in Attempts \ {a} : Shape(c)'
    BY <1>1, <1>6, <1>7, <1>8, Others
  <1>12. Shape(a)'
    <2>1. CASE p = "store"
      BY <1>1, <1>2, <1>4, <1>8, <2>1, MintedStays DEF Shape, Valid
    <2>2. CASE p = "done"
      <3>1. pc'[a] = "done" /\ answer'[a].outcome = "error"
        BY <1>4, <2>2 DEF Inv, TypeOK
      <3> QED
        BY <3>1 DEF Shape, Active, Served
    <2> QED
      BY <2>1, <2>2
  <1>13. faults = {} => Serial'
    <2> SUFFICES ASSUME faults = {} PROVE Serial'
      OBVIOUS
    <2>1. Serial /\ p = "store"
      BY <1>4 DEF Inv
    <2>2. OneAtATime'
      BY <1>1, <1>6, <2>1 DEF Serial, OneAtATime, Same, Active
    <2>3. Stored'
      BY <1>1, <1>6, <2>1 DEF Inv, Rows, Serial, Stored, Cached, IssuanceRow
    <2>4. ASSUME NEW x \in issuances PROVE ~Same(a, x.txn)
      BY <1>1, <2>1 DEF Serial, MissIsTrue
    <2>5. MissIsTrue'
      <3> SUFFICES ASSUME NEW c \in Attempts, pc'[c] = "issue", NEW x \in issuances',
                          Same(c, x.txn)'
                   PROVE  FALSE
        BY DEF MissIsTrue
      <3>1. c # a /\ pc[c] = "issue" /\ Same(c, x.txn)
        BY <1>1, <1>6, <2>1 DEF Same
      <3>2. CASE x \in issuances
        BY <2>1, <3>1, <3>2 DEF Serial, MissIsTrue
      <3>3. CASE x = IssuanceRow(a)
        BY <1>1, <2>1, <3>1, <3>3 DEF Serial, OneAtATime, Same, Active, IssuanceRow
      <3> QED
        BY <1>1, <3>2, <3>3
    <2>6. MintedOnce'
      BY <1>1, <2>1, <2>4 DEF Serial, MintedOnce, Same, IssuanceRow
    <2> QED
      BY <2>2, <2>3, <2>5, <2>6 DEF Serial
  <1> QED
    BY <1>1, <1>5, <1>9, <1>10, <1>11, <1>12, <1>13 DEF Inv

-----------------------------------------------------------------------------
\* After the posting.
LEMMA ResponseFacts ==
  ASSUME Inv, NEW a \in Attempts, pc[a] \in Served
  PROVE  /\ Response(a) \in IssuanceResponse
         /\ Minted(Response(a), request[a].admin, request[a].key)
         /\ request[a].admin \in Scopes /\ request[a].key \in Keys
  <1>1. Valid(request[a]) /\ request[a].wallet \in Wallets /\ IssuanceRow(a) \in issuances
    BY DEF Inv, Shape, Served, Active
  <1>2. issued[a] \in 0..MaxBigint /\ request[a].admin \in Scopes
    BY RequestType DEF Inv, TypeOK
  <1> QED
    BY <1>1, <1>2 DEF Response, IssuanceResponse, Minted, IssuanceRow, Valid

LEMMA StoreInRedisInv ==
  ASSUME Inv, NEW a \in Attempts, StoreInRedis(a)
  PROVE  Inv'
  <1> DEFINE admin == request[a].admin
             key == request[a].key
  <1>1. /\ pc[a] = "store" /\ pc' = [pc EXCEPT ![a] = "audit"]
        /\ UNCHANGED <<balance, frozen, transactions, issuances, faults,
                       request, issued, answer, audit, events>>
    BY DEF StoreInRedis, Goto, ledgerVars, given
  <1>2. /\ Response(a) \in IssuanceResponse
        /\ Minted(Response(a), admin, key)
        /\ admin \in Scopes /\ key \in Keys
    BY <1>1, ResponseFacts DEF Served
  <1>3. /\ cache' \in [RedisKeys -> IssuanceResponse \cup {NoResponse}]
        /\ \A s \in Scopes, k \in Keys :
             \/ Cached(s, k)' = Cached(s, k)
             \/ s = admin /\ k = key /\ Cached(s, k)' = Response(a)
        /\ \A s \in Scopes, k \in Keys :
             Cached(s, k) # NoResponse => Cached(s, k)' # NoResponse
        /\ "redis" \in faults \/ Cached(admin, key)' # NoResponse
    <2>1. CASE cache' = cache /\ "redis" \in faults
      BY <2>1 DEF Inv, TypeOK, Cached
    <2>2. CASE StoreResponse(admin, key, Response(a))
      <3>1. buildKey(admin, key) \in RedisKeys
        BY <1>2 DEF buildKey, RedisKeys
      <3>2. cache' = [cache EXCEPT ![buildKey(admin, key)] =
                        IF cache[buildKey(admin, key)] = NoResponse THEN Response(a)
                        ELSE cache[buildKey(admin, key)]]
        BY <2>2 DEF StoreResponse
      <3>3. \A s \in Scopes, k \in Keys :
              /\ buildKey(s, k) \in RedisKeys
              /\ buildKey(s, k) = buildKey(admin, key) => s = admin /\ k = key
        BY DEF buildKey, RedisKeys
      <3>4. Response(a) # NoResponse
        BY <1>2, NoResponseAssumption
      <3>5. cache \in [RedisKeys -> IssuanceResponse \cup {NoResponse}]
        BY DEF Inv, TypeOK
      <3> QED
        BY <1>1, <1>2, <3>1, <3>2, <3>3, <3>4, <3>5 DEF Cached
    <2> QED
      BY <2>1, <2>2 DEF StoreInRedis
  <1>4. TypeOK'
    BY <1>1, <1>3 DEF Inv, TypeOK
  <1>5. \A b \in Attempts : pc'[b] = IF b = a THEN "audit" ELSE pc[b]
    BY <1>1 DEF Inv, TypeOK
  <1>6. Rows'
    BY <1>1, <1>5 DEF Inv, Rows, IssuanceRow, Past, Served
  <1>7. CacheCommitted'
    BY <1>1, <1>2, <1>3, MintedStays DEF Inv, CacheCommitted
  <1>8. ASSUME NEW b \in Attempts PROVE Shape(b)'
    BY <1>1, <1>5, MintedStays DEF Inv, Shape, IssuanceRow, Active, Served
  <1>9. faults = {} => Serial'
    <2> SUFFICES ASSUME faults = {} PROVE Serial'
      OBVIOUS
    <2>1. Serial
      BY DEF Inv
    <2>2. OneAtATime'
      BY <1>1, <1>5, <2>1 DEF Serial, OneAtATime, Same, Active
    <2>3. Stored'
      <3> SUFFICES ASSUME NEW x \in issuances
                   PROVE  pc'[x.txn] = "store" \/
                          Cached(request[x.txn].admin, request[x.txn].key)' # NoResponse
        BY <1>1 DEF Stored, Cached
      <3>1. /\ x.txn \in Attempts /\ request[x.txn].key \in Keys
            /\ request[x.txn].admin \in Scopes
        BY RequestType DEF Inv, Rows, Valid
      <3> QED
        BY <1>1, <1>3, <1>5, <2>1, <3>1 DEF Serial, Stored
    <2>4. MissIsTrue'
      BY <1>1, <1>5, <2>1 DEF Serial, MissIsTrue, Same
    <2>5. MintedOnce'
      BY <1>1, <2>1 DEF Serial, MintedOnce
    <2> QED
      BY <2>2, <2>3, <2>4, <2>5 DEF Serial
  <1> QED
    BY <1>1, <1>4, <1>6, <1>7, <1>8, <1>9 DEF Inv

LEMMA AuditLogInv ==
  ASSUME Inv, NEW a \in Attempts, AuditLog(a)
  PROVE  Inv'
  <1>1. /\ pc[a] = "audit" /\ pc' = [pc EXCEPT ![a] = "notify"]
        /\ UNCHANGED <<balance, frozen, transactions, issuances, cache, faults,
                       request, issued, answer, events>>
    BY DEF AuditLog, Goto, ledgerVars, given
  <1>2. TypeOK'
    BY <1>1 DEF Inv, TypeOK
  <1>3. Shape(a) /\ pc'[a] = "notify"
    BY <1>1 DEF Inv, TypeOK
  <1>4. Shape(a)'
    BY <1>1, <1>3, MintedStays DEF Shape, IssuanceRow, Active, Served
  <1>5. faults = {} => Serial'
    BY <1>1, SerialStep DEF Active
  <1> QED
    BY <1>1, <1>2, <1>4, <1>5, QuietStep DEF Past, Served

LEMMA NotifyInv ==
  ASSUME Inv, NEW a \in Attempts, Notify(a)
  PROVE  Inv'
  <1>1. /\ pc[a] = "notify" /\ pc' = [pc EXCEPT ![a] = "reply"]
        /\ UNCHANGED <<balance, frozen, transactions, issuances, cache, faults,
                       request, issued, answer, audit>>
    BY DEF Notify, Goto, ledgerVars, given
  <1>2. Shape(a) /\ pc'[a] = "reply"
    BY <1>1 DEF Inv, TypeOK
  <1>3. request[a].wallet \in Wallets
    BY <1>1, <1>2 DEF Shape, Served
  <1>4. events' \subseteq Event
    BY <1>3, RequestType DEF Inv, TypeOK, Notify, Event
  <1>5. TypeOK'
    BY <1>1, <1>4 DEF Inv, TypeOK
  <1>6. Shape(a)'
    BY <1>1, <1>2, MintedStays DEF Shape, IssuanceRow, Active, Served
  <1>7. faults = {} => Serial'
    BY <1>1, SerialStep DEF Active
  <1> QED
    BY <1>1, <1>5, <1>6, <1>7, QuietStep DEF Past, Served

LEMMA ReplyInv ==
  ASSUME Inv, NEW a \in Attempts, Reply(a)
  PROVE  Inv'
  <1>1. /\ pc[a] = "reply" /\ pc' = [pc EXCEPT ![a] = "done"]
        /\ answer' = [answer EXCEPT ![a] = [outcome |-> "ok", body |-> Response(a)]]
        /\ UNCHANGED <<balance, frozen, transactions, issuances, cache, faults,
                       request, issued, audit, events>>
    BY DEF Reply, Answer, Goto, ledgerVars, given
  <1>2. /\ Response(a) \in IssuanceResponse
        /\ Minted(Response(a), request[a].admin, request[a].key)
    BY <1>1, ResponseFacts DEF Served
  <1>3. TypeOK'
    BY <1>1, <1>2 DEF Inv, TypeOK
  <1>4. /\ pc'[a] = "done" /\ answer'[a].body = Response(a)
        /\ \A b \in Attempts \ {a} : answer'[b] = answer[b]
    BY <1>1 DEF Inv, TypeOK
  <1>5. Shape(a)'
    BY <1>1, <1>2, <1>4 DEF Shape, Active, Served, Minted
  <1>6. faults = {} => Serial'
    BY <1>1, SerialStep DEF Active
  <1> QED
    BY <1>1, <1>3, <1>4, <1>5, <1>6, QuietStep DEF Past, Served

\* A death is a fault: the order of attempts is not claimed then.
LEMMA DieInv ==
  ASSUME Inv, NEW a \in Attempts, Die(a)
  PROVE  Inv'
  <1>1. /\ faults # {} /\ pc' = [pc EXCEPT ![a] = "dead"]
        /\ UNCHANGED <<balance, frozen, transactions, issuances, cache, faults,
                       request, issued, answer, audit, events>>
    BY DEF Die, Goto, ledgerVars, given
  <1>2. TypeOK'
    BY <1>1 DEF Inv, TypeOK
  <1>3. Shape(a) /\ pc'[a] = "dead"
    BY <1>1 DEF Inv, TypeOK
  <1>4. Shape(a)'
    BY <1>1, <1>3, MintedStays DEF Shape, Active, Served
  <1> QED
    BY <1>1, <1>2, <1>4, QuietStep DEF Past

\* So is a key that Redis forgets; what it still holds is true.
LEMMA ForgetKeyInv ==
  ASSUME Inv, ForgetKey
  PROVE  Inv'
  <1>1. PICK k \in RedisKeys : cache' = [cache EXCEPT ![k] = NoResponse]
    BY DEF ForgetKey, Forget
  <1>2. /\ faults # {}
        /\ UNCHANGED <<balance, frozen, transactions, issuances, faults, request,
                       pc, issued, answer, audit, events>>
    BY DEF ForgetKey, ledgerVars, given
  <1>3. TypeOK'
    BY <1>1, <1>2 DEF Inv, TypeOK
  <1>4. \A s \in Scopes, key \in Keys :
          Cached(s, key)' = NoResponse \/ Cached(s, key)' = Cached(s, key)
    BY <1>1 DEF Inv, TypeOK, Cached, buildKey, RedisKeys
  <1>5. CacheCommitted'
    BY <1>2, <1>4, MintedStays DEF Inv, CacheCommitted
  <1>6. Rows' /\ \A a \in Attempts : Shape(a)'
    BY <1>2, MintedStays DEF Inv, Rows, Shape, IssuanceRow
  <1> QED
    BY <1>2, <1>3, <1>5, <1>6 DEF Inv

\* Steps that leave alone what the invariant is about.
LEMMA StutterInv ==
  ASSUME Inv, TypeOK',
         UNCHANGED <<issuances, cache, faults, request, pc, answer>>
  PROVE  Inv'
  <1>1. Rows' /\ CacheCommitted'
    BY DEF Inv, Rows, CacheCommitted, Cached, IssuanceRow, Minted
  <1>2. \A a \in Attempts : Shape(a)'
    BY MintedStays DEF Inv, Shape, IssuanceRow
  <1>3. faults = {} => Serial'
    BY DEF Inv, Serial, OneAtATime, Stored, MissIsTrue, MintedOnce, Same, Cached
  <1> QED
    BY <1>1, <1>2, <1>3 DEF Inv

LEMMA InvNext == Inv /\ [Next]_vars => Inv'
  <1> SUFFICES ASSUME Inv, [Next]_vars PROVE Inv'
    OBVIOUS
  <1>1. ASSUME NEW a \in Attempts,
               \/ Validate(a) \/ CheckRedis(a) \/ Issue(a) \/ RefuseIssue(a)
               \/ StoreInRedis(a) \/ AuditLog(a) \/ Notify(a) \/ Reply(a) \/ Die(a)
        PROVE  Inv'
    BY <1>1, ValidateInv, CheckRedisInv, IssueInv, RefuseIssueInv, StoreInRedisInv,
       AuditLogInv, NotifyInv, ReplyInv, DieInv
  <1>2. CASE ForgetKey
    BY <1>2, ForgetKeyInv
  <1>3. ASSUME NEW w \in Freezable, SetFrozen(w) PROVE Inv'
    <2>1. /\ frozen' = [frozen EXCEPT ![w] = ~frozen[w]] /\ w \in Wallets
          /\ UNCHANGED <<balance, issuances, cache, faults, request, pc, issued,
                         answer, events>>
      BY <1>3, IssuanceAssumption DEF SetFrozen, Led!AbsSetFrozen, given
    <2>2. frozen' \in [Wallets -> BOOLEAN]
      BY <2>1 DEF Inv, TypeOK
    <2>3. TypeOK'
      BY <2>1, <2>2 DEF Inv, TypeOK
    <2> QED
      BY <2>1, <2>3, StutterInv
  <1>4. CASE UNCHANGED vars
    <2>1. UNCHANGED <<balance, frozen, issuances, cache, faults, request, pc, issued,
                      answer, events>>
      BY <1>4 DEF vars
    <2>2. TypeOK'
      BY <2>1 DEF Inv, TypeOK
    <2> QED
      BY <2>1, <2>2, StutterInv
  <1> QED
    BY <1>1, <1>2, <1>3, <1>4 DEF Next

-----------------------------------------------------------------------------
LEMMA IssuanceInvariant == Spec => []Inv
  <1> QED
    BY InvInit, InvNext, PTL DEF Spec

\* Every variable of IssueCBDC keeps its type: no balance leaves its column, and
\* no amount above the limit is ever answered with success.
THEOREM IssuanceTypeInvariant == Spec => []TypeOK
  <1>1. Inv => TypeOK
    BY DEF Inv
  <1> QED
    BY <1>1, IssuanceInvariant, PTL

\* Whatever fails, overlaps or dies: a success that IssueCBDC answers, first hand
\* or out of Redis, is a committed issuance by that admin under that key.
THEOREM AnswersCommittedInvariant == Spec => []AnswersCommitted
  <1>1. Inv => AnswersCommitted
    BY DEF Inv, Shape, AnswersCommitted
  <1> QED
    BY <1>1, IssuanceInvariant, PTL

\* Redis, in front of a ledger call that has no key, lets one admin and key mint
\* once, for any number of retries that wait for the answer before them, as long as
\* nothing fails.
THEOREM MintedOnceInvariant == Spec => []MintedOnceWithoutFaults
  <1>1. Inv => MintedOnceWithoutFaults
    BY DEF Inv, Serial, MintedOnceWithoutFaults
  <1> QED
    BY <1>1, IssuanceInvariant, PTL

-----------------------------------------------------------------------------
\* A set of subsets of a finite set has a smallest member: what induction over
\* finite sets comes to without an operator as a parameter.
LEMMA SmallestSubset ==
  ASSUME NEW S, IsFiniteSet(S), NEW B, B \subseteq SUBSET S, B # {}
  PROVE  \E T \in B : \A U \in SUBSET T : U # T => U \notin B
  <1>1. IsWellFoundedOn(StrictSubsetOrdering(S), SUBSET S)
    BY FS_StrictSubsetOrderingWellFounded, FS_FiniteSubsetsOfFinite
  <1>2. PICK T \in B : \A U \in B : ~(<<U, T>> \in StrictSubsetOrdering(S))
    BY <1>1, WFMin, Zenon
  <1>3. ASSUME NEW U \in SUBSET T, U # T, U \in B PROVE FALSE
    BY <1>2, <1>3 DEF StrictSubsetOrdering
  <1> QED
    BY <1>2, <1>3

PickOne(s) == CHOOSE x \in s : TRUE

\* g is the function by which the sum over S is defined.
Sums(g, S) ==
  g = [s \in SUBSET S |-> IF s = {} THEN 0 ELSE PickOne(s).amount + g[s \ {PickOne(s)}]]

LEMMA PickIn == ASSUME NEW s, s # {} PROVE PickOne(s) \in s
  BY DEF PickOne

LEMMA SumsAt ==
  ASSUME NEW g, NEW S, Sums(g, S), NEW s \in SUBSET S
  PROVE  g[s] = IF s = {} THEN 0 ELSE PickOne(s).amount + g[s \ {PickOne(s)}]
  <1> DEFINE F == [t \in SUBSET S |->
                     IF t = {} THEN 0 ELSE PickOne(t).amount + g[t \ {PickOne(t)}]]
  <1>1. g = F
    BY DEF Sums
  <1>2. F[s] = IF s = {} THEN 0 ELSE PickOne(s).amount + g[s \ {PickOne(s)}]
    OBVIOUS
  <1> HIDE DEF F
  <1> QED
    BY <1>1, <1>2

\* Two of them agree where both are defined.
LEMMA SumsAgree ==
  ASSUME NEW S, NEW T, IsFiniteSet(S), NEW g, NEW h,
         Sums(g, S), Sums(h, T)
  PROVE  \A s \in SUBSET S : s \in SUBSET T => g[s] = h[s]
  <1> DEFINE B == {s \in SUBSET S : s \in SUBSET T /\ g[s] # h[s]}
  <1> SUFFICES ASSUME B # {} PROVE FALSE
    OBVIOUS
  <1>0. B \subseteq SUBSET S
    OBVIOUS
  <1>1. PICK s \in B : \A u \in SUBSET s : u # s => u \notin B
    <2> HIDE DEF B
    <2> QED
      BY <1>0, SmallestSubset
  <1>2. s \in SUBSET S /\ s \in SUBSET T /\ g[s] # h[s]
    OBVIOUS
  <1>3. /\ g[s] = IF s = {} THEN 0 ELSE PickOne(s).amount + g[s \ {PickOne(s)}]
        /\ h[s] = IF s = {} THEN 0 ELSE PickOne(s).amount + h[s \ {PickOne(s)}]
    BY <1>2, SumsAt
  <1>4. s # {}
    BY <1>2, <1>3
  <1>5. /\ s \ {PickOne(s)} \in SUBSET s /\ s \ {PickOne(s)} # s
        /\ s \ {PickOne(s)} \in SUBSET S /\ s \ {PickOne(s)} \in SUBSET T
    BY <1>2, <1>4, PickIn
  <1>6. g[s \ {PickOne(s)}] = h[s \ {PickOne(s)}]
    BY <1>1, <1>5
  <1> QED
    BY <1>2, <1>3, <1>6

\* There is one for each finite set.
LEMMA SumsExist ==
  ASSUME NEW S, IsFiniteSet(S)
  PROVE  \E g : Sums(g, S)
  <1> DEFINE B == {T \in SUBSET S : ~ \E g : Sums(g, T)}
  <1> SUFFICES ASSUME B # {} PROVE FALSE
    OBVIOUS
  <1>0. B \subseteq SUBSET S
    OBVIOUS
  <1>1. PICK T \in B : \A U \in SUBSET T : U # T => U \notin B
    <2> HIDE DEF B
    <2> QED
      BY <1>0, SmallestSubset
  <1>2. T \in SUBSET S /\ ~ \E g : Sums(g, T)
    OBVIOUS
  <1> DEFINE sum(U) == CHOOSE g : Sums(g, U)
             p(s) == s \ {PickOne(s)}
             val(s) == IF s = {} THEN 0 ELSE PickOne(s).amount + sum(p(s))[p(s)]
             h == [s \in SUBSET T |-> val(s)]
  <1>3. \A U \in SUBSET T : U # T => Sums(sum(U), U)
    BY <1>1, <1>2
  <1>4. \A U \in SUBSET T : IsFiniteSet(U) /\ U \in SUBSET U
    BY <1>2, FS_Subset
  <1>5. ASSUME NEW U \in SUBSET T, U # T
        PROVE  sum(U)[U] = h[U]
    <2>1. Sums(sum(U), U)
      BY <1>3, <1>5
    <2> HIDE DEF sum
    <2>2. sum(U)[U] = IF U = {} THEN 0 ELSE PickOne(U).amount + sum(U)[p(U)]
      BY <2>1, SumsAt
    <2>3. CASE U = {}
      BY <2>2, <2>3
    <2>4. CASE U # {}
      <3>1. p(U) \in SUBSET U /\ p(U) \in SUBSET T /\ p(U) # T
        BY <2>4, PickIn
      <3>2. Sums(sum(p(U)), p(U)) 
        BY <1>3, <3>1
      <3>3. sum(U)[p(U)] = sum(p(U))[p(U)]
        BY <1>4, <2>1, <3>1, <3>2, SumsAgree
      <3> QED
        BY <2>2, <2>4, <3>3
    <2> QED
      BY <2>3, <2>4
  <1>6. ASSUME NEW s \in SUBSET T
        PROVE  val(s) = IF s = {} THEN 0 ELSE PickOne(s).amount + h[p(s)]
    <2>1. CASE s = {}
      BY <2>1
    <2>2. CASE s # {}
      <3>1. p(s) \in SUBSET T /\ p(s) # T
        BY <2>2, PickIn
      <3>2. sum(p(s))[p(s)] = h[p(s)]
        BY <1>5, <3>1
      <3> HIDE DEF h, sum
      <3> QED
        BY <2>2, <3>2
    <2> QED
      BY <2>1, <2>2
  <1>7. Sums(h, T)
    <2> HIDE DEF val
    <2>1. h = [s \in SUBSET T |-> IF s = {} THEN 0 ELSE PickOne(s).amount + h[p(s)]]
      BY <1>6
    <2> QED
      BY <2>1, Zenon DEF Sums
  <1> QED
    BY <1>2, <1>7

LEMMA SumDef ==
  ASSUME NEW S, IsFiniteSet(S)
  PROVE  /\ Sums(CHOOSE g : Sums(g, S), S)
         /\ Total(S) = (CHOOSE g : Sums(g, S))[S]
  <1>1. Total(S) = (CHOOSE g : Sums(g, S))[S]
    BY Zenon DEF Total, MapThenSumSet, MapThenFoldSet, Sums, PickOne
  <1> QED
    BY <1>1, SumsExist

\* The sum over a set: zero, or one element and the sum over the rest.
LEMMA SumUnfold ==
  ASSUME NEW S, IsFiniteSet(S)
  PROVE  Total(S) =
           IF S = {} THEN 0
           ELSE PickOne(S).amount + Total(S \ {PickOne(S)})
  <1> DEFINE T == S \ {PickOne(S)}
             g == CHOOSE x : Sums(x, S)
             h == CHOOSE x : Sums(x, T)
  <1>1. Sums(g, S) /\ Total(S) = g[S]
    BY SumDef
  <1>2. IsFiniteSet(T) /\ T \in SUBSET S /\ T \in SUBSET T
    BY FS_Subset
  <1>3. Sums(h, T) /\ Total(T) = h[T]
    BY <1>2, SumDef
  <1> HIDE DEF g, h
  <1>4. g[S] = IF S = {} THEN 0 ELSE PickOne(S).amount + g[T]
    BY <1>1, SumsAt
  <1>5. g[T] = h[T]
    <2> HIDE DEF T
    <2>1. \A s \in SUBSET S : s \in SUBSET T => g[s] = h[s]
      BY <1>1, <1>3, SumsAgree
    <2> QED
      BY <1>2, <2>1
  <1> QED
    BY <1>1, <1>3, <1>4, <1>5

LEMMA SumType ==
  ASSUME NEW S, IsFiniteSet(S), \A x \in S : x.amount \in Int
  PROVE  Total(S) \in Int
  <1> DEFINE B == {T \in SUBSET S : Total(T) \notin Int}
  <1> SUFFICES ASSUME B # {} PROVE FALSE
    BY S \in SUBSET S
  <1>0. B \subseteq SUBSET S
    OBVIOUS
  <1>1. PICK T \in B : \A U \in SUBSET T : U # T => U \notin B
    <2> HIDE DEF B
    <2> QED
      BY <1>0, SmallestSubset
  <1>2. T \in SUBSET S /\ IsFiniteSet(T) /\ Total(T) \notin Int
    BY FS_Subset
  <1>3. T # {}
    <2>1. T = {} => Total(T) = 0
      BY <1>2, SumUnfold
    <2> QED
      BY <1>2, <2>1
  <1>4. PickOne(T) \in T
    BY <1>3, PickIn
  <1>5. Total(T \ {PickOne(T)}) \in Int
    BY <1>1, <1>2, <1>4
  <1> QED
    BY <1>2, <1>3, <1>4, <1>5, SumUnfold

\* It does not matter which element is taken last.
LEMMA SumAdd ==
  ASSUME NEW S, IsFiniteSet(S), NEW x, x \notin S,
         \A y \in S \cup {x} : y.amount \in Int
  PROVE  Total(S \cup {x}) = x.amount + Total(S)
  <1> DEFINE sum(T) == Total(T)
             Wrong(T, y) == y \in S \cup {x} /\ y \notin T /\ sum(T \cup {y}) # y.amount + sum(T)
             B == {T \in SUBSET (S \cup {x}) : \E y : Wrong(T, y)}
  <1>0. IsFiniteSet(S \cup {x}) /\ B \subseteq SUBSET (S \cup {x})
    BY FS_AddElement
  <1> SUFFICES ASSUME B # {} PROVE FALSE
    OBVIOUS
  <1>1. PICK T \in B : \A U \in SUBSET T : U # T => U \notin B
    <2> HIDE DEF B
    <2> QED
      BY <1>0, SmallestSubset
  <1>2. PICK y : Wrong(T, y)
    OBVIOUS
  <1>3. /\ T \in SUBSET (S \cup {x}) /\ y \in S \cup {x} /\ y \notin T
        /\ sum(T \cup {y}) # y.amount + sum(T)
    BY <1>2
  <1>4. \A U \in SUBSET T, z \in S \cup {x} :
          U # T /\ z \notin U => sum(U \cup {z}) = z.amount + sum(U)
    <2> SUFFICES ASSUME NEW U \in SUBSET T, NEW z \in S \cup {x}, U # T, z \notin U,
                        sum(U \cup {z}) # z.amount + sum(U)
                 PROVE  FALSE
      OBVIOUS
    <2>1. Wrong(U, z)
      OBVIOUS
    <2>2. U \in B
      BY <1>3, <2>1
    <2> QED
      BY <1>1, <2>2
  <1>5. \A U \in SUBSET (S \cup {x}) : IsFiniteSet(U) /\ sum(U) \in Int
    BY <1>0, FS_Subset, SumType
  <1> DEFINE p == PickOne(T \cup {y})
             R == T \ {p}
  <1>6. p \in T \cup {y}
    BY PickIn
  <1>7. sum(T \cup {y}) = p.amount + sum((T \cup {y}) \ {p})
    BY <1>3, <1>5, SumUnfold
  <1>8. p # y
    <2> SUFFICES ASSUME p = y PROVE FALSE
      OBVIOUS
    <2>1. (T \cup {y}) \ {p} = T
      BY <1>3
    <2> QED
      BY <1>3, <1>7, <2>1
  <1>9. /\ p \in T /\ R \in SUBSET T /\ R # T /\ y \notin R /\ p \notin R
        /\ (T \cup {y}) \ {p} = R \cup {y} /\ R \cup {p} = T
        /\ p \in S \cup {x}
    BY <1>3, <1>6, <1>8
  <1> HIDE DEF p, R, sum
  <1>10. sum(R \cup {y}) = y.amount + sum(R) /\ sum(T) = p.amount + sum(R)
    BY <1>3, <1>4, <1>9
  <1>11. sum(R) \in Int /\ p.amount \in Int /\ y.amount \in Int
    BY <1>3, <1>5, <1>9
  <1>12. sum(T \cup {y}) = p.amount + (y.amount + sum(R))
    BY <1>7, <1>9, <1>10
  <1> QED
    BY <1>3, <1>10, <1>11, <1>12

-----------------------------------------------------------------------------
\* The rows of the issuances into wallet w.
Into(w) == {x \in issuances : x.wallet = w}

Explained(r) == Explains(r.wallet, r.txn, r.new_balance)

\* The invariant of the balances: those of the wallets, those that IssueCBDC has at
\* hand, and those it has told, to Redis or to an admin.
Balances ==
  /\ IsFiniteSet(issuances)
  /\ \A w \in Wallets : balance[w] = Opening[w] + Total(Into(w))
  /\ \A a \in Attempts : pc[a] \in Served => Explains(request[a].wallet, a, issued[a])
  /\ \A s \in Scopes, k \in Keys :
       Cached(s, k) # NoResponse => Explained(Cached(s, k))
  /\ \A a \in Attempts : answer[a].outcome = "ok" => Explained(answer[a].body)

\* What explains a balance is never taken back.
LEMMA ExplainsStays ==
  ASSUME issuances \subseteq issuances'
  PROVE  \A w, id, b : Explains(w, id, b) => Explains(w, id, b)'
  <1> SUFFICES ASSUME NEW w, NEW id, NEW b, Explains(w, id, b)
               PROVE  Explains(w, id, b)'
    OBVIOUS
  <1>1. PICK S \in SUBSET {x \in issuances : x.wallet = w} :
          (\E x \in S : x.txn = id) /\ b = Opening[w] + Total(S)
    BY DEF Explains
  <1>2. S \in SUBSET {x \in issuances' : x.wallet = w}
    BY <1>1
  <1> QED
    BY <1>1, <1>2 DEF Explains

LEMMA BalancesInit == Init => Balances
  <1> SUFFICES ASSUME Init PROVE Balances
    OBVIOUS
  <1>1. issuances = {} /\ balance = Opening
    BY DEF Init, Led!AbsInit
  <1>2. IsFiniteSet({}) /\ Total({}) = 0
    BY FS_EmptySet, SumUnfold
  <1>3. \A w \in Wallets : Into(w) = {} /\ Opening[w] \in Int
    BY <1>1, IssuanceAssumption DEF Into
  <1>4. \A s \in Scopes, k \in Keys : Cached(s, k) = NoResponse
    BY DEF Init, StoreInit, Cached, buildKey, RedisKeys
  <1>5. \A a \in Attempts : pc[a] \notin Served /\ answer[a].outcome # "ok"
    BY DEF Init, Served
  <1>6. \A w \in Wallets : balance[w] = Opening[w] + Total(Into(w))
    BY <1>1, <1>2, <1>3
  <1> QED
    BY <1>1, <1>2, <1>4, <1>5, <1>6 DEF Balances

\* The posting raises the balance and the sum behind it alike.
LEMMA IssueBalances ==
  ASSUME Inv, Balances, NEW a \in Attempts, Issue(a)
  PROVE  Balances'
  <1> PICK w, m : w = request[a].wallet /\ m = request[a].amount
    OBVIOUS
  <1>1. /\ pc[a] = "issue" /\ w \in Wallets
        /\ balance' = [balance EXCEPT ![w] = balance[w] + m]
        /\ issuances' = issuances \cup {IssuanceRow(a)}
        /\ UNCHANGED <<cache, request>>
    BY DEF Issue, Led!PostIssue, IssuanceRow, given
  <1>2. m \in Int /\ \A x \in issuances : x.amount \in Int
    BY RequestType DEF Inv, Rows, IssuanceRow
  <1>3. IssuanceRow(a).wallet = w /\ IssuanceRow(a).amount = m /\ IssuanceRow(a).txn = a
    BY DEF IssuanceRow
  <1>4. IssuanceRow(a) \notin issuances
    BY <1>1, <1>3 DEF Inv, Rows, Past, Served
  <1>5. \A v \in Wallets : Into(v)' = IF v = w THEN Into(v) \cup {IssuanceRow(a)} ELSE Into(v)
    BY <1>1, <1>3 DEF Into
  <1>6. \A v \in Wallets : /\ IsFiniteSet(Into(v))
                           /\ balance[v] = Opening[v] + Total(Into(v))
                           /\ Total(Into(v)) \in Int /\ Opening[v] \in Int
    <2> SUFFICES ASSUME NEW v \in Wallets
                 PROVE  /\ IsFiniteSet(Into(v))
                        /\ balance[v] = Opening[v] + Total(Into(v))
                        /\ Total(Into(v)) \in Int /\ Opening[v] \in Int
      OBVIOUS
    <2>1. Into(v) \in SUBSET issuances /\ IsFiniteSet(issuances)
      BY DEF Into, Balances
    <2>2. IsFiniteSet(Into(v)) /\ \A x \in Into(v) : x.amount \in Int
      BY <1>2, <2>1, FS_Subset
    <2> QED
      BY <2>2, SumType, IssuanceAssumption DEF Balances
  <1>7. Total(Into(w) \cup {IssuanceRow(a)}) = m + Total(Into(w))
    <2>1. IssuanceRow(a) \notin Into(w) /\ IsFiniteSet(Into(w))
      BY <1>1, <1>4, <1>6 DEF Into
    <2>2. \A x \in Into(w) \cup {IssuanceRow(a)} : x.amount \in Int
      BY <1>2, <1>3 DEF Into
    <2> QED
      BY <1>3, <2>1, <2>2, SumAdd
  <1>8. balance \in [Wallets -> Int]
    BY DEF Inv, TypeOK
  <1>9. \A v \in Wallets : balance'[v] = Opening[v] + Total(Into(v)')
    <2> SUFFICES ASSUME NEW v \in Wallets
                 PROVE  balance'[v] = Opening[v] + Total(Into(v)')
      OBVIOUS
    <2>1. CASE v = w
      <3>1. balance'[v] = balance[w] + m /\ Into(v)' = Into(w) \cup {IssuanceRow(a)}
        BY <1>1, <1>5, <1>8, <2>1
      <3>2. balance[w] = Opening[w] + Total(Into(w))
            /\ Total(Into(w)) \in Int /\ Opening[w] \in Int
        BY <1>1, <1>6
      <3> QED
        BY <1>2, <1>7, <2>1, <3>1, <3>2
    <2>2. CASE v # w
      BY <1>1, <1>5, <1>6, <1>8, <2>2
    <2> QED
      BY <2>1, <2>2
  <1>10. IsFiniteSet(issuances')
    BY <1>1, FS_AddElement DEF Balances
  <1> PICK nb : nb = balance'[w]
    OBVIOUS
  <1>11. Explains(w, a, nb)'
    <2>1. Into(w)' \in SUBSET {x \in issuances' : x.wallet = w}
      BY DEF Into
    <2>2. IssuanceRow(a) \in Into(w)' /\ IssuanceRow(a).txn = a
      BY <1>1, <1>3, <1>5
    <2>3. balance'[w] = Opening[w] + Total(Into(w)')
      BY <1>1, <1>9
    <2> QED
      BY <2>1, <2>2, <2>3 DEF Explains
  <1>12. issuances \subseteq issuances'
    BY <1>1
  <1>13. ASSUME NEW b \in Attempts, pc'[b] \in Served
         PROVE  Explains(request[b].wallet, b, issued[b])'
    <2>1. CASE b = a
      <3>1. issued' = [issued EXCEPT ![a] = balance'[w]]
        <4>1. \/ issued' = [issued EXCEPT ![a] = balance'[request[a].wallet]]
              \/ pc' = [pc EXCEPT ![a] = "done"]
          BY DEF Issue, Answer, Goto
        <4>2. pc' # [pc EXCEPT ![a] = "done"]
          BY <1>13, <2>1 DEF Inv, TypeOK, Served
        <4> QED
          BY <4>1, <4>2
      <3>2. issued'[a] = balance'[w] /\ request'[a] = request[a]
        BY <1>1, <3>1 DEF Inv, TypeOK
      <3> QED
        BY <1>11, <2>1, <3>2
    <2>2. CASE b # a
      <3>1. pc'[b] = pc[b] /\ issued'[b] = issued[b]
        BY <2>2 DEF Inv, TypeOK, Issue, Answer, Goto
      <3>2. Explains(request[b].wallet, b, issued[b])
        BY <1>13, <3>1 DEF Balances
      <3> QED
        BY <1>1, <1>12, <3>1, <3>2, ExplainsStays
    <2> QED
      BY <2>1, <2>2
  <1>14. \A s \in Scopes, k \in Keys :
           Cached(s, k)' # NoResponse => Explained(Cached(s, k))'
    BY <1>1, <1>12, ExplainsStays DEF Balances, Cached, Explained
  <1>15. \A b \in Attempts : answer'[b].outcome = "ok" => answer'[b] = answer[b]
    BY DEF Inv, TypeOK, Issue, Answer
  <1>16. \A b \in Attempts : answer'[b].outcome = "ok" => Explained(answer[b].body)'
    BY <1>12, <1>15, ExplainsStays DEF Balances, Explained
  <1> QED
    BY <1>1, <1>9, <1>10, <1>13, <1>14, <1>15, <1>16 DEF Balances

\* No other step touches the ledger's rows or balances: each hands on a balance
\* that is explained already.
LEMMA BalancesFrame ==
  ASSUME Balances, balance' = balance, issuances' = issuances, request' = request,
         \A a \in Attempts :
           pc'[a] \in Served => pc[a] \in Served /\ issued'[a] = issued[a],
         \A s \in Scopes, k \in Keys :
           Cached(s, k)' # NoResponse =>
             Cached(s, k)' = Cached(s, k) \/ Explained(Cached(s, k)'),
         \A a \in Attempts :
           answer'[a].outcome = "ok" => answer'[a] = answer[a] \/ Explained(answer'[a].body)
  PROVE  Balances'
  <1>1. \A w, id, b : Explains(w, id, b)' = Explains(w, id, b)
    BY DEF Explains
  <1>2. \A r : Explained(r)' = Explained(r)
    BY <1>1 DEF Explained
  <1>3. \A w \in Wallets : Into(w)' = Into(w)
    BY DEF Into
  <1>4. IsFiniteSet(issuances') /\ \A w \in Wallets : balance'[w] = Opening[w] + Total(Into(w)')
    BY <1>3 DEF Balances
  <1>5. ASSUME NEW a \in Attempts, pc'[a] \in Served
        PROVE  Explains(request[a].wallet, a, issued[a])'
    <2>1. issued'[a] = issued[a] /\ Explains(request[a].wallet, a, issued[a])
      BY <1>5 DEF Balances
    <2> QED
      BY <1>1, <2>1
  <1>6. ASSUME NEW s \in Scopes, NEW k \in Keys, Cached(s, k)' # NoResponse
        PROVE  Explained(Cached(s, k))'
    <2>1. PICK r : r = Cached(s, k)'
      OBVIOUS
    <2>2. Explained(r)
      BY <1>6, <2>1 DEF Balances
    <2> QED
      BY <1>2, <2>1, <2>2 DEF Explained
  <1>7. ASSUME NEW a \in Attempts, answer'[a].outcome = "ok"
        PROVE  Explained(answer[a].body)'
    <2>1. PICK r : r = answer'[a].body
      OBVIOUS
    <2>2. Explained(r)
      BY <1>7, <2>1 DEF Balances
    <2> QED
      BY <1>2, <2>1, <2>2 DEF Explained
  <1> QED
    BY <1>4, <1>5, <1>6, <1>7 DEF Balances

LEMMA BalancesNext == Inv /\ Balances /\ [Next]_vars => Balances'
  <1> SUFFICES ASSUME Inv, Balances, [Next]_vars PROVE Balances'
    OBVIOUS
  <1>1. ASSUME NEW a \in Attempts, Issue(a) PROVE Balances'
    BY <1>1, IssueBalances
  <1>2. ASSUME NEW a \in Attempts,
               Validate(a) \/ RefuseIssue(a) \/ AuditLog(a) \/ Notify(a) \/ Die(a)
        PROVE  Balances'
    <2>1. UNCHANGED <<balance, issuances, cache, request, issued>>
      BY <1>2 DEF Validate, RefuseIssue, AuditLog, Notify, Die, ledgerVars, given
    <2>2. \A b \in Attempts : pc'[b] \in Served => pc[b] \in Served
      BY <1>2 DEF Inv, TypeOK, Validate, RefuseIssue, AuditLog, Notify, Die, Answer,
                  Goto, Served
    <2>3. \A b \in Attempts : answer'[b].outcome = "ok" => answer'[b] = answer[b]
      <3>1. CASE answer' = answer
        BY <3>1
      <3>2. CASE \E o \in InputErrors \cup LedgerRefusals \cup {"error"} :
                   answer' = [answer EXCEPT ![a] = [outcome |-> o, body |-> NoResponse]]
        BY <3>2 DEF Inv, TypeOK, InputErrors, LedgerRefusals
      <3>3. InputError(request[a]) \in InputErrors \cup {"none"}
        BY InputErrorFacts DEF Inv
      <3> QED
        BY <1>2, <3>1, <3>2, <3>3 DEF Validate, RefuseIssue, AuditLog, Notify, Die,
                                      Answer, LedgerRefusals
    <2> QED
      BY <2>1, <2>2, <2>3, BalancesFrame DEF Cached
  <1>3. ASSUME NEW a \in Attempts, CheckRedis(a) PROVE Balances'
    <2> PICK hit : hit = Cached(request[a].admin, request[a].key)
      OBVIOUS
    <2>1. /\ pc[a] = "redis"
          /\ UNCHANGED <<balance, issuances, cache, request, issued>>
          /\ \/ /\ hit # NoResponse /\ pc' = [pc EXCEPT ![a] = "done"]
                /\ answer' = [answer EXCEPT ![a] = [outcome |-> "ok", body |-> hit]]
             \/ pc' = [pc EXCEPT ![a] = "issue"] /\ answer' = answer
      BY <1>3 DEF CheckRedis, Answer, Goto, ledgerVars, given
    <2>2. \A b \in Attempts : pc'[b] \in Served => pc[b] \in Served
      BY <2>1 DEF Inv, TypeOK, Served
    <2>3. request[a].admin \in Scopes /\ request[a].key \in Keys
      BY <2>1, RequestType DEF Inv, Shape, Active, Valid
    <2>4. \A b \in Attempts :
            answer'[b].outcome = "ok" => answer'[b] = answer[b] \/ Explained(answer'[b].body)
      <3>1. hit # NoResponse => Explained(hit)
        BY <2>3 DEF Balances
      <3> QED
        BY <2>1, <3>1 DEF Inv, TypeOK
    <2> QED
      BY <2>1, <2>2, <2>4, BalancesFrame DEF Cached
  <1>4. ASSUME NEW a \in Attempts, StoreInRedis(a) PROVE Balances'
    <2>1. /\ pc[a] = "store" /\ pc' = [pc EXCEPT ![a] = "audit"]
          /\ UNCHANGED <<balance, issuances, request, issued, answer>>
          /\ \/ StoreResponse(request[a].admin, request[a].key, Response(a))
             \/ cache' = cache
      BY <1>4 DEF StoreInRedis, Goto, ledgerVars, given
    <2>2. \A b \in Attempts : pc'[b] \in Served => pc[b] \in Served
      BY <2>1 DEF Inv, TypeOK, Served
    <2>3. Explained(Response(a))
      BY <2>1 DEF Balances, Explained, Response, Served
    <2>4. \A s \in Scopes, k \in Keys :
            Cached(s, k)' = Cached(s, k) \/ Cached(s, k)' = Response(a)
      BY <2>1 DEF Inv, TypeOK, StoreResponse, Cached, buildKey, RedisKeys
    <2>5. \A s \in Scopes, k \in Keys :
            Cached(s, k)' = Cached(s, k) \/ Explained(Cached(s, k)')
      BY <2>3, <2>4
    <2> QED
      BY <2>1, <2>2, <2>5, BalancesFrame
  <1>5. ASSUME NEW a \in Attempts, Reply(a) PROVE Balances'
    <2>1. /\ pc[a] = "reply" /\ pc' = [pc EXCEPT ![a] = "done"]
          /\ UNCHANGED <<balance, issuances, cache, request, issued>>
          /\ answer' = [answer EXCEPT ![a] = [outcome |-> "ok", body |-> Response(a)]]
      BY <1>5 DEF Reply, Answer, Goto, ledgerVars, given
    <2>2. \A b \in Attempts : pc'[b] \in Served => pc[b] \in Served
      BY <2>1 DEF Inv, TypeOK, Served
    <2>3. Explained(Response(a))
      BY <2>1 DEF Balances, Explained, Response, Served
    <2>4. \A b \in Attempts :
            answer'[b].outcome = "ok" => answer'[b] = answer[b] \/ Explained(answer'[b].body)
      BY <2>1, <2>3 DEF Inv, TypeOK
    <2> QED
      BY <2>1, <2>2, <2>4, BalancesFrame DEF Cached
  <1>6. CASE ForgetKey
    <2>1. PICK k \in RedisKeys : cache' = [cache EXCEPT ![k] = NoResponse]
      BY <1>6 DEF ForgetKey, Forget
    <2>2. UNCHANGED <<balance, issuances, request, pc, issued, answer>>
      BY <1>6 DEF ForgetKey, ledgerVars, given
    <2>3. \A s \in Scopes, key \in Keys :
            Cached(s, key)' = NoResponse \/ Cached(s, key)' = Cached(s, key)
      BY <2>1 DEF Inv, TypeOK, Cached, buildKey, RedisKeys
    <2> QED
      BY <2>2, <2>3, BalancesFrame
  <1>7. CASE (\E w \in Freezable : SetFrozen(w)) \/ UNCHANGED vars
    <2>1. UNCHANGED <<balance, issuances, cache, request, pc, issued, answer>>
      BY <1>7 DEF SetFrozen, Led!AbsSetFrozen, given, vars
    <2> QED
      BY <2>1, BalancesFrame DEF Cached
  <1> QED
    BY <1>1, <1>2, <1>3, <1>4, <1>5, <1>6, <1>7 DEF Next

\* The balance an admin is told of, too, is one the wallet had: its opening balance
\* and some of the issuances into it, the reported one among them.
THEOREM AnswersTruthfulInvariant == Spec => []AnswersTruthful
  <1>1. Inv /\ Balances => AnswersTruthful
    BY DEF Inv, Shape, Balances, Explained, AnswersCommitted, AnswersTruthful
  <1> QED
    BY <1>1, IssuanceInvariant, BalancesInit, BalancesNext, PTL DEF Spec
=============================================================================
