------------------------------ MODULE AuthProofs ------------------------------
(***************************************************************************)
(* Proofs about Auth, for any accounts, requests, thresholds, times to live *)
(* and faults.                                                              *)
(***************************************************************************)
EXTENDS Auth, FiniteSetTheorems, TLAPS

InFlight(a) == pc[a] \notin {"start", "done"}

\* What is known of a request by where it is.  The chain of a request begins with
\* one of its account that has ended, or with itself.
AttemptShape(a) ==
  /\ InFlight(a) => Exists(email(a))
  /\ answer[a] # "none" => pc[a] = "done"
  /\ pc[a] \in {"create_session", "reset_failed_logins", "delete_session"} =>
       users[email(a)].has_wallet
  /\ pc[a] = "create_wallet" => op[a].kind = "register"
  /\ pc[a] = "delete_session" => op[a].kind = "refresh"
  /\ pc[a] = "find_wallet" => op[a].kind \in {"login", "refresh"}
  /\ op[a].kind = "refresh" => op[a].token \in Attempts
  /\ op[a].kind # "refresh" => chain[a] = a
  /\ chain[a] = a \/ pc[chain[a]] = "done"
  /\ email(chain[a]) = email(a)
  /\ pc[a] = "increment_failed_logins" => seen[a] + 1 <= wrong[email(a)]
  /\ pc[a] = "lock_user" => maxFailedLogins <= wrong[email(a)]

\* Who made a row is past making it.
Rows ==
  \A s \in sessions :
    pc[s.token] \in {"reset_failed_logins", "done"} /\ email(s.token) = s.email

\* Each wrong password is counted once at most, and not before it was given.
Failing(e) ==
  {a \in Attempts : pc[a] = "increment_failed_logins" /\ email(a) = e}

Counted(e) ==
  /\ IsFiniteSet(Failing(e))
  /\ Exists(e) =>
       /\ users[e].failed_logins + Cardinality(Failing(e)) <= wrong[e]
       /\ users[e].locked_until # 0 => maxFailedLogins <= wrong[e]

\* Without overlaps one request of an account is under way at a time.
Alone ==
  "overlap" \notin faults => \A a, b \in Attempts :
    InFlight(a) /\ InFlight(b) /\ email(a) = email(b) => a = b

\* Without faults the counter is behind the streak by the request that is about to
\* count, and at most that, until it is at its limit; and who reached the threshold
\* is locked, or about to be.
Enough(n, count) == n <= count \/ count = failedLoginsRange

Threshold(e) ==
  /\ ~Exists(e) => streak[e] = 0
  /\ \A a \in Failing(e) :
       seen[a] = users[e].failed_logins /\ Enough(streak[e] - 1, seen[a])
  /\ Exists(e) /\ Failing(e) = {} => Enough(streak[e], users[e].failed_logins)
  /\ (/\ streak[e] >= maxFailedLogins
      /\ \A a \in Attempts : email(a) = e =>
           pc[a] \notin {"increment_failed_logins", "lock_user"})
     => users[e].locked_until # 0

\* Without overlaps at most one row of a chain is not revoked, the row that a refresh
\* replaces; and none while its successor is being made.
Unique ==
  \A s, t \in sessions :
    ~s.is_revoked /\ ~t.is_revoked /\ chain[s.token] = chain[t.token] => s = t

Rotates(a) ==
  /\ op[a].kind = "refresh" /\ pc[a] \in {"find_wallet", "delete_session"} =>
       \A s \in sessions :
         ~s.is_revoked /\ chain[s.token] = chain[a] => s.token = op[a].token
  /\ pc[a] = "create_session" =>
       \A s \in sessions : ~s.is_revoked => chain[s.token] # chain[a]

\* The inductive invariant.
Inv ==
  /\ TypeOK
  /\ \A a \in Attempts : AttemptShape(a)
  /\ Rows
  /\ \A e \in Emails : Counted(e)
  /\ Alone
  /\ faults = {} => \A e \in Emails : Threshold(e)
  /\ "overlap" \notin faults => Unique /\ \A a \in Attempts : Rotates(a)

-----------------------------------------------------------------------------
Labels == {"start", "create_wallet", "create_session", "increment_failed_logins",
           "lock_user", "find_wallet", "reset_failed_logins", "delete_session", "done"}

LEMMA AttemptType ==
  ASSUME Inv, NEW a \in Attempts
  PROVE  /\ email(a) \in Emails /\ op[a] \in Operation /\ pc[a] \in Labels
         /\ chain[a] \in Attempts /\ seen[a] \in Nat
  BY DEF Inv, TypeOK, Operation, email, Labels

LEMMA UserType ==
  ASSUME Inv, NEW e \in Emails
  PROVE  /\ Exists(e) => users[e] \in User
         /\ wrong[e] \in Nat /\ streak[e] \in Nat
  BY DEF Inv, TypeOK, Exists

\* Accounts stay, wallets stay, ended requests stay ended, wrong passwords add up.
Grows ==
  /\ \A b \in Attempts : op'[b].email = op[b].email /\ (pc[b] = "done" => pc'[b] = "done")
  /\ \A e \in Emails :
       /\ Exists(e) => Exists(e)' /\ (users[e].has_wallet => users'[e].has_wallet)
       /\ wrong'[e] >= wrong[e]

\* Only request a takes the step.
OnlyMoves(a) ==
  \A b \in Attempts \ {a} :
    /\ pc'[b] = pc[b] /\ op'[b] = op[b] /\ answer'[b] = answer[b]
    /\ seen'[b] = seen[b] /\ chain'[b] = chain[b]

LEMMA AttemptFrame ==
  ASSUME Inv, TypeOK', Grows, NEW b \in Attempts,
         pc'[b] = pc[b], op'[b] = op[b], answer'[b] = answer[b], seen'[b] = seen[b],
         chain'[b] = chain[b]
  PROVE  AttemptShape(b)'
  <1>1. AttemptShape(b) /\ email(b) \in Emails /\ chain[b] \in Attempts /\ seen[b] \in Nat
    BY AttemptType DEF Inv
  <1>2. email(b)' = email(b) /\ email(chain[b])' = email(chain[b])
    BY <1>1 DEF Grows, email
  <1>3. wrong[email(b)] \in Nat /\ wrong'[email(b)] \in Nat
        /\ wrong'[email(b)] >= wrong[email(b)]
    BY <1>1 DEF Inv, TypeOK, Grows
  <1>4. Exists(email(b)) => Exists(email(b))'
        /\ (users[email(b)].has_wallet => users'[email(b)].has_wallet)
    BY <1>1, <1>2 DEF Grows, Exists
  <1>5. pc[b] = "increment_failed_logins" => seen[b] + 1 <= wrong'[email(b)]
    BY <1>1, <1>3 DEF AttemptShape
  <1>6. pc[b] = "lock_user" => maxFailedLogins <= wrong'[email(b)]
    BY <1>1, <1>3, AuthAssumption DEF AttemptShape
  <1>7. chain[b] = b \/ pc'[chain[b]] = "done"
    BY <1>1 DEF AttemptShape, Grows
  <1>8. /\ InFlight(b) => Exists(email(b))'
        /\ pc[b] \in {"create_session", "reset_failed_logins", "delete_session"} =>
             users'[email(b)].has_wallet
    BY <1>1, <1>4 DEF AttemptShape, InFlight
  <1> QED
    BY <1>1, <1>2, <1>5, <1>6, <1>7, <1>8 DEF AttemptShape, InFlight

\* A row that is the successor of a row of a request that is past making it.
LEMMA RowsFrame ==
  ASSUME Inv, NEW a \in Attempts, OnlyMoves(a), Grows,
         pc[a] = "reset_failed_logins" => pc'[a] = "done",
         \A s \in sessions' : \/ \E t \in sessions : s.token = t.token /\ s.email = t.email
                              \/ s.token = a /\ s.email = email(a)
                                 /\ pc'[a] \in {"reset_failed_logins", "done"}
  PROVE  Rows'
  <1>1. SUFFICES ASSUME NEW s \in sessions'
                 PROVE  pc'[s.token] \in {"reset_failed_logins", "done"}
                        /\ op'[s.token].email = s.email
    BY DEF Rows, email
  <1>2. CASE s.token = a /\ s.email = email(a) /\ pc'[a] \in {"reset_failed_logins", "done"}
    BY <1>2 DEF Grows, email
  <1>3. ASSUME NEW t \in sessions, s.token = t.token, s.email = t.email
        PROVE  pc'[s.token] \in {"reset_failed_logins", "done"}
               /\ op'[s.token].email = s.email
    <2>1. t.token \in Attempts /\ pc[t.token] \in {"reset_failed_logins", "done"}
          /\ op[t.token].email = t.email
      BY DEF Inv, Rows, TypeOK, Session, email
    <2> QED
      BY <1>3, <2>1 DEF Grows, OnlyMoves
  <1> QED
    BY <1>1, <1>2, <1>3

\* Steps that leave the counters alone.
LEMMA CountersFrame ==
  ASSUME Inv, UNCHANGED <<faults, wrong, streak>>,
         \A b \in Attempts :
           /\ op'[b].email = op[b].email
           /\ pc'[b] = "increment_failed_logins" <=> pc[b] = "increment_failed_logins"
           /\ pc'[b] = "lock_user" <=> pc[b] = "lock_user"
           /\ pc[b] = "increment_failed_logins" => seen'[b] = seen[b],
         \A e \in Emails :
           /\ Exists(e)' <=> Exists(e)
           /\ Exists(e) => /\ users'[e].failed_logins = users[e].failed_logins
                           /\ users'[e].locked_until = users[e].locked_until
  PROVE  /\ \A e \in Emails : Counted(e)'
         /\ faults' = {} => \A e \in Emails : Threshold(e)'
  <1>1. \A e \in Emails : Failing(e)' = Failing(e)
    BY DEF Failing, email
  <1>2. ASSUME NEW e \in Emails PROVE Counted(e)'
    BY <1>1 DEF Inv, Counted
  <1>3. ASSUME NEW e \in Emails, faults = {} PROVE Threshold(e)'
    <2>1. Threshold(e)
      BY <1>3 DEF Inv
    <2>2. Failing(e) # {} => Exists(e)
      BY DEF Failing, Inv, AttemptShape, InFlight
    <2>3. \A a \in Failing(e) : a \in Attempts /\ seen'[a] = seen[a]
      BY DEF Failing
    <2>4. streak[e] >= maxFailedLogins => Exists(e)
      BY <2>1, AuthAssumption DEF Threshold
    <2> QED
      BY <1>1, <2>1, <2>2, <2>3, <2>4 DEF Threshold, email
  <1> QED
    BY <1>2, <1>3

LEMMA AloneStep ==
  ASSUME Inv, NEW a \in Attempts, OnlyMoves(a), Grows, faults' = faults,
         InFlight(a)' => InFlight(a) \/ "overlap" \in faults \/ ~Busy(email(a))
  PROVE  Alone'
  <1>1. \A b \in Attempts : email(b)' = email(b)
    BY DEF Grows, email
  <1>2. \A b \in Attempts \ {a} : InFlight(b)' <=> InFlight(b)
    BY DEF OnlyMoves, InFlight
  <1>3. ~Busy(email(a)) => \A b \in Attempts : InFlight(b) => email(b) # email(a)
    BY DEF Busy, InFlight
  <1> QED
    BY <1>1, <1>2, <1>3 DEF Inv, Alone

\* Steps after which no more rows can be used than before.
LEMMA RotationFrame ==
  ASSUME Inv, NEW a \in Attempts, OnlyMoves(a), faults' = faults,
         chain'[a] = chain[a] \/ pc[a] = "start",
         \A s \in sessions' : ~s.is_revoked => s \in sessions,
         "overlap" \notin faults => Rotates(a)'
  PROVE  "overlap" \notin faults' => Unique' /\ \A b \in Attempts : Rotates(b)'
  <1>1. SUFFICES ASSUME "overlap" \notin faults
                 PROVE  Unique' /\ \A b \in Attempts \ {a} : Rotates(b)'
    OBVIOUS
  <1>2. \A s \in sessions : s.token \in Attempts /\ chain'[s.token] = chain[s.token]
    BY DEF Inv, Rows, TypeOK, Session, OnlyMoves
  <1>3. Unique'
    BY <1>1, <1>2 DEF Inv, Unique
  <1>4. ASSUME NEW b \in Attempts \ {a} PROVE Rotates(b)'
    BY <1>1, <1>2 DEF Inv, Rotates, OnlyMoves
  <1> QED
    BY <1>3, <1>4

\* What the arrival of a request writes down.
LEMMA Begins ==
  ASSUME Inv, NEW a \in Attempts,
         NEW kind \in {"register", "login", "refresh", "logout"},
         NEW password \in {"right", "wrong"}, NEW token \in Attempts \cup {NoToken},
         kind = "refresh" => token \in Attempts,
         Begin(a, kind, password, token)
  PROVE  /\ pc[a] = "start" /\ ("overlap" \in faults \/ ~Busy(email(a)))
         /\ op' \in [Attempts -> Operation] /\ op'[a].email = op[a].email
         /\ op'[a].kind = kind /\ op'[a].token = token
         /\ chain' \in [Attempts -> Attempts]
         /\ chain'[a] = IF kind = "refresh" THEN chain[token] ELSE a
         /\ \A b \in Attempts \ {a} : op'[b] = op[b] /\ chain'[b] = chain[b]
  <1> DEFINE new == [op[a] EXCEPT !.kind = kind, !.password = password, !.token = token]
  <1>1. /\ pc[a] = "start" /\ ("overlap" \in faults \/ ~Busy(email(a)))
        /\ op' = [op EXCEPT ![a] = new]
        /\ chain' = [chain EXCEPT ![a] = IF kind = "refresh" THEN chain[token] ELSE a]
    BY DEF Begin
  <1>2. op[a] \in Operation /\ op \in [Attempts -> Operation]
        /\ chain \in [Attempts -> Attempts]
    BY AttemptType DEF Inv, TypeOK
  <1>3. /\ new \in Operation /\ new.email = op[a].email
        /\ new.kind = kind /\ new.token = token
    BY ONLY <1>2, kind \in {"register", "login", "refresh", "logout"},
       password \in {"right", "wrong"}, token \in Attempts \cup {NoToken} DEF Operation
  <1> HIDE DEF new
  <1>4. op' \in [Attempts -> Operation] /\ op'[a] = new
        /\ \A b \in Attempts \ {a} : op'[b] = op[b]
    BY ONLY <1>1, <1>2, <1>3
  <1>5. /\ chain' \in [Attempts -> Attempts]
        /\ chain'[a] = IF kind = "refresh" THEN chain[token] ELSE a
        /\ \A b \in Attempts \ {a} : chain'[b] = chain[b]
    BY <1>1, <1>2
  <1> QED
    BY <1>1, <1>3, <1>4, <1>5

LEMMA Going ==
  ASSUME Inv, NEW a \in Attempts, NEW label \in Labels, Goto(a, label)
  PROVE  /\ pc' \in [Attempts -> Labels] /\ answer' \in [Attempts -> Outcomes]
         /\ pc'[a] = label /\ answer'[a] = answer[a]
         /\ \A b \in Attempts \ {a} : pc'[b] = pc[b] /\ answer'[b] = answer[b]
  BY DEF Inv, TypeOK, Goto, Labels

LEMMA Answering ==
  ASSUME Inv, NEW a \in Attempts, NEW outcome \in Outcomes, Answer(a, outcome)
  PROVE  /\ pc' \in [Attempts -> Labels] /\ answer' \in [Attempts -> Outcomes]
         /\ pc'[a] = "done" /\ answer'[a] = outcome
         /\ \A b \in Attempts \ {a} : pc'[b] = pc[b] /\ answer'[b] = answer[b]
  BY DEF Inv, TypeOK, Answer, Labels

\* The row of an account that exists is replaced by one that has a wallet if it had one.
LEMMA UserSet ==
  ASSUME Inv, NEW e \in Emails, Exists(e), NEW new \in User, SetUser(e, new),
         users[e].has_wallet => new.has_wallet
  PROVE  /\ users' \in [Emails -> User \cup {NoUser}] /\ users'[e] = new
         /\ \A x \in Emails :
              /\ Exists(x)' <=> Exists(x)
              /\ x # e => users'[x] = users[x]
              /\ Exists(x) => (users[x].has_wallet => users'[x].has_wallet)
  <1>1. users \in [Emails -> User \cup {NoUser}] /\ users' = [users EXCEPT ![e] = new]
    BY DEF Inv, TypeOK, SetUser
  <1>2. users' \in [Emails -> User \cup {NoUser}] /\ users'[e] = new
        /\ \A x \in Emails : x # e => users'[x] = users[x]
    BY ONLY <1>1
  <1>3. new # NoUser
    BY NoUserAssumption
  <1> QED
    BY <1>2, <1>3 DEF Exists

\* Steps that leave the rows of sessions, the requests and the histories alone.
LEMMA TypeFrame ==
  ASSUME Inv, UNCHANGED <<clock, faults, op, chain>>,
         users' \in [Emails -> User \cup {NoUser}],
         \A s \in sessions' : \E t \in sessions : s.email = t.email,
         sessions' \subseteq Session,
         \A s, t \in sessions' : s.token = t.token => s = t,
         \A x \in Emails : Exists(x) =>
           Exists(x)' /\ (users[x].has_wallet => users'[x].has_wallet),
         pc' \in [Attempts -> Labels], answer' \in [Attempts -> Outcomes],
         seen' \in [Attempts -> Nat], wrong' \in [Emails -> Nat],
         streak' \in [Emails -> Nat]
  PROVE  TypeOK'
  <1>1. \A s \in sessions' : Exists(s.email)' /\ users'[s.email].has_wallet
    BY DEF Inv, TypeOK, Session
  <1> QED
    BY <1>1 DEF Inv, TypeOK, Labels

\* A chain has no row before its first request made one.
LEMMA NoRowYet ==
  ASSUME Inv, NEW a \in Attempts, chain[a] = a,
         pc[a] \notin {"reset_failed_logins", "done"}
  PROVE  \A s \in sessions : chain[s.token] # a
  <1>1. SUFFICES ASSUME NEW s \in sessions, chain[s.token] = a PROVE FALSE
    OBVIOUS
  <1>2. s.token \in Attempts /\ pc[s.token] \in {"reset_failed_logins", "done"}
        /\ AttemptShape(s.token)
    BY DEF Inv, Rows, TypeOK, Session
  <1>3. chain[s.token] = s.token \/ pc[chain[s.token]] = "done"
    BY <1>2 DEF AttemptShape
  <1> QED
    BY <1>1, <1>2, <1>3

LEMMA InvStep ==
  ASSUME Inv, TypeOK', NEW a \in Attempts, OnlyMoves(a), Grows, AttemptShape(a)', Rows',
         \A e \in Emails : Counted(e)',
         faults' = {} => \A e \in Emails : Threshold(e)',
         Alone', "overlap" \notin faults' => Unique' /\ \A b \in Attempts : Rotates(b)'
  PROVE  Inv'
  <1>1. \A b \in Attempts \ {a} : AttemptShape(b)'
    BY AttemptFrame DEF OnlyMoves
  <1> QED
    BY <1>1 DEF Inv

-----------------------------------------------------------------------------
LEMMA CreateWalletStep ==
  ASSUME Inv, NEW a \in Attempts, CreateWallet(a)
  PROVE  Inv'
  <1> DEFINE e == email(a)
             new == [users[e] EXCEPT !.has_wallet = TRUE]
  <1>1. /\ pc[a] = "create_wallet" /\ Goto(a, "create_session") /\ SetUser(e, new)
        /\ UNCHANGED <<sessions, clock, faults, op, chain, seen, wrong, streak>>
    BY DEF CreateWallet, historyVars
  <1>2. e \in Emails /\ Exists(e) /\ users[e] \in User /\ AttemptShape(a)
    BY <1>1, AttemptType, UserType DEF Inv, AttemptShape, InFlight
  <1>3. new \in User /\ new.has_wallet /\ new.failed_logins = users[e].failed_logins
        /\ new.locked_until = users[e].locked_until
    BY ONLY <1>2 DEF User
  <1> HIDE DEF e, new
  <1>4. /\ users' \in [Emails -> User \cup {NoUser}] /\ users'[e] = new
        /\ \A x \in Emails :
             /\ Exists(x)' <=> Exists(x)
             /\ x # e => users'[x] = users[x]
             /\ Exists(x) => (users[x].has_wallet => users'[x].has_wallet)
    BY <1>1, <1>2, <1>3, UserSet
  <1>5. /\ pc' \in [Attempts -> Labels] /\ answer' \in [Attempts -> Outcomes]
        /\ pc'[a] = "create_session" /\ answer'[a] = answer[a]
        /\ \A b \in Attempts \ {a} : pc'[b] = pc[b] /\ answer'[b] = answer[b]
    BY <1>1, Going DEF Labels
  <1>6. TypeOK'
    BY <1>1, <1>4, <1>5, TypeFrame DEF Inv, TypeOK
  <1>7. OnlyMoves(a)
    BY <1>1, <1>5 DEF OnlyMoves
  <1>8. Grows
    <2>1. \A x \in Emails : wrong'[x] >= wrong[x]
      BY <1>1 DEF Inv, TypeOK
    <2> QED
      BY <1>1, <1>4, <1>5, <2>1 DEF Grows
  <1>9. AttemptShape(a)'
    BY <1>1, <1>2, <1>3, <1>4, <1>5, AttemptType DEF AttemptShape, email, e, InFlight
  <1>10. Rows'
    BY <1>1, <1>7, <1>8, RowsFrame
  <1>11. \A x \in Emails : Exists(x) =>
             /\ users'[x].failed_logins = users[x].failed_logins
             /\ users'[x].locked_until = users[x].locked_until
    BY <1>3, <1>4
  <1>12. /\ \A x \in Emails : Counted(x)'
         /\ faults' = {} => \A x \in Emails : Threshold(x)'
    BY <1>1, <1>4, <1>5, <1>11, CountersFrame
  <1>13. Alone'
    BY <1>1, <1>7, <1>8, AloneStep DEF InFlight
  <1>14. "overlap" \notin faults' => Unique' /\ \A b \in Attempts : Rotates(b)'
    <2>1. "overlap" \notin faults => Rotates(a)'
      BY <1>1, <1>2, <1>5, NoRowYet DEF Rotates, AttemptShape
    <2> QED
      BY <1>1, <1>7, <2>1, RotationFrame
  <1> QED
    BY <1>6, <1>7, <1>8, <1>9, <1>10, <1>12, <1>13, <1>14, InvStep

\* A login or a registration that ends, or waits to reset the counter, has its row;
\* a refresh too.
LEMMA CreateSessionStep ==
  ASSUME Inv, NEW a \in Attempts, CreateSession(a)
  PROVE  Inv'
  <1> DEFINE row == [token |-> a, email |-> email(a), is_revoked |-> FALSE,
                     expires_at |-> clock + RefreshTokenTTL]
  <1>1. /\ pc[a] = "create_session" /\ sessions' = sessions \cup {row}
        /\ UNCHANGED <<users, clock, faults, op, chain, seen, wrong, streak>>
    BY DEF CreateSession, historyVars
  <1>2. AttemptShape(a) /\ email(a) \in Emails /\ Exists(email(a))
        /\ users[email(a)].has_wallet
    BY <1>1, AttemptType DEF Inv, AttemptShape, InFlight
  <1>3. row \in Session /\ row.token = a /\ row.email = email(a)
    BY <1>2, AuthAssumption DEF Inv, TypeOK, Session
  <1> HIDE DEF row
  <1>4. /\ pc' \in [Attempts -> Labels] /\ answer' \in [Attempts -> Outcomes]
        /\ pc'[a] \in {"reset_failed_logins", "done"}
        /\ answer'[a] # "none" => pc'[a] = "done"
        /\ \A b \in Attempts \ {a} : pc'[b] = pc[b] /\ answer'[b] = answer[b]
    <2>1. /\ "ok" \in Outcomes /\ "error" \in Outcomes
          /\ "reset_failed_logins" \in Labels
      BY DEF Outcomes, Labels
    <2>2. CASE Goto(a, "reset_failed_logins")
      BY <1>1, <1>2, <2>1, <2>2, Going DEF AttemptShape
    <2>3. CASE Answer(a, "ok") \/ Answer(a, "error")
      BY <2>1, <2>3, Answering
    <2> QED
      BY <2>2, <2>3 DEF CreateSession
  <1>5. \A s \in sessions : s.token # a
    BY <1>1 DEF Inv, Rows
  <1>6. TypeOK'
    <2>1. sessions' \subseteq Session
      BY <1>1, <1>3 DEF Inv, TypeOK
    <2>2. \A s, t \in sessions' : s.token = t.token => s = t
      BY <1>1, <1>3, <1>5 DEF Inv, TypeOK
    <2>3. \A s \in sessions' : Exists(s.email)' /\ users'[s.email].has_wallet
      BY <1>1, <1>2, <1>3 DEF Inv, TypeOK, Exists
    <2> QED
      BY <1>1, <1>4, <2>1, <2>2, <2>3 DEF Inv, TypeOK, Labels
  <1>7. OnlyMoves(a)
    BY <1>1, <1>4 DEF OnlyMoves
  <1>8. Grows
    <2>1. \A x \in Emails : wrong'[x] >= wrong[x]
      BY <1>1 DEF Inv, TypeOK
    <2> QED
      BY <1>1, <1>4, <2>1 DEF Grows, Exists
  <1>9. AttemptShape(a)'
    BY <1>1, <1>2, <1>4, AttemptType DEF AttemptShape, email, InFlight, Exists
  <1>10. Rows'
    BY <1>1, <1>3, <1>4, <1>7, <1>8, RowsFrame
  <1>11. /\ \A x \in Emails : Counted(x)'
         /\ faults' = {} => \A x \in Emails : Threshold(x)'
    BY <1>1, <1>4, CountersFrame DEF Exists
  <1>12. Alone'
    BY <1>1, <1>7, <1>8, AloneStep DEF InFlight
  <1>13. ASSUME "overlap" \notin faults PROVE Unique' /\ \A b \in Attempts : Rotates(b)'
    <2>1. \A s \in sessions : ~s.is_revoked => chain[s.token] # chain[a]
      BY <1>1, <1>13 DEF Inv, Rotates
    <2>2. Unique'
      BY <1>1, <1>3, <1>13, <2>1 DEF Inv, Unique
    <2>3. ASSUME NEW b \in Attempts \ {a}, pc[b] \in {"find_wallet", "delete_session", "create_session"}
          PROVE  chain[b] # chain[a]
      <3>1. email(b) # email(a)
        BY <1>1, <1>13, <2>3 DEF Inv, Alone, InFlight
      <3> QED
        BY <3>1 DEF Inv, AttemptShape
    <2>4. ASSUME NEW b \in Attempts \ {a} PROVE Rotates(b)'
      BY <1>1, <1>3, <1>4, <1>13, <2>3 DEF Inv, Rotates
    <2>5. Rotates(a)'
      BY <1>4 DEF Rotates
    <2> QED
      BY <2>2, <2>4, <2>5
  <1> QED
    BY <1>1, <1>6, <1>7, <1>8, <1>9, <1>10, <1>11, <1>12, <1>13, InvStep

\* A request writes neither accounts nor rows.
LEMMA QuietStep ==
  ASSUME Inv, NEW a \in Attempts, InFlight(a),
         UNCHANGED <<users, sessions, clock, faults, op, chain, seen, wrong, streak>>,
         pc' \in [Attempts -> Labels], answer' \in [Attempts -> Outcomes],
         \A b \in Attempts \ {a} : pc'[b] = pc[b] /\ answer'[b] = answer[b],
         pc[a] = "reset_failed_logins" => pc'[a] = "done",
         AttemptShape(a)', "overlap" \notin faults => Rotates(a)',
         \A x \in Emails : Counted(x)',
         faults' = {} => \A x \in Emails : Threshold(x)'
  PROVE  Inv'
  <1>1. TypeOK'
    BY TypeFrame DEF Inv, TypeOK, Exists
  <1>2. OnlyMoves(a)
    BY DEF OnlyMoves
  <1>3. Grows
    <2>1. \A x \in Emails : wrong'[x] >= wrong[x]
      BY DEF Inv, TypeOK
    <2> QED
      BY <2>1 DEF Grows, Exists, InFlight
  <1>4. Rows'
    BY <1>2, <1>3, RowsFrame
  <1>5. Alone'
    BY <1>2, <1>3, AloneStep
  <1>6. "overlap" \notin faults' => Unique' /\ \A b \in Attempts : Rotates(b)'
    BY <1>2, RotationFrame
  <1> QED
    BY <1>1, <1>2, <1>3, <1>4, <1>5, <1>6, InvStep

LEMMA FindWalletByUserIDStep ==
  ASSUME Inv, NEW a \in Attempts, FindWalletByUserID(a)
  PROVE  Inv'
  <1>1. /\ pc[a] = "find_wallet"
        /\ UNCHANGED <<users, sessions, clock, faults, op, chain, seen, wrong, streak>>
    BY DEF FindWalletByUserID, historyVars
  <1>2. AttemptShape(a) /\ email(a) \in Emails /\ InFlight(a)
    BY <1>1, AttemptType DEF Inv, InFlight
  <1>3. /\ pc' \in [Attempts -> Labels] /\ answer' \in [Attempts -> Outcomes]
        /\ \A b \in Attempts \ {a} : pc'[b] = pc[b] /\ answer'[b] = answer[b]
        /\ \/ pc'[a] = "done"
           \/ /\ answer'[a] = answer[a] /\ users[email(a)].has_wallet
              /\ pc'[a] = IF op[a].kind = "login" THEN "create_session"
                          ELSE "delete_session"
    <2>1. CASE Answer(a, "error")
      BY <2>1, Answering DEF Outcomes
    <2>2. CASE /\ WalletFound(email(a))
               /\ Goto(a, IF op[a].kind = "login" THEN "create_session"
                          ELSE "delete_session")
      BY <2>2, Going DEF Labels, WalletFound
    <2> QED
      BY <2>1, <2>2 DEF FindWalletByUserID
  <1>4. AttemptShape(a)'
    BY <1>1, <1>2, <1>3, AttemptType DEF AttemptShape, email, InFlight, Exists
  <1>5. "overlap" \notin faults => Rotates(a)'
    <2>1. CASE pc'[a] = "create_session"
      BY <1>1, <1>2, <1>3, <2>1, NoRowYet DEF Rotates, AttemptShape
    <2>2. CASE pc'[a] # "create_session"
      BY <1>1, <1>3, <2>2 DEF Rotates, Inv
    <2> QED
      BY <2>1, <2>2
  <1>6. /\ \A x \in Emails : Counted(x)'
        /\ faults' = {} => \A x \in Emails : Threshold(x)'
    BY <1>1, <1>3, CountersFrame DEF Exists
  <1> QED
    BY <1>1, <1>2, <1>3, <1>4, <1>5, <1>6, QuietStep

LEMMA FailStep ==
  ASSUME Inv, NEW a \in Attempts, Fail(a)
  PROVE  Inv'
  <1>1. /\ "fail" \in faults /\ InFlight(a)
        /\ UNCHANGED <<users, sessions, clock, faults, op, chain, seen, wrong, streak>>
    BY DEF Fail, historyVars, InFlight
  <1>2. AttemptShape(a)
    BY DEF Inv
  <1>3. /\ pc' \in [Attempts -> Labels] /\ answer' \in [Attempts -> Outcomes]
        /\ pc'[a] = "done"
        /\ \A b \in Attempts \ {a} : pc'[b] = pc[b] /\ answer'[b] = answer[b]
    BY Answering DEF Fail, Outcomes
  <1>4. AttemptShape(a)'
    BY <1>1, <1>2, <1>3, AttemptType DEF AttemptShape, email, InFlight, Exists
  <1>5. Rotates(a)'
    BY <1>3 DEF Rotates
  <1>6. ASSUME NEW x \in Emails PROVE Counted(x)'
    <2>1. Counted(x) /\ Failing(x)' \subseteq Failing(x)
      BY <1>1, <1>3 DEF Inv, Failing, email
    <2>2. /\ IsFiniteSet(Failing(x)') /\ Cardinality(Failing(x)') <= Cardinality(Failing(x))
          /\ Cardinality(Failing(x)') \in Nat /\ Cardinality(Failing(x)) \in Nat
      BY <2>1, FS_Subset, FS_CardinalityType DEF Counted
    <2>3. Exists(x) => users[x].failed_logins \in Nat /\ wrong[x] \in Nat
      BY UserType, AuthAssumption DEF User
    <2> QED
      BY <1>1, <2>1, <2>2, <2>3 DEF Counted, Exists
  <1> QED
    BY <1>1, <1>3, <1>4, <1>5, <1>6, QuietStep

LEMMA DeleteSessionStep ==
  ASSUME Inv, NEW a \in Attempts, DeleteSession(a)
  PROVE  Inv'
  <1>1. /\ pc[a] = "delete_session" /\ Goto(a, "create_session")
        /\ sessions' = {s \in sessions : s.token # op[a].token}
        /\ UNCHANGED <<users, clock, faults, op, chain, seen, wrong, streak>>
    BY DEF DeleteSession, historyVars
  <1>2. AttemptShape(a) /\ email(a) \in Emails
    BY <1>1, AttemptType DEF Inv
  <1>3. /\ pc' \in [Attempts -> Labels] /\ answer' \in [Attempts -> Outcomes]
        /\ pc'[a] = "create_session" /\ answer'[a] = answer[a]
        /\ \A b \in Attempts \ {a} : pc'[b] = pc[b] /\ answer'[b] = answer[b]
    BY <1>1, Going DEF Labels
  <1>4. TypeOK'
    BY <1>1, <1>3, TypeFrame DEF Inv, TypeOK, Exists
  <1>5. OnlyMoves(a)
    BY <1>1, <1>3 DEF OnlyMoves
  <1>6. Grows
    <2>1. \A x \in Emails : wrong'[x] >= wrong[x]
      BY <1>1 DEF Inv, TypeOK
    <2> QED
      BY <1>1, <1>3, <2>1 DEF Grows, Exists
  <1>7. AttemptShape(a)'
    BY <1>1, <1>2, <1>3, AttemptType DEF AttemptShape, email, InFlight, Exists
  <1>8. Rows'
    BY <1>1, <1>5, <1>6, RowsFrame
  <1>9. /\ \A x \in Emails : Counted(x)'
        /\ faults' = {} => \A x \in Emails : Threshold(x)'
    BY <1>1, <1>3, CountersFrame DEF Exists
  <1>10. Alone'
    BY <1>1, <1>5, <1>6, AloneStep DEF InFlight
  <1>11. "overlap" \notin faults => Rotates(a)'
    BY <1>1, <1>2, <1>3 DEF Rotates, AttemptShape, Inv
  <1>12. "overlap" \notin faults' => Unique' /\ \A b \in Attempts : Rotates(b)'
    BY <1>1, <1>5, <1>11, RotationFrame
  <1> QED
    BY <1>4, <1>5, <1>6, <1>7, <1>8, <1>9, <1>10, <1>12, InvStep

-----------------------------------------------------------------------------
\* The counters of the accounts that a step of request a is not about.
LEMMA CountersElsewhere ==
  ASSUME Inv, NEW a \in Attempts, OnlyMoves(a), Grows, NEW x \in Emails, x # email(a),
         users'[x] = users[x], wrong'[x] = wrong[x], streak'[x] = streak[x]
  PROVE  Counted(x)' /\ (faults = {} => Threshold(x)')
  <1>1. \A b \in Attempts : email(b)' = email(b)
    BY DEF Grows, email
  <1>2. Failing(x)' = Failing(x) /\ Exists(x)' = Exists(x)
    BY <1>1 DEF Failing, OnlyMoves, Exists
  <1>3. \A b \in Attempts : email(b)' = x =>
          b \in Attempts \ {a} /\ pc'[b] = pc[b] /\ seen'[b] = seen[b]
    BY <1>1 DEF OnlyMoves
  <1>4. Counted(x)'
    BY <1>2 DEF Inv, Counted
  <1>5. ASSUME faults = {} PROVE Threshold(x)'
    <2>1. Threshold(x)
      BY <1>5 DEF Inv
    <2>2. \A b \in Failing(x) : seen'[b] = seen[b]
      BY <1>1, <1>3 DEF Failing
    <2>3. \A b \in Attempts : email(b)' = x => email(b) = x /\ pc'[b] = pc[b]
      BY <1>1, <1>3
    <2>4. (\A b \in Attempts : email(b)' = x =>
             pc'[b] \notin {"increment_failed_logins", "lock_user"})
          => (\A b \in Attempts : email(b) = x =>
                pc[b] \notin {"increment_failed_logins", "lock_user"})
      BY <1>1, <2>3
    <2> QED
      BY <1>2, <2>1, <2>2, <2>4 DEF Threshold
  <1> QED
    BY <1>4, <1>5

\* A statement of a login on the row of its account.
LEMMA LoginStep ==
  ASSUME Inv, NEW a \in Attempts, InFlight(a),
         NEW e \in Emails, e = email(a),
         pc[a] \in {"increment_failed_logins", "lock_user", "reset_failed_logins"},
         UNCHANGED <<sessions, clock, faults, op, chain, seen, wrong>>,
         NEW new \in User,
         new.has_wallet = users[e].has_wallet,
         SetUser(e, new) \/ UNCHANGED users,
         pc' \in [Attempts -> Labels], answer' \in [Attempts -> Outcomes],
         \A b \in Attempts \ {a} : pc'[b] = pc[b] /\ answer'[b] = answer[b],
         pc'[a] \in {"lock_user", "done"}, answer'[a] # "none" => pc'[a] = "done",
         pc[a] = "reset_failed_logins" => pc'[a] = "done",
         pc'[a] = "lock_user" => maxFailedLogins <= wrong[e],
         streak' \in [Emails -> Nat], \A x \in Emails : x # e => streak'[x] = streak[x],
         Counted(e)', faults = {} => Threshold(e)'
  PROVE  Inv'
  <1>1. AttemptShape(a) /\ Exists(e)
    BY AttemptType DEF Inv, AttemptShape
  <1>2. /\ users' \in [Emails -> User \cup {NoUser}]
        /\ \A x \in Emails :
             /\ Exists(x)' <=> Exists(x)
             /\ x # e => users'[x] = users[x]
             /\ Exists(x) => (users[x].has_wallet => users'[x].has_wallet)
    <2>1. CASE SetUser(e, new)
      BY <1>1, <2>1, UserSet
    <2>2. CASE UNCHANGED users
      BY <2>2 DEF Inv, TypeOK, Exists
    <2> QED
      BY <2>1, <2>2
  <1>3. TypeOK'
    BY <1>2, TypeFrame DEF Inv, TypeOK
  <1>4. OnlyMoves(a)
    BY DEF OnlyMoves
  <1>5. Grows
    <2>1. \A x \in Emails : wrong'[x] >= wrong[x]
      BY DEF Inv, TypeOK
    <2> QED
      BY <1>2, <2>1 DEF Grows, InFlight
  <1>6. AttemptShape(a)'
    <2>1. email(a)' = email(a) /\ email(chain[a])' = email(chain[a])
      BY DEF email
    <2>2. chain[a] = a \/ pc'[chain[a]] = "done"
      BY <1>1, AttemptType DEF AttemptShape
    <2>3. Exists(e)'
      BY <1>1, <1>2
    <2> QED
      BY <1>1, <2>1, <2>2, <2>3 DEF AttemptShape, InFlight
  <1>7. Rows'
    BY <1>4, <1>5, RowsFrame
  <1>8. Alone'
    BY <1>4, <1>5, AloneStep
  <1>9. "overlap" \notin faults' => Unique' /\ \A b \in Attempts : Rotates(b)'
    <2>1. Rotates(a)'
      BY DEF Rotates
    <2> QED
      BY <1>4, <2>1, RotationFrame
  <1>10. ASSUME NEW x \in Emails PROVE Counted(x)' /\ (faults' = {} => Threshold(x)')
    <2>1. CASE x = e
      BY <2>1
    <2>2. CASE x # e
      BY <1>2, <1>4, <1>5, <2>2, CountersElsewhere
    <2> QED
      BY <2>1, <2>2
  <1> QED
    BY <1>3, <1>4, <1>5, <1>6, <1>7, <1>8, <1>9, <1>10, InvStep

LEMMA AloneFailing ==
  ASSUME Inv, "overlap" \notin faults, NEW a \in Attempts, InFlight(a)
  PROVE  \A b \in Attempts : email(b) = email(a) /\ b # a => ~InFlight(b)
  BY DEF Inv, Alone

\* The counter moves by one, up to its CHECK.
LEMMA IncrementedBounds ==
  ASSUME NEW n \in 0..failedLoginsRange
  PROVE  /\ Incremented(n) \in 0..failedLoginsRange /\ Incremented(n) <= n + 1
         /\ Incremented(n) = n + 1 \/ (n = failedLoginsRange /\ Incremented(n) = n)
  BY AuthAssumption DEF Incremented

LEMMA IncrementFailedLoginsStep ==
  ASSUME Inv, NEW a \in Attempts, IncrementFailedLogins(a)
  PROVE  Inv'
  <1>0. PICK e \in Emails : e = email(a)
    BY AttemptType
  <1> DEFINE n == users[e].failed_logins
             new == [users[e] EXCEPT !.failed_logins = Incremented(n)]
  <1>1. /\ pc[a] = "increment_failed_logins"
        /\ UNCHANGED <<sessions, clock, faults, op, chain, seen, wrong, streak>>
        /\ SetUser(e, new) \/ ("fail" \in faults /\ UNCHANGED users)
        /\ \/ ReachesThreshold(seen[a] + 1) /\ Goto(a, "lock_user")
           \/ ~ReachesThreshold(seen[a] + 1) /\ Answer(a, "ErrInvalidCredentials")
    BY <1>0 DEF IncrementFailedLogins, historyVars
  <1>2. Exists(e) /\ users[e] \in User /\ AttemptShape(a) /\ InFlight(a)
        /\ seen[a] \in Nat /\ wrong[e] \in Nat /\ streak[e] \in Nat
    BY <1>0, <1>1, AttemptType, UserType DEF Inv, AttemptShape, InFlight
  <1>3. n \in 0..failedLoginsRange
    BY ONLY <1>2 DEF User
  <1>4. Incremented(n) \in 0..failedLoginsRange /\ Incremented(n) <= n + 1
        /\ (Incremented(n) = n + 1 \/ (n = failedLoginsRange /\ Incremented(n) = n))
    BY <1>3, IncrementedBounds
  <1>5. new \in User /\ new.has_wallet = users[e].has_wallet
        /\ new.failed_logins = Incremented(n) /\ new.locked_until = users[e].locked_until
    BY ONLY <1>2, <1>4 DEF User
  <1> HIDE DEF new
  <1> HIDE DEF n
  <1>6. /\ pc' \in [Attempts -> Labels] /\ answer' \in [Attempts -> Outcomes]
        /\ \A b \in Attempts \ {a} : pc'[b] = pc[b] /\ answer'[b] = answer[b]
        /\ pc'[a] \in {"lock_user", "done"} /\ (answer'[a] # "none" => pc'[a] = "done")
        /\ pc'[a] = "lock_user" <=> seen[a] + 1 >= maxFailedLogins
    <2>1. CASE ReachesThreshold(seen[a] + 1) /\ Goto(a, "lock_user")
      BY <1>1, <1>2, <2>1, Going DEF Labels, ReachesThreshold, AttemptShape
    <2>2. CASE ~ReachesThreshold(seen[a] + 1) /\ Answer(a, "ErrInvalidCredentials")
      BY <2>2, Answering DEF Outcomes, ReachesThreshold
    <2> QED
      BY <1>1, <2>1, <2>2
  <1>7. pc'[a] = "lock_user" => maxFailedLogins <= wrong[e]
    BY <1>0, <1>1, <1>2, <1>6, AuthAssumption DEF AttemptShape
  <1>8. /\ Exists(e)' /\ users'[e] \in User
        /\ users'[e].locked_until = users[e].locked_until
        /\ users'[e].failed_logins \in {n, Incremented(n)}
        /\ "fail" \notin faults => users'[e].failed_logins = Incremented(n)
    BY <1>1, <1>2, <1>5, UserSet DEF Exists, n
  <1>9. a \in Failing(e) /\ Failing(e)' = Failing(e) \ {a}
    BY <1>0, <1>1, <1>6 DEF Failing, email
  <1>10. Counted(e) /\ IsFiniteSet(Failing(e)') /\ Cardinality(Failing(e)) \in Nat
         /\ Cardinality(Failing(e)') = Cardinality(Failing(e)) - 1
    BY <1>2, <1>9, FS_RemoveElement, FS_CardinalityType DEF Inv, Counted
  <1>11. Counted(e)'
    <2>1. users'[e].failed_logins <= n + 1 /\ users'[e].failed_logins \in Nat
      BY <1>3, <1>4, <1>8, AuthAssumption
    <2>2. users'[e].failed_logins + Cardinality(Failing(e)') <= wrong[e]
      BY <1>2, <1>3, <1>10, <2>1 DEF Counted, n
    <2>3. wrong'[e] = wrong[e]
      BY <1>1
    <2> QED
      BY <1>2, <1>8, <1>10, <2>2, <2>3 DEF Counted
  <1>12. ASSUME faults = {} PROVE Threshold(e)'
    <2>1. Failing(e)' = {}
      BY <1>0, <1>2, <1>9, <1>12, AloneFailing DEF Failing, InFlight
    <2>2. Threshold(e) /\ seen[a] = n /\ (streak[e] - 1 <= n \/ n = failedLoginsRange)
      BY <1>9, <1>12 DEF Inv, Threshold, Enough, n
    <2>3. users'[e].failed_logins = Incremented(n)
      BY <1>8, <1>12
    <2>4. Enough(streak[e], Incremented(n))
      BY <1>2, <1>3, <1>4, <2>2, AuthAssumption DEF Enough
    <2>5. streak[e] >= maxFailedLogins => seen[a] + 1 >= maxFailedLogins
      BY <1>2, <1>3, <2>2, AuthAssumption
    <2>6. streak[e] >= maxFailedLogins => pc'[a] = "lock_user" /\ a \in Attempts
      BY <1>6, <2>5
    <2>7. streak'[e] = streak[e]
      BY <1>1
    <2>8. email(a)' = e
      BY <1>0, <1>1 DEF email
    <2> QED
      BY <1>8, <2>1, <2>3, <2>4, <2>6, <2>7, <2>8 DEF Threshold
  <1>13. streak' \in [Emails -> Nat] /\ \A x \in Emails : streak'[x] = streak[x]
    BY <1>1 DEF Inv, TypeOK
  <1> QED
    BY <1>0, <1>1, <1>2, <1>5, <1>6, <1>7, <1>11, <1>12, <1>13, LoginStep

LEMMA LockUserStep ==
  ASSUME Inv, NEW a \in Attempts, LockUser(a)
  PROVE  Inv'
  <1>0. PICK e \in Emails : e = email(a)
    BY AttemptType
  <1> DEFINE new == [users[e] EXCEPT !.locked_until = clock + lockoutDuration]
  <1>1. /\ pc[a] = "lock_user"
        /\ UNCHANGED <<sessions, clock, faults, op, chain, seen, wrong, streak>>
        /\ SetUser(e, new) \/ ("fail" \in faults /\ UNCHANGED users)
        /\ Answer(a, "ErrInvalidCredentials")
    BY <1>0 DEF LockUser, historyVars
  <1>2. Exists(e) /\ users[e] \in User /\ AttemptShape(a) /\ InFlight(a)
        /\ wrong[e] \in Nat
    BY <1>0, <1>1, AttemptType, UserType DEF Inv, AttemptShape, InFlight
  <1>3. clock + lockoutDuration \in Nat \ {0}
    BY AuthAssumption DEF Inv, TypeOK
  <1>4. new \in User /\ new.has_wallet = users[e].has_wallet
        /\ new.failed_logins = users[e].failed_logins /\ new.locked_until # 0
    BY ONLY <1>2, <1>3 DEF User
  <1> HIDE DEF new
  <1>5. /\ pc' \in [Attempts -> Labels] /\ answer' \in [Attempts -> Outcomes]
        /\ pc'[a] = "done"
        /\ \A b \in Attempts \ {a} : pc'[b] = pc[b] /\ answer'[b] = answer[b]
    BY <1>1, Answering DEF Outcomes
  <1>6. /\ Exists(e)' /\ users'[e].failed_logins = users[e].failed_logins
        /\ "fail" \notin faults => users'[e].locked_until # 0
    BY <1>1, <1>2, <1>4, UserSet DEF Exists
  <1>7. Failing(e)' = Failing(e) /\ wrong'[e] = wrong[e] /\ streak'[e] = streak[e]
    BY <1>0, <1>1, <1>5 DEF Failing, email
  <1>8. Counted(e)'
    BY <1>0, <1>1, <1>2, <1>6, <1>7 DEF Inv, Counted, AttemptShape
  <1>9. ASSUME faults = {} PROVE Threshold(e)'
    <2>1. Threshold(e)
      BY <1>9 DEF Inv
    <2> QED
      BY <1>1, <1>2, <1>6, <1>7, <1>9, <2>1 DEF Threshold
  <1>10. streak' \in [Emails -> Nat] /\ \A x \in Emails : streak'[x] = streak[x]
    BY <1>1 DEF Inv, TypeOK
  <1> QED
    BY <1>0, <1>1, <1>2, <1>4, <1>5, <1>8, <1>9, <1>10, LoginStep

LEMMA ResetFailedLoginsStep ==
  ASSUME Inv, NEW a \in Attempts, ResetFailedLogins(a)
  PROVE  Inv'
  <1>0. PICK e \in Emails : e = email(a)
    BY AttemptType
  <1> DEFINE new == [users[e] EXCEPT !.failed_logins = 0, !.locked_until = 0]
  <1>1. /\ pc[a] = "reset_failed_logins"
        /\ UNCHANGED <<sessions, clock, faults, op, chain, seen, wrong>>
        /\ SetUser(e, new) \/ ("fail" \in faults /\ UNCHANGED users)
        /\ streak' = [streak EXCEPT ![e] = 0]
        /\ Answer(a, "ok")
    BY <1>0 DEF ResetFailedLogins
  <1>2. Exists(e) /\ users[e] \in User /\ AttemptShape(a) /\ InFlight(a)
        /\ wrong[e] \in Nat
    BY <1>0, <1>1, AttemptType, UserType DEF Inv, AttemptShape, InFlight
  <1>3. new \in User /\ new.has_wallet = users[e].has_wallet
        /\ new.failed_logins = 0 /\ new.locked_until = 0
    <2>1. 0 \in 0..failedLoginsRange
      BY AuthAssumption
    <2> QED
      BY ONLY <1>2, <2>1 DEF User
  <1> HIDE DEF new
  <1>4. /\ pc' \in [Attempts -> Labels] /\ answer' \in [Attempts -> Outcomes]
        /\ pc'[a] = "done"
        /\ \A b \in Attempts \ {a} : pc'[b] = pc[b] /\ answer'[b] = answer[b]
    BY <1>1, Answering DEF Outcomes
  <1>5. /\ Exists(e)' /\ ("fail" \notin faults => users'[e].failed_logins = 0)
        /\ users'[e] = users[e] \/ (users'[e].failed_logins = 0 /\ users'[e].locked_until = 0)
    BY <1>1, <1>2, <1>3, UserSet DEF Exists
  <1>6. /\ streak' \in [Emails -> Nat] /\ streak'[e] = 0
        /\ \A x \in Emails : x # e => streak'[x] = streak[x]
    BY <1>1, AuthAssumption DEF Inv, TypeOK
  <1>7. Failing(e)' = Failing(e) /\ wrong'[e] = wrong[e]
    BY <1>0, <1>1, <1>4 DEF Failing, email
  <1>8. Counted(e)'
    <2>1. Counted(e) /\ Cardinality(Failing(e)) \in Nat /\ users[e].failed_logins \in Nat
      BY <1>2, FS_CardinalityType, AuthAssumption DEF Inv, Counted, User
    <2> QED
      BY <1>2, <1>5, <1>7, <2>1 DEF Counted
  <1>9. ASSUME faults = {} PROVE Threshold(e)'
    <2>1. Failing(e)' = {}
      BY <1>0, <1>1, <1>2, <1>7, <1>9, AloneFailing DEF Failing, InFlight
    <2>2. Enough(0, 0) /\ ~(0 >= maxFailedLogins)
      BY AuthAssumption DEF Enough
    <2> QED
      BY <1>1, <1>5, <1>6, <1>9, <2>1, <2>2 DEF Threshold
  <1> QED
    BY <1>0, <1>1, <1>2, <1>3, <1>4, <1>6, <1>8, <1>9, LoginStep

-----------------------------------------------------------------------------
LEMMA CreateUserStep ==
  ASSUME Inv, NEW a \in Attempts, CreateUser(a)
  PROVE  Inv'
  <1>0. PICK e \in Emails : e = email(a)
    BY AttemptType
  <1> DEFINE new == [has_wallet |-> FALSE, is_active |-> TRUE,
                     failed_logins |-> 0, locked_until |-> 0]
  <1>1. /\ Begin(a, "register", "right", NoToken)
        /\ UNCHANGED <<sessions, clock, faults, seen, wrong, streak>>
        /\ \/ Exists(e) /\ Answer(a, "ErrEmailTaken") /\ UNCHANGED users
           \/ ~Exists(e) /\ SetUser(e, new) /\ Goto(a, "create_wallet")
    BY <1>0 DEF CreateUser, historyVars
  <1>2. /\ pc[a] = "start" /\ ("overlap" \in faults \/ ~Busy(e))
        /\ op' \in [Attempts -> Operation] /\ op'[a].email = op[a].email
        /\ op'[a].kind = "register"
        /\ chain' \in [Attempts -> Attempts] /\ chain'[a] = a
        /\ \A b \in Attempts \ {a} : op'[b] = op[b] /\ chain'[b] = chain[b]
    BY <1>0, <1>1, Begins
  <1>3. new \in User /\ new.failed_logins = 0 /\ new.locked_until = 0
        /\ ~new.has_wallet
    <2>1. 0 \in 0..failedLoginsRange
      BY AuthAssumption
    <2> QED
      BY ONLY <2>1 DEF User
  <1> HIDE DEF new
  <1>4. /\ pc' \in [Attempts -> Labels] /\ answer' \in [Attempts -> Outcomes]
        /\ pc'[a] \in {"create_wallet", "done"}
        /\ answer'[a] # "none" => pc'[a] = "done"
        /\ pc'[a] = "create_wallet" => Exists(e)'
        /\ \A b \in Attempts \ {a} : pc'[b] = pc[b] /\ answer'[b] = answer[b]
        /\ users' \in [Emails -> User \cup {NoUser}]
        /\ \A x \in Emails \ {e} : users'[x] = users[x]
        /\ users'[e] = users[e] \/ (~Exists(e) /\ users'[e] = new)
    <2>1. users \in [Emails -> User \cup {NoUser}] /\ AttemptShape(a)
      BY DEF Inv, TypeOK
    <2>2. CASE Exists(e) /\ Answer(a, "ErrEmailTaken") /\ UNCHANGED users
      BY <2>1, <2>2, Answering DEF Outcomes
    <2>3. CASE ~Exists(e) /\ SetUser(e, new) /\ Goto(a, "create_wallet")
      <3>1. /\ users' \in [Emails -> User \cup {NoUser}] /\ users'[e] = new
            /\ \A x \in Emails \ {e} : users'[x] = users[x]
        BY <1>3, <2>1, <2>3 DEF SetUser
      <3> QED
        BY <1>2, <1>3, <2>1, <2>3, <3>1, Going, NoUserAssumption
           DEF Labels, AttemptShape, Exists
    <2> QED
      BY <1>1, <2>2, <2>3
  <1>5. \A x \in Emails : Exists(x) => Exists(x)' /\ users'[x] = users[x]
    BY <1>4 DEF Exists
  <1>6. TypeOK'
    <2>1. \A s \in sessions' : Exists(s.email)' /\ users'[s.email].has_wallet
      BY <1>1, <1>5 DEF Inv, TypeOK, Session
    <2> QED
      BY <1>1, <1>2, <1>4, <2>1 DEF Inv, TypeOK, Labels
  <1>7. OnlyMoves(a)
    BY <1>1, <1>2, <1>4 DEF OnlyMoves
  <1>8. Grows
    <2>1. \A x \in Emails : wrong'[x] >= wrong[x]
      BY <1>1 DEF Inv, TypeOK
    <2> QED
      BY <1>2, <1>4, <1>5, <2>1 DEF Grows
  <1>9. AttemptShape(a)'
    <2>1. email(a)' = e
      BY <1>0, <1>2 DEF email
    <2>2. email(chain[a])' = e
      BY <1>0, <1>2 DEF email
    <2> QED
      BY <1>2, <1>4, <2>1, <2>2 DEF AttemptShape, InFlight
  <1>10. Rows'
    BY <1>1, <1>2, <1>7, <1>8, RowsFrame
  <1>11. ASSUME NEW x \in Emails
         PROVE  Counted(x)' /\ (faults' = {} => Threshold(x)')
    <2>1. CASE x # e
      BY <1>0, <1>1, <1>4, <1>7, <1>8, <2>1, CountersElsewhere
    <2>2. CASE x = e
      <3>1. \A b \in Attempts :
              /\ email(b)' = email(b)
              /\ pc'[b] = "increment_failed_logins" <=> pc[b] = "increment_failed_logins"
              /\ pc'[b] = "lock_user" <=> pc[b] = "lock_user"
        BY <1>2, <1>4 DEF email
      <3>2. Failing(e)' = Failing(e)
        BY <3>1 DEF Failing
      <3>3. CASE ~Exists(e)
        <4>1. \A b \in Attempts : email(b) = e =>
                pc[b] \notin {"increment_failed_logins", "lock_user"}
          BY <3>3 DEF Inv, AttemptShape, InFlight
        <4>2. Failing(e)' = {}
          BY <3>2, <4>1 DEF Failing
        <4>3. Cardinality(Failing(e)') = 0 /\ IsFiniteSet(Failing(e)')
          BY <4>2, FS_EmptySet
        <4>4. wrong'[e] \in Nat
          BY <1>1, UserType
        <4>5. Exists(e)' =>
                users'[e].failed_logins = 0 /\ users'[e].locked_until = 0
          BY <1>3, <1>4, <3>3 DEF Exists
        <4>6. Counted(e)'
          BY <4>3, <4>4, <4>5 DEF Counted
        <4>7. ASSUME faults = {} PROVE Threshold(e)'
          <5>1. streak'[e] = 0
            BY <1>1, <3>3, <4>7 DEF Inv, Threshold
          <5>2. ~(0 >= maxFailedLogins) /\ Enough(0, 0)
            BY AuthAssumption DEF Enough
          <5> QED
            BY <4>2, <4>5, <5>1, <5>2 DEF Threshold
        <4> QED
          BY <1>1, <2>2, <4>6, <4>7
      <3>4. CASE Exists(e)
        <4>1. users'[e] = users[e]
          BY <1>5, <3>4
        <4>2. Counted(e)'
          BY <1>1, <3>2, <4>1 DEF Inv, Counted, Exists
        <4>3. ASSUME faults = {} PROVE Threshold(e)'
          <5>1. Threshold(e)
            BY <4>3 DEF Inv
          <5> QED
            BY <1>1, <3>1, <3>2, <4>1, <5>1 DEF Threshold, Exists
        <4> QED
          BY <1>1, <2>2, <4>2, <4>3
      <3> QED
        BY <3>3, <3>4
    <2> QED
      BY <2>1, <2>2
  <1>12. Alone'
    BY <1>0, <1>1, <1>2, <1>7, <1>8, AloneStep
  <1>13. "overlap" \notin faults' => Unique' /\ \A b \in Attempts : Rotates(b)'
    <2>1. Rotates(a)'
      BY <1>4 DEF Rotates
    <2> QED
      BY <1>1, <1>2, <1>7, <2>1, RotationFrame
  <1> QED
    BY <1>6, <1>7, <1>8, <1>9, <1>10, <1>11, <1>12, <1>13, InvStep

\* A request arrives that writes no account.
LEMMA ArrivalStep ==
  ASSUME Inv, NEW a \in Attempts, pc[a] = "start",
         "overlap" \in faults \/ ~Busy(email(a)),
         op' \in [Attempts -> Operation], op'[a].email = op[a].email,
         chain' \in [Attempts -> Attempts],
         \A b \in Attempts \ {a} : op'[b] = op[b] /\ chain'[b] = chain[b],
         pc' \in [Attempts -> Labels], answer' \in [Attempts -> Outcomes],
         \A b \in Attempts \ {a} : pc'[b] = pc[b] /\ answer'[b] = answer[b],
         UNCHANGED <<users, clock, faults>>,
         sessions' \subseteq Session,
         \A s, t \in sessions' : s.token = t.token => s = t,
         \A s \in sessions' : \E t \in sessions : s.token = t.token /\ s.email = t.email,
         \A s \in sessions' : ~s.is_revoked => s \in sessions,
         seen' \in [Attempts -> Nat], \A b \in Attempts \ {a} : seen'[b] = seen[b],
         wrong' \in [Emails -> Nat], streak' \in [Emails -> Nat],
         \A x \in Emails : wrong'[x] >= wrong[x],
         AttemptShape(a)', "overlap" \notin faults => Rotates(a)',
         \A x \in Emails : Counted(x)',
         faults' = {} => \A x \in Emails : Threshold(x)'
  PROVE  Inv'
  <1>1. TypeOK'
    <2>1. \A s \in sessions' : Exists(s.email)' /\ users'[s.email].has_wallet
      BY DEF Inv, TypeOK, Session, Exists
    <2> QED
      BY <2>1 DEF Inv, TypeOK, Labels
  <1>2. OnlyMoves(a)
    BY DEF OnlyMoves
  <1>3. Grows
    BY DEF Grows, Exists
  <1>4. Rows'
    BY <1>2, <1>3, RowsFrame
  <1>5. Alone'
    BY <1>2, <1>3, AloneStep
  <1>6. "overlap" \notin faults' => Unique' /\ \A b \in Attempts : Rotates(b)'
    BY <1>2, RotationFrame
  <1> QED
    BY <1>1, <1>2, <1>3, <1>4, <1>5, <1>6, InvStep

LEMMA FindSessionByTokenHashStep ==
  ASSUME Inv, NEW a \in Attempts, NEW t \in Attempts, FindSessionByTokenHash(a, t)
  PROVE  Inv'
  <1>1. /\ t \in Sent(email(a)) /\ Begin(a, "refresh", "right", t)
        /\ UNCHANGED <<users, sessions, clock, faults, seen, wrong, streak>>
        /\ \/ ActiveSession(t) = {} /\ Answer(a, "ErrTokenRevoked")
           \/ ActiveSession(t) # {} /\ Goto(a, "find_wallet")
    BY DEF FindSessionByTokenHash, historyVars
  <1>2. /\ pc[a] = "start" /\ ("overlap" \in faults \/ ~Busy(email(a)))
        /\ op' \in [Attempts -> Operation] /\ op'[a].email = op[a].email
        /\ op'[a].kind = "refresh" /\ op'[a].token = t
        /\ chain' \in [Attempts -> Attempts] /\ chain'[a] = chain[t]
        /\ \A b \in Attempts \ {a} : op'[b] = op[b] /\ chain'[b] = chain[b]
    BY <1>1, Begins
  <1>3. email(t) = email(a) /\ pc[t] = "done" /\ chain[t] \in Attempts
        /\ email(chain[t]) = email(a) /\ (chain[t] = t \/ pc[chain[t]] = "done")
        /\ answer[a] = "none"
    BY <1>1, <1>2, AttemptType DEF Sent, Inv, AttemptShape
  <1>4. /\ pc' \in [Attempts -> Labels] /\ answer' \in [Attempts -> Outcomes]
        /\ pc'[a] \in {"find_wallet", "done"}
        /\ answer'[a] # "none" => pc'[a] = "done"
        /\ pc'[a] = "find_wallet" => ActiveSession(t) # {}
        /\ \A b \in Attempts \ {a} : pc'[b] = pc[b] /\ answer'[b] = answer[b]
    <2>1. CASE ActiveSession(t) = {} /\ Answer(a, "ErrTokenRevoked")
      BY <2>1, Answering DEF Outcomes
    <2>2. CASE ActiveSession(t) # {} /\ Goto(a, "find_wallet")
      BY <1>3, <2>2, Going DEF Labels
    <2> QED
      BY <1>1, <2>1, <2>2
  <1>5. AttemptShape(a)'
    <2>1. email(a)' = email(a) /\ (\A c \in Attempts : email(c)' = email(c))
          /\ email(a) \in Emails
      BY <1>2, AttemptType DEF email
    <2>2. pc'[chain[t]] = "done"
      BY <1>2, <1>3, <1>4
    <2>3. pc'[a] = "find_wallet" => Exists(email(a))'
      <3>1. SUFFICES ASSUME NEW s \in ActiveSession(t) PROVE Exists(email(a))'
        BY <1>4
      <3>2. s \in sessions /\ s.token = t
        BY DEF ActiveSession
      <3>3. s.email = email(a) /\ Exists(s.email)
        BY <1>3, <3>2 DEF Inv, Rows, TypeOK
      <3> QED
        BY <1>1, <2>1, <3>3 DEF Exists
    <2>4. op'[chain'[a]].email = op[a].email
      BY <1>2, <1>3 DEF email
    <2> QED
      BY <1>2, <1>3, <1>4, <2>1, <2>2, <2>3, <2>4 DEF AttemptShape, InFlight, Exists, email
  <1>6. ASSUME "overlap" \notin faults PROVE Rotates(a)'
    <2>1. SUFFICES ASSUME pc'[a] = "find_wallet", NEW s \in sessions, ~s.is_revoked,
                          chain'[s.token] = chain'[a]
                   PROVE  s.token = t
      BY <1>1, <1>2, <1>4 DEF Rotates
    <2>2. PICK r \in sessions : r.token = t /\ ~r.is_revoked
      BY <1>4, <2>1 DEF ActiveSession
    <2>3. chain[s.token] = chain[r.token]
      BY <1>2, <2>1, <2>2 DEF Inv, Rows, TypeOK, Session
    <2> QED
      BY <1>6, <2>1, <2>2, <2>3 DEF Inv, Unique
  <1>7. /\ \A x \in Emails : Counted(x)'
        /\ faults' = {} => \A x \in Emails : Threshold(x)'
    BY <1>1, <1>2, <1>4, CountersFrame DEF Exists
  <1>8. \A x \in Emails : wrong'[x] >= wrong[x]
    BY <1>1 DEF Inv, TypeOK
  <1>9. /\ sessions' \subseteq Session
        /\ \A s, r \in sessions' : s.token = r.token => s = r
        /\ seen' \in [Attempts -> Nat]
        /\ wrong' \in [Emails -> Nat] /\ streak' \in [Emails -> Nat]
    BY <1>1 DEF Inv, TypeOK
  <1> QED
    BY <1>1, <1>2, <1>4, <1>5, <1>6, <1>7, <1>8, <1>9, ArrivalStep

LEMMA RevokeSessionStep ==
  ASSUME Inv, NEW a \in Attempts, NEW t \in Attempts, RevokeSession(a, t)
  PROVE  Inv'
  <1> DEFINE revoked(s) == IF s.token = t THEN [s EXCEPT !.is_revoked = TRUE] ELSE s
  <1>1. /\ Begin(a, "logout", "right", t) /\ Answer(a, "ok")
        /\ sessions' = {revoked(s) : s \in sessions} \/ UNCHANGED sessions
        /\ UNCHANGED <<users, clock, faults, seen, wrong, streak>>
    BY DEF RevokeSession, historyVars
  <1>2. /\ pc[a] = "start" /\ ("overlap" \in faults \/ ~Busy(email(a)))
        /\ op' \in [Attempts -> Operation] /\ op'[a].email = op[a].email
        /\ op'[a].kind = "logout"
        /\ chain' \in [Attempts -> Attempts] /\ chain'[a] = a
        /\ \A b \in Attempts \ {a} : op'[b] = op[b] /\ chain'[b] = chain[b]
    BY <1>1, Begins
  <1>3. /\ pc' \in [Attempts -> Labels] /\ answer' \in [Attempts -> Outcomes]
        /\ pc'[a] = "done"
        /\ \A b \in Attempts \ {a} : pc'[b] = pc[b] /\ answer'[b] = answer[b]
    BY <1>1, Answering DEF Outcomes
  <1>4. /\ sessions' \subseteq Session
        /\ \A s, r \in sessions' : s.token = r.token => s = r
        /\ \A s \in sessions' : \E r \in sessions : s.token = r.token /\ s.email = r.email
        /\ \A s \in sessions' : ~s.is_revoked => s \in sessions
    <2>1. sessions \subseteq Session /\ \A s, r \in sessions : s.token = r.token => s = r
      BY DEF Inv, TypeOK
    <2>2. \A s \in sessions : /\ revoked(s) \in Session
                              /\ revoked(s).token = s.token /\ revoked(s).email = s.email
                              /\ ~revoked(s).is_revoked => revoked(s) = s
      BY ONLY <2>1 DEF Session
    <2> HIDE DEF revoked
    <2> QED
      BY ONLY <1>1, <2>1, <2>2
  <1>5. AttemptShape(a)'
    BY <1>2, <1>3 DEF AttemptShape, InFlight, email
  <1>6. Rotates(a)'
    BY <1>3 DEF Rotates
  <1>7. /\ \A x \in Emails : Counted(x)'
        /\ faults' = {} => \A x \in Emails : Threshold(x)'
    BY <1>1, <1>2, <1>3, CountersFrame DEF Exists
  <1>8. /\ seen' \in [Attempts -> Nat]
        /\ wrong' \in [Emails -> Nat] /\ streak' \in [Emails -> Nat]
        /\ \A x \in Emails : wrong'[x] >= wrong[x]
    BY <1>1 DEF Inv, TypeOK
  <1> HIDE DEF revoked
  <1> QED
    BY <1>1, <1>2, <1>3, <1>4, <1>5, <1>6, <1>7, <1>8, ArrivalStep

\* The step in which a wrong password is counted as given.
LEMMA FindUserByEmailStep ==
  ASSUME Inv, NEW a \in Attempts, NEW password \in {"right", "wrong"},
         FindUserByEmail(a, password)
  PROVE  Inv'
  <1>0. PICK e \in Emails : e = email(a)
    BY AttemptType
  <1>1. /\ Begin(a, "login", password, NoToken)
        /\ UNCHANGED <<users, sessions, clock, faults>>
    BY DEF FindUserByEmail
  <1>2. \/ /\ LoginError(e) # "none" /\ Answer(a, LoginError(e))
           /\ UNCHANGED <<seen, wrong, streak>>
        \/ /\ LoginError(e) = "none" /\ password = "right" /\ Goto(a, "find_wallet")
           /\ seen' = [seen EXCEPT ![a] = users[e].failed_logins]
           /\ UNCHANGED <<wrong, streak>>
        \/ /\ LoginError(e) = "none" /\ Goto(a, "increment_failed_logins")
           /\ seen' = [seen EXCEPT ![a] = users[e].failed_logins]
           /\ wrong' = [wrong EXCEPT ![e] = @ + 1]
           /\ streak' = [streak EXCEPT ![e] = @ + 1]
    BY <1>0 DEF FindUserByEmail, historyVars
  <1>3. /\ pc[a] = "start" /\ ("overlap" \in faults \/ ~Busy(email(a)))
        /\ op' \in [Attempts -> Operation] /\ op'[a].email = op[a].email
        /\ op'[a].kind = "login"
        /\ chain' \in [Attempts -> Attempts] /\ chain'[a] = a
        /\ \A b \in Attempts \ {a} : op'[b] = op[b] /\ chain'[b] = chain[b]
    BY <1>1, Begins
  <1>4. LoginError(e) = "none" =>
          Exists(e) /\ users[e].failed_logins \in 0..failedLoginsRange
    BY UserType DEF LoginError, User
  <1>5. answer[a] = "none" /\ wrong[e] \in Nat /\ streak[e] \in Nat
        /\ wrong \in [Emails -> Nat] /\ streak \in [Emails -> Nat]
        /\ seen \in [Attempts -> Nat]
    BY <1>3 DEF Inv, AttemptShape, TypeOK
  <1>6. /\ sessions' \subseteq Session
        /\ \A s, r \in sessions' : s.token = r.token => s = r
    BY <1>1 DEF Inv, TypeOK
  <1>7. CASE LoginError(e) # "none" /\ Answer(a, LoginError(e))
             /\ UNCHANGED <<seen, wrong, streak>>
    <2>1. LoginError(e) \in Outcomes
      BY DEF LoginError, Outcomes
    <2>2. /\ pc' \in [Attempts -> Labels] /\ answer' \in [Attempts -> Outcomes]
          /\ pc'[a] = "done"
          /\ \A b \in Attempts \ {a} : pc'[b] = pc[b] /\ answer'[b] = answer[b]
      BY <1>7, <2>1, Answering
    <2>3. AttemptShape(a)'
      BY <1>3, <2>2 DEF AttemptShape, InFlight, email
    <2>4. Rotates(a)'
      BY <2>2 DEF Rotates
    <2>5. /\ \A x \in Emails : Counted(x)'
          /\ faults' = {} => \A x \in Emails : Threshold(x)'
      BY <1>1, <1>3, <1>7, <2>2, CountersFrame DEF Exists
    <2>6. \A x \in Emails : wrong'[x] >= wrong[x]
      BY <1>5, <1>7
    <2> QED
      BY <1>1, <1>3, <1>5, <1>6, <1>7, <2>2, <2>3, <2>4, <2>5, <2>6, ArrivalStep
  <1>8. ASSUME LoginError(e) = "none", NEW label \in {"find_wallet", "increment_failed_logins"},
               Goto(a, label), seen' = [seen EXCEPT ![a] = users[e].failed_logins]
        PROVE  /\ pc' \in [Attempts -> Labels] /\ answer' \in [Attempts -> Outcomes]
               /\ pc'[a] = label /\ answer'[a] = "none"
               /\ \A b \in Attempts \ {a} : pc'[b] = pc[b] /\ answer'[b] = answer[b]
               /\ seen' \in [Attempts -> Nat] /\ seen'[a] = users[e].failed_logins
               /\ \A b \in Attempts \ {a} : seen'[b] = seen[b]
    <2>1. users[e].failed_logins \in Nat
      BY <1>4, <1>8, AuthAssumption
    <2> QED
      BY <1>5, <1>8, <2>1, Going DEF Labels
  <1>9. CASE /\ LoginError(e) = "none" /\ Goto(a, "find_wallet")
             /\ seen' = [seen EXCEPT ![a] = users[e].failed_logins]
             /\ UNCHANGED <<wrong, streak>>
    <2>1. /\ pc' \in [Attempts -> Labels] /\ answer' \in [Attempts -> Outcomes]
          /\ pc'[a] = "find_wallet" /\ answer'[a] = "none"
          /\ \A b \in Attempts \ {a} : pc'[b] = pc[b] /\ answer'[b] = answer[b]
          /\ seen' \in [Attempts -> Nat]
          /\ \A b \in Attempts \ {a} : seen'[b] = seen[b]
      BY <1>8, <1>9
    <2>2. AttemptShape(a)'
      BY <1>0, <1>1, <1>3, <1>4, <1>9, <2>1 DEF AttemptShape, InFlight, email, Exists
    <2>3. Rotates(a)'
      BY <1>3, <2>1 DEF Rotates
    <2>4. /\ \A x \in Emails : Counted(x)'
          /\ faults' = {} => \A x \in Emails : Threshold(x)'
      BY <1>1, <1>3, <1>9, <2>1, CountersFrame DEF Exists
    <2>5. \A x \in Emails : wrong'[x] >= wrong[x]
      BY <1>5, <1>9
    <2> QED
      BY <1>1, <1>3, <1>5, <1>6, <1>9, <2>1, <2>2, <2>3, <2>4, <2>5, ArrivalStep
  <1>10. CASE /\ LoginError(e) = "none" /\ Goto(a, "increment_failed_logins")
              /\ seen' = [seen EXCEPT ![a] = users[e].failed_logins]
              /\ wrong' = [wrong EXCEPT ![e] = @ + 1]
              /\ streak' = [streak EXCEPT ![e] = @ + 1]
    <2> DEFINE n == users[e].failed_logins
    <2>1. /\ pc' \in [Attempts -> Labels] /\ answer' \in [Attempts -> Outcomes]
          /\ pc'[a] = "increment_failed_logins" /\ answer'[a] = "none"
          /\ \A b \in Attempts \ {a} : pc'[b] = pc[b] /\ answer'[b] = answer[b]
          /\ seen' \in [Attempts -> Nat] /\ seen'[a] = n
          /\ \A b \in Attempts \ {a} : seen'[b] = seen[b]
      BY <1>8, <1>10
    <2>2. /\ wrong' \in [Emails -> Nat] /\ streak' \in [Emails -> Nat]
          /\ wrong'[e] = wrong[e] + 1 /\ streak'[e] = streak[e] + 1
          /\ \A x \in Emails : /\ wrong'[x] >= wrong[x]
                               /\ x # e => wrong'[x] = wrong[x] /\ streak'[x] = streak[x]
      BY <1>5, <1>10
    <2>3. Counted(e) /\ n \in Nat /\ Cardinality(Failing(e)) \in Nat
          /\ IsFiniteSet(Failing(e)) /\ n + Cardinality(Failing(e)) <= wrong[e]
      BY <1>4, <1>10, FS_CardinalityType, AuthAssumption DEF Inv, Counted
    <2>4. /\ a \notin Failing(e) /\ Failing(e)' = Failing(e) \cup {a}
      BY <1>0, <1>3, <2>1 DEF Failing, email
    <2>5. IsFiniteSet(Failing(e)') /\ Cardinality(Failing(e)') = Cardinality(Failing(e)) + 1
      BY <2>3, <2>4, FS_AddElement
    <2>6. Counted(e)'
      BY <1>1, <1>4, <1>5, <1>10, <2>2, <2>3, <2>5, AuthAssumption DEF Counted, Exists
    <2>7. ASSUME faults = {} PROVE Threshold(e)'
      <3>1. \A b \in Attempts : email(b) = e => pc[b] \in {"start", "done"}
        BY <1>0, <1>3, <2>7 DEF Busy
      <3>2. Failing(e) = {}
        BY <3>1 DEF Failing
      <3>3. Enough(streak[e], n)
        BY <1>4, <1>10, <2>7, <3>2 DEF Inv, Threshold
      <3>4. Failing(e)' = {a} /\ Exists(e)'
        BY <1>1, <1>4, <1>10, <2>4, <3>2 DEF Exists
      <3>5. Enough(streak[e] + 1 - 1, n)
        BY <1>5, <3>3
      <3>6. email(a)' = e
        BY <1>0, <1>3 DEF email
      <3>7. users'[e].failed_logins = n
        BY <1>1
      <3> HIDE DEF n
      <3> QED
        <4>1. \A b \in Failing(e)' : seen'[b] = n /\ Enough(streak'[e] - 1, n)
          <5>1. streak'[e] - 1 = streak[e] + 1 - 1
            BY ONLY <1>5, <2>2
          <5>2. \A b \in Failing(e)' : b = a
            BY <3>4
          <5> QED
            BY <2>1, <3>5, <5>1, <5>2
        <4>2. ~\A b \in Attempts : email(b)' = e =>
                pc'[b] \notin {"increment_failed_logins", "lock_user"}
          BY <2>1, <3>6
        <4>3. Exists(e)' /\ Failing(e)' # {}
          BY <3>4
        <4> QED
          BY <3>7, <4>1, <4>2, <4>3 DEF Threshold, Enough
    <2>8. AttemptShape(a)'
      <3>1. n + 1 <= wrong'[e]
        BY <1>5, <2>2, <2>3
      <3>2. email(a)' = e /\ op'[a].email = e
        BY <1>0, <1>3 DEF email
      <3>3. Exists(e)'
        BY <1>1, <1>4, <1>10 DEF Exists
      <3> HIDE DEF n
      <3> QED
        BY <1>3, <2>1, <3>1, <3>2, <3>3 DEF AttemptShape, InFlight, email
    <2>9. Rotates(a)'
      BY <2>1 DEF Rotates
    <2>10. OnlyMoves(a) /\ Grows
      BY <1>1, <1>3, <2>1, <2>2 DEF OnlyMoves, Grows, Exists
    <2>11. ASSUME NEW x \in Emails PROVE Counted(x)' /\ (faults' = {} => Threshold(x)')
      <3>1. CASE x = e
        BY <1>1, <2>6, <2>7, <3>1
      <3>2. CASE x # e
        BY <1>0, <1>1, <2>2, <2>10, <3>2, CountersElsewhere
      <3> QED
        BY <3>1, <3>2
    <2> QED
      BY <1>1, <1>3, <1>6, <2>1, <2>2, <2>8, <2>9, <2>11, ArrivalStep
  <1> QED
    BY <1>2, <1>7, <1>9, <1>10

-----------------------------------------------------------------------------
LEMMA DeactivateStep ==
  ASSUME Inv, NEW e \in Emails, Deactivate(e)
  PROVE  Inv'
  <1> DEFINE new == [users[e] EXCEPT !.is_active = FALSE]
  <1>1. /\ Exists(e) /\ SetUser(e, new)
        /\ UNCHANGED <<sessions, clock, faults, op, chain, pc, seen, answer, wrong, streak>>
    BY DEF Deactivate, historyVars
  <1>2. users[e] \in User
    BY <1>1, UserType
  <1>3. new \in User /\ new.has_wallet = users[e].has_wallet
        /\ new.failed_logins = users[e].failed_logins
        /\ new.locked_until = users[e].locked_until
    BY ONLY <1>2 DEF User
  <1> HIDE DEF new
  <1>4. /\ users' \in [Emails -> User \cup {NoUser}] /\ users'[e] = new
        /\ \A x \in Emails :
             /\ Exists(x)' <=> Exists(x)
             /\ x # e => users'[x] = users[x]
             /\ Exists(x) => (users[x].has_wallet => users'[x].has_wallet)
    BY <1>1, <1>3, UserSet
  <1>5. TypeOK'
    BY <1>1, <1>4, TypeFrame DEF Inv, TypeOK, Labels
  <1>6. Grows
    <2>1. \A x \in Emails : wrong'[x] >= wrong[x]
      BY <1>1 DEF Inv, TypeOK
    <2> QED
      BY <1>1, <1>4, <2>1 DEF Grows
  <1>7. \A b \in Attempts : AttemptShape(b)'
    BY <1>1, <1>5, <1>6, AttemptFrame
  <1>8. \A x \in Emails : Exists(x) =>
             /\ users'[x].failed_logins = users[x].failed_logins
             /\ users'[x].locked_until = users[x].locked_until
    BY <1>3, <1>4
  <1>9. /\ \A x \in Emails : Counted(x)'
        /\ faults' = {} => \A x \in Emails : Threshold(x)'
    BY <1>1, <1>4, <1>8, CountersFrame
  <1>10. Rows' /\ Alone' /\ ("overlap" \notin faults' => Unique' /\ \A b \in Attempts : Rotates(b)')
    BY <1>1 DEF Inv, Rows, Alone, Unique, Rotates, email, InFlight
  <1> QED
    BY <1>5, <1>7, <1>9, <1>10 DEF Inv

LEMMA TickStep ==
  ASSUME Inv, Tick \/ UNCHANGED vars
  PROVE  Inv'
  <1>1. /\ UNCHANGED <<users, sessions, faults, op, chain, pc, seen, answer, wrong, streak>>
        /\ clock' \in 0..MaxClock
    BY AuthAssumption DEF Inv, TypeOK, Tick, vars, historyVars
  <1>2. TypeOK'
    BY <1>1 DEF Inv, TypeOK, Exists
  <1>3. \A b \in Attempts : AttemptShape(b)'
    BY <1>1 DEF Inv, AttemptShape, email, InFlight, Exists
  <1>4. Rows' /\ Alone' /\ ("overlap" \notin faults' => Unique' /\ \A b \in Attempts : Rotates(b)')
    BY <1>1 DEF Inv, Rows, Alone, Unique, Rotates, email, InFlight
  <1>5. /\ \A x \in Emails : Counted(x)'
        /\ faults' = {} => \A x \in Emails : Threshold(x)'
    BY <1>1, CountersFrame DEF Exists
  <1> QED
    BY <1>2, <1>3, <1>4, <1>5 DEF Inv

LEMMA InvInit == Init => Inv
  <1> SUFFICES ASSUME Init PROVE Inv
    OBVIOUS
  <1>1. /\ \A a \in Attempts : pc[a] = "start" /\ op[a].kind = "none"
                               /\ answer[a] = "none" /\ chain[a] = a
        /\ \A e \in Emails : ~Exists(e) /\ streak[e] = 0 /\ wrong[e] = 0
        /\ sessions = {}
    BY DEF Init, Exists
  <1>2. op \in [Attempts -> Operation]
    BY DEF Init, Operation
  <1>3. TypeOK
    BY <1>1, <1>2, AuthAssumption DEF Init, TypeOK, Outcomes
  <1>4. \A a \in Attempts : AttemptShape(a)
    BY <1>1 DEF AttemptShape, InFlight
  <1>5. Rows /\ Alone /\ Unique /\ \A a \in Attempts : Rotates(a)
    BY <1>1 DEF Rows, Alone, InFlight, Unique, Rotates
  <1>6. \A e \in Emails : Failing(e) = {}
    BY <1>1 DEF Failing
  <1>7. \A e \in Emails : Counted(e)
    BY <1>1, <1>6, FS_EmptySet DEF Counted
  <1>8. \A e \in Emails : Threshold(e)
    <2>1. ~(0 >= maxFailedLogins)
      BY AuthAssumption
    <2> QED
      BY <1>1, <1>6, <2>1 DEF Threshold
  <1> QED
    BY <1>3, <1>4, <1>5, <1>7, <1>8 DEF Inv

LEMMA InvNext == Inv /\ [Next]_vars => Inv'
  <1> SUFFICES ASSUME Inv, [Next]_vars PROVE Inv'
    OBVIOUS
  <1>1. ASSUME NEW a \in Attempts, CreateUser(a) PROVE Inv'
    BY <1>1, CreateUserStep
  <1>2. ASSUME NEW a \in Attempts, CreateWallet(a) PROVE Inv'
    BY <1>2, CreateWalletStep
  <1>3. ASSUME NEW a \in Attempts, CreateSession(a) PROVE Inv'
    BY <1>3, CreateSessionStep
  <1>4. ASSUME NEW a \in Attempts, NEW password \in {"right", "wrong"},
               FindUserByEmail(a, password)
        PROVE  Inv'
    BY <1>4, FindUserByEmailStep
  <1>5. ASSUME NEW a \in Attempts, IncrementFailedLogins(a) PROVE Inv'
    BY <1>5, IncrementFailedLoginsStep
  <1>6. ASSUME NEW a \in Attempts, LockUser(a) PROVE Inv'
    BY <1>6, LockUserStep
  <1>7. ASSUME NEW a \in Attempts, FindWalletByUserID(a) PROVE Inv'
    BY <1>7, FindWalletByUserIDStep
  <1>8. ASSUME NEW a \in Attempts, ResetFailedLogins(a) PROVE Inv'
    BY <1>8, ResetFailedLoginsStep
  <1>9. ASSUME NEW a \in Attempts, DeleteSession(a) PROVE Inv'
    BY <1>9, DeleteSessionStep
  <1>10. ASSUME NEW a \in Attempts, Fail(a) PROVE Inv'
    BY <1>10, FailStep
  <1>11. ASSUME NEW a \in Attempts, NEW t \in Attempts, FindSessionByTokenHash(a, t)
         PROVE  Inv'
    BY <1>11, FindSessionByTokenHashStep
  <1>12. ASSUME NEW a \in Attempts, NEW t \in Attempts, RevokeSession(a, t) PROVE Inv'
    BY <1>12, RevokeSessionStep
  <1>13. ASSUME NEW e \in Emails, Deactivate(e) PROVE Inv'
    BY <1>13, DeactivateStep
  <1>14. CASE Tick \/ UNCHANGED vars
    BY <1>14, TickStep
  <1> QED
    BY <1>1, <1>2, <1>3, <1>4, <1>5, <1>6, <1>7, <1>8, <1>9, <1>10, <1>11, <1>12,
       <1>13, <1>14 DEF Next

LEMMA Invariance == Spec => []Inv
  BY InvInit, InvNext, PTL DEF Spec

-----------------------------------------------------------------------------
\* Registration, login and refresh keep the types, a token has one row, the counter
\* keeps its CHECK, and whoever holds a refresh token has a wallet.
THEOREM AuthTypeInvariant == Spec => []TypeOK
  BY Invariance, PTL DEF Inv

\* However many logins overlap and whichever statements fail, handleFailedLogin locks
\* no account before maxFailedLogins wrong passwords were given for it.
THEOREM LockJustifiedInvariant == Spec => []LockJustified
  <1>1. Inv => LockJustified
    BY DEF Inv, Counted, LockJustified
  <1> QED
    BY <1>1, Invariance, PTL

\* maxFailedLogins wrong passwords in a row lock the account, for any threshold up to
\* the CHECK on the counter, as long as no requests overlap and nothing fails.
THEOREM LockedAtThresholdInvariant == Spec => []LockedAtThreshold
  <1>1. Inv => LockedAtThreshold
    BY DEF Inv, Threshold, LockedAtThreshold, Busy
  <1> QED
    BY <1>1, Invariance, PTL

\* The rotation of refresh tokens leaves a login at most one usable session, whatever
\* fails half way and whichever old tokens are used again, without overlaps.
THEOREM OneSessionPerLoginInvariant == Spec => []OneSessionPerLogin
  <1>1. Inv => OneSessionPerLogin
    BY DEF Inv, Unique, OneSessionPerLogin, ActiveSession
  <1> QED
    BY <1>1, Invariance, PTL
=============================================================================
