-------------------------------- MODULE Auth --------------------------------
(***************************************************************************)
(* internal/auth: registration, login with its lockout, and the refresh     *)
(* tokens, which are rotated at every use.                                  *)
(*                                                                          *)
(* Every element of Attempts is one HTTP request; a token is named by the   *)
(* request that created its session.  Every statement is a database         *)
(* transaction of its own.  The variable faults says what may go wrong in a *)
(* behaviour: "overlap" (two requests of one account are under way at       *)
(* once), "fail" (a statement fails or the process dies).                   *)
(***************************************************************************)
EXTENDS Integers

CONSTANTS
  Emails,
  Attempts,
  FaultSets,         \* the sets of faults a behaviour may start with
  maxFailedLogins,   \* 5
  lockoutDuration,   \* 30 minutes, in ticks
  RefreshTokenTTL,   \* 7 days, in ticks
  failedLoginsRange, \* 100: users_failed_logins_range, a CHECK
  MaxClock,          \* bound of the instance
  NoUser, NoToken

ASSUME AuthAssumption ==
  /\ maxFailedLogins \in Nat \ {0} /\ lockoutDuration \in Nat \ {0}
  /\ RefreshTokenTTL \in Nat \ {0} /\ MaxClock \in Nat
  /\ failedLoginsRange \in Nat /\ failedLoginsRange >= maxFailedLogins
  /\ NoToken \notin Attempts
  /\ FaultSets \subseteq SUBSET {"overlap", "fail"}

VARIABLES
  users,    \* the row of users (and its wallet) of each email
  sessions, \* rows of sessions
  clock,
  faults,   \* what may go wrong
  op,       \* what each attempt asks
  pc,       \* the next statement of each attempt
  seen,     \* failed_logins as an attempt read it
  answer,   \* the HTTP answer of each attempt
  chain,    \* history: the request whose token the refreshes up to an attempt began with
  wrong,    \* history: wrong passwords given for each email
  streak    \* history: those since the last login

vars == <<users, sessions, clock, faults, op, pc, seen, answer, chain, wrong, streak>>
historyVars == <<wrong, streak>>

User ==
  [has_wallet: BOOLEAN, is_active: BOOLEAN, failed_logins: 0..failedLoginsRange,
   locked_until: Nat]  \* 0: NULL

ASSUME NoUserAssumption == NoUser \notin User

Session ==
  [token: Attempts, email: Emails, is_revoked: BOOLEAN, expires_at: Nat]

Operation ==
  [kind: {"none", "register", "login", "refresh", "logout"}, email: Emails,
   password: {"right", "wrong"}, token: Attempts \cup {NoToken}]

Outcomes ==
  {"none", "ok", "error", "ErrEmailTaken", "ErrInvalidCredentials",
   "ErrAccountLocked", "ErrAccountInactive", "ErrTokenRevoked"}

Init ==
  /\ users = [e \in Emails |-> NoUser]
  /\ sessions = {}
  /\ clock = 0
  /\ faults \in FaultSets
  /\ op \in [Attempts -> {[kind |-> "none", email |-> e, password |-> "right",
                           token |-> NoToken] : e \in Emails}]
  /\ pc = [a \in Attempts |-> "start"]
  /\ seen = [a \in Attempts |-> 0]
  /\ answer = [a \in Attempts |-> "none"]
  /\ chain = [a \in Attempts |-> a]
  /\ wrong = [e \in Emails |-> 0]
  /\ streak = [e \in Emails |-> 0]

-----------------------------------------------------------------------------
email(a) == op[a].email
Exists(e) == users[e] # NoUser
IsLocked(user) == clock < user.locked_until

Busy(e) == \E a \in Attempts : email(a) = e /\ pc[a] \notin {"start", "done"}

\* The request of attempt a arrives.
Begin(a, kind, password, token) ==
  /\ pc[a] = "start"
  /\ "overlap" \in faults \/ ~Busy(email(a))
  /\ op' = [op EXCEPT ![a] = [@ EXCEPT !.kind = kind, !.password = password,
                                       !.token = token]]
  /\ chain' = [chain EXCEPT ![a] = IF kind = "refresh" THEN chain[token] ELSE a]

Goto(a, label) == pc' = [pc EXCEPT ![a] = label] /\ UNCHANGED answer

Answer(a, outcome) ==
  /\ pc' = [pc EXCEPT ![a] = "done"]
  /\ answer' = [answer EXCEPT ![a] = outcome]

SetUser(e, user) == users' = [users EXCEPT ![e] = user]

-----------------------------------------------------------------------------
(* Register.                                                               *)
CreateUser(a) ==
  LET e == email(a)
  IN /\ Begin(a, "register", "right", NoToken)
     /\ \/ Exists(e) /\ Answer(a, "ErrEmailTaken") /\ UNCHANGED users
        \/ /\ ~Exists(e)
           /\ SetUser(e, [has_wallet |-> FALSE, is_active |-> TRUE,
                          failed_logins |-> 0, locked_until |-> 0])
           /\ Goto(a, "create_wallet")
     /\ UNCHANGED <<sessions, clock, faults, seen, historyVars>>

CreateWallet(a) ==
  /\ pc[a] = "create_wallet"
  /\ SetUser(email(a), [users[email(a)] EXCEPT !.has_wallet = TRUE])
  /\ Goto(a, "create_session")
  /\ UNCHANGED <<sessions, clock, faults, op, chain, seen, historyVars>>

\* issueRefreshToken, for a registration, a login or a refresh.
CreateSession(a) ==
  /\ pc[a] = "create_session"
  /\ sessions' = sessions \cup
       {[token |-> a, email |-> email(a), is_revoked |-> FALSE,
         expires_at |-> clock + RefreshTokenTTL]}
  /\ \/ op[a].kind = "login" /\ Goto(a, "reset_failed_logins")
     \/ op[a].kind # "login" /\ Answer(a, "ok")
     \/ "fail" \in faults /\ Answer(a, "error")  \* committed all the same
  /\ UNCHANGED <<users, clock, faults, op, chain, seen, historyVars>>

-----------------------------------------------------------------------------
(* Login.                                                                  *)
\* Why a login is refused before the password is looked at.
LoginError(e) ==
  IF ~Exists(e) THEN "ErrInvalidCredentials"
  ELSE IF ~users[e].is_active THEN "ErrAccountInactive"
  ELSE IF IsLocked(users[e]) THEN "ErrAccountLocked"
  ELSE "none"

\* The row is read here; the password is verified on it, which takes its time.
FindUserByEmail(a, password) ==
  LET e == email(a)
  IN /\ Begin(a, "login", password, NoToken)
     /\ \/ /\ LoginError(e) # "none"
           /\ Answer(a, LoginError(e))
           /\ UNCHANGED <<seen, historyVars>>
        \/ /\ LoginError(e) = "none"
           /\ seen' = [seen EXCEPT ![a] = users[e].failed_logins]
           /\ IF password = "wrong"
                THEN /\ Goto(a, "increment_failed_logins")
                     /\ wrong' = [wrong EXCEPT ![e] = @ + 1]
                     /\ streak' = [streak EXCEPT ![e] = @ + 1]
                ELSE Goto(a, "find_wallet") /\ UNCHANGED historyVars
     /\ UNCHANGED <<users, sessions, clock, faults>>

\* (wrong) one more wrong password is forgiven.
ReachesThreshold_Late(n) == n > maxFailedLogins

\* (wrong) one wrong password less is enough.
ReachesThreshold_Early(n) == n + 1 >= maxFailedLogins

ReachesThreshold(n) == n >= maxFailedLogins

\* An UPDATE beyond the CHECK fails; its error is logged and ignored.
Incremented(n) == IF n < failedLoginsRange THEN n + 1 ELSE n

\* handleFailedLogin: the row is incremented, but the count that was read decides.
IncrementFailedLogins(a) ==
  LET user == users[email(a)]
  IN /\ pc[a] = "increment_failed_logins"
     /\ \/ SetUser(email(a), [user EXCEPT !.failed_logins = Incremented(@)])
        \/ "fail" \in faults /\ UNCHANGED users
     /\ \/ ReachesThreshold(seen[a] + 1) /\ Goto(a, "lock_user")
        \/ ~ReachesThreshold(seen[a] + 1) /\ Answer(a, "ErrInvalidCredentials")
     /\ UNCHANGED <<sessions, clock, faults, op, chain, seen, historyVars>>

LockUser(a) ==
  LET user == users[email(a)]
  IN /\ pc[a] = "lock_user"
     /\ \/ SetUser(email(a), [user EXCEPT !.locked_until = clock + lockoutDuration])
        \/ "fail" \in faults /\ UNCHANGED users
     /\ Answer(a, "ErrInvalidCredentials")
     /\ UNCHANGED <<sessions, clock, faults, op, chain, seen, historyVars>>

\* (wrong) a user without a wallet passes.
WalletFound_Any(e) == TRUE

WalletFound(e) == users[e].has_wallet

\* For a login and for a refresh.
FindWalletByUserID(a) ==
  /\ pc[a] = "find_wallet"
  /\ \/ ~WalletFound(email(a)) /\ Answer(a, "error")
     \/ /\ WalletFound(email(a))
        /\ Goto(a, IF op[a].kind = "login" THEN "create_session"
                   ELSE "delete_session")
  /\ UNCHANGED <<users, sessions, clock, faults, op, chain, seen, historyVars>>

\* Its failure does not fail the login.
ResetFailedLogins(a) ==
  LET user == users[email(a)]
  IN /\ pc[a] = "reset_failed_logins"
     /\ \/ /\ SetUser(email(a), [user EXCEPT !.failed_logins = 0,
                                             !.locked_until = 0])
        \/ "fail" \in faults /\ UNCHANGED users
     /\ streak' = [streak EXCEPT ![email(a)] = 0]
     /\ Answer(a, "ok")
     /\ UNCHANGED <<sessions, clock, faults, op, chain, seen, wrong>>

-----------------------------------------------------------------------------
(* RefreshToken and Logout.                                                *)
\* The tokens clients were sent, the old ones too.
Sent(e) == {b \in Attempts : email(b) = e /\ answer[b] = "ok" /\ op[b].kind # "logout"}

\* The row of a token that may still be used.
ActiveSession(t) ==
  {s \in sessions : s.token = t /\ ~s.is_revoked /\ clock < s.expires_at}

FindSessionByTokenHash(a, t) ==
  /\ t \in Sent(email(a))
  /\ Begin(a, "refresh", "right", t)
  /\ \/ ActiveSession(t) = {} /\ Answer(a, "ErrTokenRevoked")
     \/ ActiveSession(t) # {} /\ Goto(a, "find_wallet")
  /\ UNCHANGED <<users, sessions, clock, faults, seen, historyVars>>

\* (wrong) the old session stays.
DeleteSession_Kept(a) ==
  /\ pc[a] = "delete_session"
  /\ Goto(a, "create_session")
  /\ UNCHANGED <<users, sessions, clock, faults, op, chain, seen, historyVars>>

\* Rotation: the old session goes, whether or not it still is there.
DeleteSession(a) ==
  /\ pc[a] = "delete_session"
  /\ sessions' = {s \in sessions : s.token # op[a].token}
  /\ Goto(a, "create_session")
  /\ UNCHANGED <<users, clock, faults, op, chain, seen, historyVars>>

\* Logout, one UPDATE, whose error is ignored.
RevokeSession(a, t) ==
  /\ t \in Sent(email(a))
  /\ Begin(a, "logout", "right", t)
  /\ \/ sessions' = {IF s.token = t THEN [s EXCEPT !.is_revoked = TRUE] ELSE s :
                       s \in sessions}
     \/ "fail" \in faults /\ UNCHANGED sessions
  /\ Answer(a, "ok")
  /\ UNCHANGED <<users, clock, faults, seen, historyVars>>

-----------------------------------------------------------------------------
\* A statement fails, or the process dies: nothing more is done.
Fail(a) ==
  /\ "fail" \in faults
  /\ pc[a] \notin {"start", "done"}
  /\ Answer(a, "error")
  /\ UNCHANGED <<users, sessions, clock, faults, op, chain, seen, historyVars>>

Tick ==
  /\ clock < MaxClock
  /\ clock' = clock + 1
  /\ UNCHANGED <<users, sessions, faults, op, chain, pc, seen, answer, historyVars>>

\* An operator deactivates an account.
Deactivate(e) ==
  /\ Exists(e) /\ users[e].is_active
  /\ SetUser(e, [users[e] EXCEPT !.is_active = FALSE])
  /\ UNCHANGED <<sessions, clock, faults, op, chain, pc, seen, answer, historyVars>>

Next ==
  \/ \E a \in Attempts :
       \/ CreateUser(a) \/ CreateWallet(a) \/ CreateSession(a)
       \/ \E password \in {"right", "wrong"} : FindUserByEmail(a, password)
       \/ IncrementFailedLogins(a) \/ LockUser(a)
       \/ FindWalletByUserID(a) \/ ResetFailedLogins(a)
       \/ DeleteSession(a) \/ Fail(a)
       \/ \E t \in Attempts :
            FindSessionByTokenHash(a, t) \/ RevokeSession(a, t)
  \/ Tick
  \/ \E e \in Emails : Deactivate(e)

Spec == Init /\ [][Next]_vars

-----------------------------------------------------------------------------
\* Types, among them that a token has one row, that the counter keeps its CHECK, and
\* that, whatever overlaps and fails, whoever holds a refresh token has a wallet: an
\* access token always carries a wallet id.
TypeOK ==
  /\ users \in [Emails -> User \cup {NoUser}]
  /\ sessions \subseteq Session
  /\ \A s, t \in sessions : s.token = t.token => s = t
  /\ \A s \in sessions : Exists(s.email) /\ users[s.email].has_wallet
  /\ clock \in 0..MaxClock
  /\ faults \in FaultSets
  /\ op \in [Attempts -> Operation]
  /\ pc \in [Attempts -> {"start", "create_wallet", "create_session",
                          "increment_failed_logins", "lock_user", "find_wallet",
                          "reset_failed_logins", "delete_session", "done"}]
  /\ seen \in [Attempts -> Nat]
  /\ answer \in [Attempts -> Outcomes]
  /\ chain \in [Attempts -> Attempts]
  /\ wrong \in [Emails -> Nat] /\ streak \in [Emails -> Nat]

\* Whatever overlaps and fails, no account is locked before maxFailedLogins
\* wrong passwords were given for it.
LockJustified ==
  \A e \in Emails :
    (Exists(e) /\ users[e].locked_until # 0) => wrong[e] >= maxFailedLogins

\* "maxFailedLogins is the number of wrong password attempts before lockout"
\* (auth/service.go): as many in a row lock the account, as long as they do not
\* overlap and nothing fails.
LockedAtThreshold ==
  faults = {} => \A e \in Emails :
    (~Busy(e) /\ streak[e] >= maxFailedLogins) => users[e].locked_until # 0

\* Every login and every registration has at most one session that may be used,
\* however often its token was rotated, old tokens were used again and requests
\* failed half way, as long as they do not overlap.
OneSessionPerLogin ==
  "overlap" \notin faults => \A s, t \in sessions :
    (/\ chain[s.token] = chain[t.token]
     /\ s \in ActiveSession(s.token) /\ t \in ActiveSession(t.token))
    => s = t
=============================================================================
