----------------------------- MODULE LiveBalance -----------------------------
(**************************************************************************)
(* The balance a browser tab shows: frontend hooks useWebSocket and       *)
(* useBalance, the stores of the session and of notifications, and the API*)
(* client's answer to an expired token.                                   *)
(*                                                                        *)
(* A balance is the number of postings to the wallet that made it.  The   *)
(* server side is what Payment and WebSocketHub come to: postings publish *)
(* their events in any order, once each, and a connection passes them on in*)
(* the order in which they were published.                                *)
(**************************************************************************)
EXTENDS Naturals, Sequences, FiniteSets

CONSTANTS
  Wallets,      \* the wallets of the users of the tab
  Sockets,      \* the WebSocket objects the tab may create
  MaxRequests,  \* API requests that meet an expired token at a time, a bound
  MaxPostings,  \* of each wallet, a bound
  BehindAuthenticate,  \* whether /ws is mounted behind the Authenticate middleware
  NoWallet, NoSocket, NoBalance

ASSUME LiveBalanceAssumption ==
  /\ BehindAuthenticate \in BOOLEAN /\ MaxRequests \in Nat
  /\ MaxPostings \in [Wallets -> Nat]
  /\ NoWallet \notin Wallets /\ NoSocket \notin Sockets /\ NoBalance \notin Nat

VARIABLES
  posted,       \* the balance of each wallet in the database
  unpublished,  \* postings that were committed and not yet published
  wallet,       \* authStore: the wallet of the user who is logged in
  expired,      \* whether its access token has expired
  isMounted,    \* the refs of the hook in the AppShell that is mounted
  wsRef,
  reconnectTimer,
  socket,       \* the WebSocket objects
  timers,       \* sockets whose end started a reconnect timer that is pending
  liveBalance,  \* notificationStore
  query,        \* the query cache's balance of each wallet
  sent,         \* API client: the requests under way with an expired token
  isRefreshing, \* whether one of them waits for a refresh
  queue,        \* and those that wait for that one
  leaving,      \* window.location is set and the page not yet unloaded
  rerun,        \* history: the effect of a mounted AppShell was run once more
  missed,       \* history: an event that the tab may not have got
  reordered,    \* history: an event was published after a later one of its wallet
  owner         \* history: the wallet of the event that set liveBalance

server == <<posted, unpublished>>
hook == <<isMounted, wsRef, reconnectTimer, socket, timers>>
client == <<sent, isRefreshing, queue, leaving>>
history == <<rerun, missed, reordered, owner>>
vars == <<server, wallet, expired, hook, liveBalance, query, client, history>>

Posting == [wallet: Wallets, balance: Nat]

\* current: whether the socket was made by the AppShell that is mounted now.
SocketObject ==
  [state: {"new", "connecting", "open", "closing", "closed"},
   wallet: Wallets \cup {NoWallet}, current: BOOLEAN, inbox: Seq(Nat)]

NewSocket == [state |-> "new", wallet |-> NoWallet, current |-> FALSE, inbox |-> <<>>]

Blank ==
  /\ wallet = NoWallet /\ expired = FALSE
  /\ isMounted = FALSE /\ wsRef = NoSocket /\ reconnectTimer = NoSocket
  /\ socket = [s \in Sockets |-> NewSocket] /\ timers = {}
  /\ liveBalance = NoBalance
  /\ query = [w \in Wallets |-> NoBalance]
  /\ sent = 0 /\ isRefreshing = FALSE /\ queue = 0 /\ leaving = FALSE

Init ==
  /\ posted = [w \in Wallets |-> 0] /\ unpublished = {}
  /\ Blank
  /\ rerun = FALSE /\ missed = FALSE /\ reordered = FALSE /\ owner = NoWallet

-----------------------------------------------------------------------------
(* The server.                                                             *)
Post(w) ==
  /\ posted[w] < MaxPostings[w]
  /\ posted' = [posted EXCEPT ![w] = @ + 1]
  /\ unpublished' = unpublished \cup {[wallet |-> w, balance |-> posted[w] + 1]}
  /\ UNCHANGED <<wallet, expired, hook, liveBalance, query, client, history>>

Listening(s, w) == socket[s].state = "open" /\ socket[s].wallet = w

\* A tab whose socket is down misses the event.
Publish(p) ==
  /\ p \in unpublished
  /\ unpublished' = unpublished \ {p}
  /\ socket' = [s \in Sockets |->
       IF Listening(s, p.wallet)
         THEN [socket[s] EXCEPT !.inbox = Append(@, p.balance)] ELSE socket[s]]
  /\ missed' = (missed \/ (wallet = p.wallet /\ \A s \in Sockets : ~Listening(s, wallet)))
  /\ reordered' = (reordered \/ \E b \in (p.balance + 1)..posted[p.wallet] :
                                    [p EXCEPT !.balance = b] \notin unpublished)
  /\ UNCHANGED <<posted, wallet, expired, isMounted, wsRef, reconnectTimer, timers,
                 liveBalance, query, client, rerun, owner>>

\* The token that every connection and every request of the session carries.
Expire ==
  /\ wallet # NoWallet /\ ~expired
  /\ expired' = TRUE
  /\ UNCHANGED <<server, wallet, hook, liveBalance, query, client, history>>

-----------------------------------------------------------------------------
(* The session.                                                            *)
Connecting(w) == [NewSocket EXCEPT !.state = "connecting", !.wallet = w, !.current = TRUE]

\* AppShell is mounted: refs of its own, and the effect connects.
Mount(w) ==
  \E s \in Sockets :
    /\ ~isMounted /\ ~leaving /\ socket[s].state = "new"
    /\ isMounted' = TRUE /\ wsRef' = s /\ reconnectTimer' = NoSocket
    /\ socket' = [[r \in Sockets |-> [socket[r] EXCEPT !.current = FALSE]]
                    EXCEPT ![s] = Connecting(w)]
    /\ UNCHANGED <<server, timers, liveBalance, query, client>>

\* setAuth, by whoever logs in, also while the session before is still there.  The
\* balance of the last event stays in its store; the events of a user who is not
\* logged in are not the tab's.
SetAuth(w) ==
  /\ wallet' = w /\ expired' = FALSE
  /\ missed' = (missed \/ (w # wallet /\ liveBalance # NoBalance))
  /\ UNCHANGED <<reordered, owner>>

Login(w) == SetAuth(w) /\ Mount(w) /\ UNCHANGED rerun

\* Forward, from the login page to one of AppShell's.
Return ==
  /\ wallet # NoWallet /\ Mount(wallet)
  /\ UNCHANGED <<wallet, expired, history>>

\* (wrong) the cleanup forgets isMounted.
MountedAfterCleanup_Still == isMounted

MountedAfterCleanup == FALSE

\* What the cleanup makes of a socket: a pending timer is cleared, the connection
\* that the ref names is closed.
AfterCleanup(s) ==
  IF s = wsRef THEN [socket[s] EXCEPT !.state = "closing", !.inbox = <<>>]
  ELSE IF s \in timers \cap {reconnectTimer} THEN NewSocket ELSE socket[s]

Unheard == wsRef # NoSocket /\ socket[wsRef].inbox # <<>>

\* The cleanup of the effect as AppShell goes.
Unmount ==
  /\ isMounted' = MountedAfterCleanup
  /\ timers' = timers \ {reconnectTimer}
  /\ socket' = [s \in Sockets |-> AfterCleanup(s)]
  /\ missed' = (missed \/ Unheard)
  /\ UNCHANGED <<wsRef, reconnectTimer>>

\* Back to the login page, which does not ask whether somebody is logged in.
Leave ==
  /\ isMounted /\ Unmount
  /\ UNCHANGED <<server, wallet, expired, liveBalance, query, client, rerun,
                 reordered, owner>>

\* clearAuth; AppShell, if it is there, goes.
ClearAuth ==
  /\ wallet' = NoWallet /\ expired' = FALSE
  /\ \/ isMounted /\ Unmount
     \/ ~isMounted /\ UNCHANGED <<hook, missed>>
  /\ UNCHANGED <<server, liveBalance, query, rerun, reordered, owner>>

\* The effect's cleanup and the effect again, on the same refs: the socket that
\* closes will find them set for the new one.
Rerun(w) ==
  \E s \in Sockets :
    /\ isMounted /\ socket[s].state = "new"
    /\ wsRef' = s /\ timers' = timers \ {reconnectTimer}
    /\ socket' = [t \in Sockets |-> IF t = s THEN Connecting(w) ELSE AfterCleanup(t)]
    /\ rerun' = TRUE
    /\ UNCHANGED <<server, isMounted, reconnectTimer, liveBalance, query, client>>

\* The answer of a login or a registration that comes when AppShell is mounted.
LoginAgain(w) == SetAuth(w) /\ Rerun(w)

\* What React.StrictMode does as soon as AppShell is mounted, in a development build.
StrictEffects ==
  /\ wsRef # NoSocket /\ socket[wsRef].state = "connecting" /\ reconnectTimer = NoSocket
  /\ Rerun(wallet)
  /\ UNCHANGED <<wallet, expired, missed, reordered, owner>>

Logout == wallet # NoWallet /\ ClearAuth /\ UNCHANGED client

-----------------------------------------------------------------------------
(* The API client, once the token has expired.                             *)
\* A request is sent with the expired token.
Send ==
  /\ wallet # NoWallet /\ expired
  /\ sent + queue + (IF isRefreshing THEN 1 ELSE 0) < MaxRequests
  /\ sent' = sent + 1
  /\ UNCHANGED <<server, wallet, expired, hook, liveBalance, query, isRefreshing, queue,
                 leaving, history>>

\* 401: the first request to learn of it asks for a refresh, the others queue.
Unauthorized ==
  /\ sent > 0
  /\ sent' = sent - 1
  /\ isRefreshing' = TRUE
  /\ queue' = IF isRefreshing THEN queue + 1 ELSE queue
  /\ UNCHANGED <<server, wallet, expired, hook, liveBalance, query, leaving, history>>

\* (wrong) the page is not left.
Leaves_Not == FALSE

\* window.location.href = '/login'
Leaves == TRUE

\* The refresh is answered with a body the client does not expect (access_token,
\* not tokens.access_token), and so fails like one without a session: clearAuth,
\* the request is rejected, the queue stays as it is.
RefreshFails ==
  /\ isRefreshing
  /\ isRefreshing' = FALSE
  /\ leaving' = Leaves
  /\ UNCHANGED <<sent, queue>>
  /\ \/ wallet # NoWallet /\ ClearAuth
     \/ /\ wallet = NoWallet
        /\ UNCHANGED <<server, wallet, expired, hook, liveBalance, query, history>>

\* The page is loaded anew, with nothing of what the old one held.
Unload ==
  /\ leaving
  /\ wallet' = NoWallet /\ expired' = FALSE
  /\ isMounted' = FALSE /\ wsRef' = NoSocket /\ reconnectTimer' = NoSocket
  /\ socket' = [s \in Sockets |-> NewSocket] /\ timers' = {}
  /\ liveBalance' = NoBalance
  /\ query' = [w \in Wallets |-> NoBalance]
  /\ sent' = 0 /\ isRefreshing' = FALSE /\ queue' = 0 /\ leaving' = FALSE
  /\ rerun' = FALSE /\ missed' = FALSE /\ reordered' = FALSE /\ owner' = NoWallet
  /\ UNCHANGED server

-----------------------------------------------------------------------------
(* The socket.                                                             *)
\* A browser sends its token in the URL.  The handler accepts it there; Authenticate
\* looks at the Authorization header only, which a browser cannot set.  Whoever may be
\* admitted may also fail (Close does what Refuse does): every behaviour with /ws behind
\* Authenticate, as main.go has it, is one without, and what holds of these holds
\* of the program.
Admitted == ~expired /\ ~BehindAuthenticate

\* onopen, of a connection the server accepts.
Open(s) ==
  /\ socket[s].state = "connecting" /\ Admitted
  /\ socket' = [socket EXCEPT ![s].state = "open"]
  /\ UNCHANGED <<server, wallet, expired, isMounted, wsRef, reconnectTimer, timers,
                 liveBalance, query, client, history>>

\* isMounted.current, of the AppShell the socket was made in.
Mounted(s) == socket[s].current /\ isMounted

\* (wrong) a connection that was open is not made again.
Reconnects_OnError(s) == Mounted(s) /\ socket[s].state = "connecting"

Reconnects(s) == Mounted(s)

\* (wrong) onclose leaves the ref.
RefAfterClose_Kept(s) == wsRef

\* The ref of the AppShell that made the socket.
RefAfterClose(s) == IF socket[s].current THEN NoSocket ELSE wsRef

\* onclose
Ended(s) ==
  /\ wsRef' = RefAfterClose(s)
  /\ \/ /\ Reconnects(s)
        /\ socket' = [socket EXCEPT ![s].state = "closed", ![s].inbox = <<>>]
        /\ timers' = timers \cup {s}
        /\ reconnectTimer' = s
     \/ /\ ~Reconnects(s)
        /\ socket' = [socket EXCEPT ![s] = NewSocket]
        /\ UNCHANGED <<timers, reconnectTimer>>
  /\ missed' = (missed \/ socket[s].inbox # <<>>)
  /\ UNCHANGED <<server, wallet, expired, isMounted, liveBalance, query, client,
                 rerun, reordered, owner>>

\* The connection fails, breaks, or ends its closing.
Close(s) == socket[s].state \in {"connecting", "open", "closing"} /\ Ended(s)

\* The server answers the handshake with 401.
Refuse(s) == socket[s].state = "connecting" /\ ~Admitted /\ Ended(s)

\* setTimeout(connect, delay), with the closure the timer was started in; the object
\* of the socket that ended stands for the new one.
TimerFires(s) ==
  /\ s \in timers
  /\ timers' = timers \ {s}
  /\ \/ /\ Mounted(s)
        /\ socket' = [socket EXCEPT ![s] = Connecting(socket[s].wallet)]
        /\ wsRef' = s
     \/ /\ ~Mounted(s)
        /\ socket' = [socket EXCEPT ![s] = NewSocket]
        /\ UNCHANGED wsRef
  /\ UNCHANGED <<server, wallet, expired, isMounted, reconnectTimer, liveBalance, query,
                 client, history>>

\* (wrong) only the first event counts.
LiveAfter_First(b) == IF liveBalance = NoBalance THEN b ELSE liveBalance

LiveAfter(b) == b

\* onmessage: each event of a payment or an issuance sets the live balance, whatever it was before.
Message(s) ==
  LET b == Head(socket[s].inbox)
  IN /\ socket[s].state = "open" /\ socket[s].inbox # <<>>
     /\ socket' = [socket EXCEPT ![s].inbox = Tail(@)]
     /\ liveBalance' = LiveAfter(b)
     /\ owner' = socket[s].wallet
     /\ UNCHANGED <<server, wallet, expired, isMounted, wsRef, reconnectTimer, timers,
                    query, client, rerun, missed, reordered>>

-----------------------------------------------------------------------------
(* The balance query: on mount, after an event or a payment, when it is stale. *)
\* A request that Authenticate let through is answered at any later time, with a balance
\* that was current when it was read.  A key of the query has one request under way, sent
\* after the answer of the one before.
Fetched ==
  /\ wallet # NoWallet
  /\ \E b \in {c \in 0..posted[wallet] : query[wallet] \in (0..c) \cup {NoBalance}} :
       query' = [query EXCEPT ![wallet] = b]
  /\ UNCHANGED <<server, wallet, expired, hook, liveBalance, client, history>>

\* (wrong) the last answer comes first.
balanceCents_RestFirst == IF query[wallet] # NoBalance THEN query[wallet] ELSE liveBalance

\* useBalance: the live balance comes first.
balanceCents == IF liveBalance # NoBalance THEN liveBalance ELSE query[wallet]

Next ==
  \/ \E w \in Wallets : Post(w) \/ Login(w) \/ LoginAgain(w)
  \/ Return \/ Leave \/ StrictEffects
  \/ \E p \in unpublished : Publish(p)
  \/ \E s \in Sockets : Open(s) \/ Refuse(s) \/ Close(s) \/ TimerFires(s) \/ Message(s)
  \/ Send \/ Unauthorized \/ RefreshFails \/ Unload
  \/ Expire \/ Logout \/ Fetched

\* A timer fires; a server refuses what it does not admit; requests are answered; a
\* page that is left is unloaded.
Fairness ==
  /\ \A s \in Sockets : WF_vars(TimerFires(s)) /\ WF_vars(Refuse(s))
  /\ WF_vars(Unauthorized) /\ WF_vars(RefreshFails) /\ WF_vars(Unload)

Spec == Init /\ [][Next]_vars /\ Fairness

\* A network that lets a connection through if it is tried again and again.
NetworkSpec == Spec /\ \A s \in Sockets : SF_vars(Open(s))

-----------------------------------------------------------------------------
\* Types, that a timer belongs to a socket that ended, and that the ref of the hook
\* names a socket that has not.
TypeOK ==
  /\ posted \in [Wallets -> Nat] /\ unpublished \subseteq Posting
  /\ wallet \in Wallets \cup {NoWallet}
  /\ expired \in BOOLEAN /\ isMounted \in BOOLEAN
  /\ rerun \in BOOLEAN /\ missed \in BOOLEAN /\ reordered \in BOOLEAN
  /\ owner \in Wallets \cup {NoWallet}
  /\ wsRef \in Sockets \cup {NoSocket} /\ reconnectTimer \in Sockets \cup {NoSocket}
  /\ socket \in [Sockets -> SocketObject]
  /\ timers = {s \in Sockets : socket[s].state = "closed"}
  /\ wsRef # NoSocket =>
       socket[wsRef].current /\ socket[wsRef].state \in {"connecting", "open", "closing"}
  /\ liveBalance \in Nat \cup {NoBalance}
  /\ query \in [Wallets -> Nat \cup {NoBalance}]
  /\ sent \in Nat /\ queue \in Nat
  /\ isRefreshing \in BOOLEAN /\ leaving \in BOOLEAN

\* The sockets that are or will be connected.
Live == {s \in Sockets : socket[s].state \in {"connecting", "open"}} \cup timers

\* A tab has at most one connection, or one timer that will make one, and it is that
\* of the user who is logged in; when AppShell is not mounted there is none ("After
\* unmount the ws is closed and no reconnect fires", useWebSocket.test.ts), whatever
\* sockets of earlier mounts still close.  As long as the effect is not run twice on
\* the same refs: then the first socket's onclose starts a second connection.
OneConnection ==
  ~rerun =>
    /\ Cardinality(Live) <= 1
    /\ \A s \in Live : isMounted /\ socket[s].wallet = wallet

\* The hook never gives up ("Exponential backoff reconnect", useWebSocket.ts): as long
\* as AppShell is mounted, whatever fails, breaks or is refused, and whatever the
\* closed sockets of earlier sessions do to the refs, it tries again for the user who
\* is logged in.
KeepsTrying ==
  isMounted ~> (~isMounted \/ \E s \in Sockets :
                  /\ socket[s].state \in {"connecting", "open"}
                  /\ socket[s].current /\ socket[s].wallet = wallet)

\* "?token=<jwt> query param - for browsers using the native WebSocket API"
\* (websocket/handler.go:55): as long as it lasts, the token in the URL gets a browser
\* its connection.
TokenInURLConnects ==
  (isMounted /\ ~expired)
    ~> (~isMounted \/ expired \/ \E s \in Sockets : Listening(s, wallet))

\* A request that met the expired token does not hang: it is rejected, or its page is
\* left.  Those that queued behind the refresh have no other way out: when the
\* refresh fails nothing calls them back (queue of api/client.ts).
RequestsSettle ==
  (sent > 0 \/ isRefreshing \/ queue > 0) ~> (sent = 0 /\ ~isRefreshing /\ queue = 0)

\* No event of the wallet is under way.
Quiet ==
  /\ \A p \in unpublished : p.wallet # wallet
  /\ \A s \in Sockets : socket[s].inbox = <<>>

\* As long as the tab missed no event, got none in the wrong order or on a second
\* connection and has the live balance from an event of its user, the balance that comes
\* first (useBalance) is the wallet's.
LiveIsCurrent ==
  (wallet # NoWallet /\ Quiet /\ ~rerun /\ ~missed /\ ~reordered /\ owner = wallet)
    => balanceCents = posted[wallet]

\* "This avoids a visible balance 'flicker' back to the stale REST value" (useWallet.ts):
\* once an event of his was shown, the user never sees a balance older than the one
\* before, whatever answers of requests and closed connections come in between.
NoFlicker ==
  [][(owner = wallet /\ wallet # NoWallet /\ wallet' = wallet /\ ~reordered' /\ ~rerun')
       => balanceCents' >= balanceCents]_vars
=============================================================================
