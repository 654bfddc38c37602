-------------------------- MODULE LiveBalanceProofs --------------------------
(***************************************************************************)
(* Proofs about LiveBalance, for any wallets, sockets, numbers of postings  *)
(* and of requests, and wherever /ws is mounted.                            *)
(***************************************************************************)
EXTENDS LiveBalance, FiniteSetTheorems, SequenceTheorems, TLAPS

-----------------------------------------------------------------------------
\* A socket that is or will be connected is that of the AppShell that is mounted, for
\* the user who is logged in, and the refs of the hook know it; so there is one at most.
LiveShape(s) ==
  /\ wallet # NoWallet /\ socket[s].wallet = wallet
  /\ socket[s].current /\ isMounted
  /\ IF socket[s].state = "closed" THEN reconnectTimer = s ELSE wsRef = s

Connected(s) == socket[s].state \in {"connecting", "open", "closed"}

\* As long as the effect was not run twice on the same refs: a socket that is closing
\* does not reconnect, and only an open one has messages.
Sessions ==
  ~rerun =>
    /\ \A s \in Sockets : Connected(s) => LiveShape(s)
    /\ \A s, t \in Sockets : Connected(s) /\ Connected(t) => s = t
    /\ \A s \in Sockets :
         /\ socket[s].state = "closing" => ~(socket[s].current /\ isMounted)
         /\ socket[s].inbox # <<>> => socket[s].state = "open"

\* The event of wallet w with balance b.
Event(w, b) == [wallet |-> w, balance |-> b]

\* It was published; every later one was not.
Published(w, b) == w \in Wallets /\ b \in 1..posted[w] /\ Event(w, b) \notin unpublished
Latest(w, b) == \A c \in (b + 1)..posted[w] : Event(w, c) \in unpublished

Pending == \A p \in unpublished : p.balance \in 1..posted[p.wallet]

\* What a tab was sent, and shows, was published.
Received ==
  /\ \A s \in Sockets : \A i \in DOMAIN socket[s].inbox :
       Published(socket[s].wallet, socket[s].inbox[i])
  /\ owner # NoWallet => Published(owner, liveBalance)

\* Unless an event was published late, each event is newer than the one before.
InOrder ==
  ~rerun /\ ~reordered => \A s \in Sockets :
    /\ \A i, j \in DOMAIN socket[s].inbox :
         i < j => socket[s].inbox[i] < socket[s].inbox[j]
    /\ owner = socket[s].wallet =>
         \A i \in DOMAIN socket[s].inbox : liveBalance < socket[s].inbox[i]

\* Unless one was missed, the last is the latest that was published.
Complete ==
  ~rerun /\ wallet # NoWallet /\ ~missed /\ ~reordered =>
    /\ \A s \in Sockets : socket[s].inbox # <<>> =>
         Latest(wallet, socket[s].inbox[Len(socket[s].inbox)])
    /\ owner = wallet /\ (\A s \in Sockets : socket[s].inbox = <<>>) =>
         Latest(wallet, liveBalance)

Flow == Pending /\ Received /\ InOrder /\ Complete

\* The inductive invariant.
Inv == TypeOK /\ Sessions /\ Flow

-----------------------------------------------------------------------------
LEMMA SocketTypes ==
  /\ NewSocket \in SocketObject
  /\ NewSocket.state = "new" /\ NewSocket.inbox = <<>> /\ ~NewSocket.current
  /\ \A w \in Wallets \cup {NoWallet} :
       /\ Connecting(w) \in SocketObject
       /\ Connecting(w).state = "connecting" /\ Connecting(w).inbox = <<>>
       /\ Connecting(w).wallet = w /\ Connecting(w).current
  <1>1. <<>> \in Seq(Nat)
    OBVIOUS
  <1> QED
    BY <1>1 DEF NewSocket, Connecting, SocketObject

\* Sockets that change their state, or lose what they were sent, and are not of
\* another wallet then.
LEMMA FlowFrame ==
  ASSUME Inv, UNCHANGED <<posted, unpublished, wallet, liveBalance, rerun, owner, reordered>>,
         \A s \in Sockets :
           \/ socket'[s].inbox = <<>> /\ (socket[s].inbox # <<>> => missed')
           \/ /\ socket'[s].inbox = socket[s].inbox
              /\ socket'[s].wallet = socket[s].wallet,
         missed => missed'
  PROVE  Flow'
  <1>1. \A s \in Sockets : socket[s].inbox \in Seq(Nat)
    BY DEF Inv, TypeOK, SocketObject
  <1>2. Pending'
    BY DEF Inv, Flow, Pending
  <1>3. Received'
    BY DEF Inv, Flow, Received, Published
  <1>4. InOrder'
    BY DEF Inv, Flow, InOrder
  <1>5. Complete'
    BY DEF Inv, Flow, Complete, Latest
  <1> QED
    BY <1>2, <1>3, <1>4, <1>5 DEF Flow

\* Steps that touch neither the sockets nor what flows through them.
LEMMA OtherStep ==
  ASSUME Inv, TypeOK',
         UNCHANGED <<posted, unpublished, wallet, isMounted, wsRef, reconnectTimer, socket,
                     timers, liveBalance, rerun, missed, reordered, owner>>
  PROVE  Inv'
  <1>1. Sessions'
    BY DEF Inv, Sessions, LiveShape, Connected
  <1>2. Flow'
    BY FlowFrame
  <1> QED
    BY <1>1, <1>2 DEF Inv

LEMMA ClientInv ==
  ASSUME Inv, Send \/ Unauthorized \/ Expire \/ Fetched \/ UNCHANGED vars
  PROVE  Inv'
  <1>1. UNCHANGED <<posted, unpublished, wallet, isMounted, wsRef, reconnectTimer, socket,
                    timers, liveBalance, rerun, missed, reordered, owner>>
    BY DEF Send, Unauthorized, Expire, Fetched, vars, server, hook, client, history
  <1>2. TypeOK'
    <2>1. /\ expired' \in BOOLEAN /\ sent' \in Nat /\ queue' \in Nat
          /\ isRefreshing' \in BOOLEAN /\ leaving' \in BOOLEAN
      <3>1. CASE Send
        BY <3>1 DEF Send, Inv, TypeOK
      <3>2. CASE Unauthorized
        BY <3>2 DEF Unauthorized, Inv, TypeOK
      <3>3. CASE Expire \/ Fetched \/ UNCHANGED vars
        BY <3>3 DEF Expire, Fetched, vars, client, Inv, TypeOK
      <3> QED
        BY <3>1, <3>2, <3>3
    <2>2. query' \in [Wallets -> Nat \cup {NoBalance}]
      <3>1. CASE Fetched
        <4>1. PICK b \in 0..posted[wallet] : query' = [query EXCEPT ![wallet] = b]
          BY <3>1 DEF Fetched
        <4>2. b \in Nat \cup {NoBalance}
          BY <3>1, <4>1 DEF Fetched, Inv, TypeOK
        <4> QED
          BY <4>1, <4>2 DEF Inv, TypeOK
      <3>2. CASE query' = query
        BY <3>2 DEF Inv, TypeOK
      <3> QED
        BY <3>1, <3>2 DEF Send, Unauthorized, Expire, vars
    <2> QED
      BY <1>1, <2>1, <2>2 DEF Inv, TypeOK
  <1> QED
    BY <1>1, <1>2, OtherStep

-----------------------------------------------------------------------------
(* The server.                                                             *)
LEMMA PostInv ==
  ASSUME Inv, NEW w \in Wallets, Post(w)
  PROVE  Inv'
  <1>1. /\ posted' = [posted EXCEPT ![w] = @ + 1]
        /\ unpublished' = unpublished \cup {Event(w, posted[w] + 1)}
        /\ UNCHANGED <<wallet, expired, isMounted, wsRef, reconnectTimer, socket, timers,
                       liveBalance, query, sent, isRefreshing, queue, leaving, rerun,
                       missed, reordered, owner>>
    BY DEF Post, Event, hook, client, history
  <1>2. posted \in [Wallets -> Nat] /\ unpublished \subseteq Posting
    BY DEF Inv, TypeOK
  <1>3. /\ posted' \in [Wallets -> Nat]
        /\ \A v \in Wallets : posted'[v] = IF v = w THEN posted[w] + 1 ELSE posted[v]
    BY <1>1, <1>2
  <1>4. TypeOK'
    <2>1. unpublished' \subseteq Posting
      BY <1>1, <1>2 DEF Posting, Event
    <2> QED
      BY <1>1, <1>3, <2>1 DEF Inv, TypeOK
  <1>5. Sessions'
    BY <1>1 DEF Inv, Sessions, LiveShape, Connected
  <1>6. Pending'
    BY <1>1, <1>2, <1>3 DEF Inv, Flow, Pending, Event, Posting
  <1>7. ASSUME NEW v, NEW b, Published(v, b)
        PROVE  Published(v, b)'
    <2>1. v \in Wallets /\ b \in 1..posted[v] /\ Event(v, b) \notin unpublished
      BY <1>7 DEF Published
    <2>2. b \in 1..posted'[v]
      BY <1>2, <1>3, <2>1
    <2>3. Event(v, b) # Event(w, posted[w] + 1)
      BY <1>2, <2>1 DEF Event
    <2> QED
      BY <1>1, <2>1, <2>2, <2>3 DEF Published, Event
  <1>8. ASSUME NEW v \in Wallets, NEW b \in Nat, Latest(v, b)
        PROVE  Latest(v, b)'
    <2>1. SUFFICES ASSUME NEW c \in (b + 1)..posted'[v] PROVE Event(v, c) \in unpublished'
      BY DEF Latest, Event
    <2>2. CASE c \in (b + 1)..posted[v]
      BY <1>1, <1>8, <2>2 DEF Latest
    <2>3. CASE c \notin (b + 1)..posted[v]
      <3>1. v = w /\ c = posted[w] + 1
        BY <1>2, <1>3, <2>1, <2>3
      <3> QED
        BY <1>1, <3>1
    <2> QED
      BY <2>2, <2>3
  <1>9. Received'
    BY <1>1, <1>7 DEF Inv, Flow, Received
  <1>10. InOrder'
    BY <1>1 DEF Inv, Flow, InOrder
  <1>11. Complete'
    <2>1. \A s \in Sockets : socket[s].inbox # <<>> =>
            socket[s].inbox[Len(socket[s].inbox)] \in Nat
      BY DEF Inv, TypeOK, SocketObject
    <2>2. wallet # NoWallet => wallet \in Wallets
      BY DEF Inv, TypeOK
    <2>3. owner # NoWallet => liveBalance \in Nat
      BY <1>2 DEF Inv, Flow, Received, Published
    <2> QED
      BY <1>1, <1>8, <2>1, <2>2, <2>3 DEF Inv, Flow, Complete
  <1> QED
    BY <1>4, <1>5, <1>6, <1>9, <1>10, <1>11 DEF Inv, Flow

\* One message more at the end of a queue.
Extends(r, q, b) ==
  /\ r \in Seq(Nat) /\ Len(r) = Len(q) + 1 /\ Len(q) \in Nat /\ r # <<>>
  /\ DOMAIN r = 1..(Len(q) + 1) /\ DOMAIN q = 1..Len(q)
  /\ \A i \in 1..Len(q) : r[i] = q[i] /\ r[i] \in Nat
  /\ r[Len(q) + 1] = b

LEMMA Appended ==
  ASSUME NEW q \in Seq(Nat), NEW b \in Nat, NEW r, r = Append(q, b)
  PROVE  Extends(r, q, b)
  <1>1. r \in Seq(Nat) /\ Len(r) = Len(q) + 1 /\ Len(q) \in Nat
    BY AppendProperties, LenProperties
  <1>2. DOMAIN r = 1..(Len(q) + 1) /\ DOMAIN q = 1..Len(q)
    BY <1>1, LenProperties
  <1>3. r # <<>>
    BY AppendProperties
  <1>4. \A i \in 1..Len(q) : r[i] = q[i] /\ r[i] \in Nat
    BY AppendProperties, ElementOfSeq
  <1>5. r[Len(q) + 1] = b
    BY AppendProperties
  <1> QED
    BY <1>1, <1>2, <1>3, <1>4, <1>5 DEF Extends

LEMMA PublishInv ==
  ASSUME Inv, NEW p \in unpublished, Publish(p)
  PROVE  Inv'
  <1> DEFINE w == p.wallet
             b == p.balance
  <1>1. /\ unpublished' = unpublished \ {p}
        /\ socket' = [s \in Sockets |->
             IF Listening(s, w) THEN [socket[s] EXCEPT !.inbox = Append(@, b)] ELSE socket[s]]
        /\ missed' = (missed \/ (wallet = w /\ \A s \in Sockets : ~Listening(s, wallet)))
        /\ reordered' = (reordered \/ \E c \in (b + 1)..posted[w] :
                                        [p EXCEPT !.balance = c] \notin unpublished)
        /\ UNCHANGED <<posted, wallet, expired, isMounted, wsRef, reconnectTimer, timers,
                       liveBalance, query, sent, isRefreshing, queue, leaving, rerun, owner>>
    BY DEF Publish, client
  <1>2. /\ p = Event(w, b) /\ w \in Wallets /\ b \in Nat /\ b \in 1..posted[w]
        /\ posted \in [Wallets -> Nat]
    BY DEF Inv, TypeOK, Posting, Event, Flow, Pending
  <1>3. \A c \in Nat : [p EXCEPT !.balance = c] = Event(w, c)
    BY DEF Event, Inv, TypeOK, Posting
  <1>0. \A c \in (b + 1)..posted[w] :
           Event(w, c) \notin unpublished => reordered'
    <2>1. ASSUME NEW c \in (b + 1)..posted[w], Event(w, c) \notin unpublished
          PROVE  reordered'
      <3>1. c \in Nat
        BY <1>2, <2>1
      <3>2. [p EXCEPT !.balance = c] \notin unpublished
        BY <1>3, <2>1, <3>1
      <3> QED
        BY <1>1, <3>2
    <2> QED
      BY <2>1
  <1>4. \A s \in Sockets : socket[s] \in SocketObject /\ socket[s].inbox \in Seq(Nat)
    BY DEF Inv, TypeOK, SocketObject
  <1>5. ASSUME NEW s \in Sockets, Listening(s, w)
        PROVE  /\ socket'[s] \in SocketObject
               /\ socket'[s].state = "open" /\ socket[s].state = "open"
               /\ socket'[s].wallet = w /\ socket[s].wallet = w
               /\ socket'[s].current = socket[s].current
               /\ socket'[s].inbox = Append(socket[s].inbox, b)
    <2>1. Append(socket[s].inbox, b) \in Seq(Nat)
      BY <1>2, <1>4
    <2>2. socket'[s] = [socket[s] EXCEPT !.inbox = Append(socket[s].inbox, b)]
      BY <1>1, <1>5
    <2>3. socket[s].state = "open" /\ socket[s].wallet = w
      BY <1>5 DEF Listening
    <2>4. socket[s] \in SocketObject
      BY <1>4
    <2> QED
      BY ONLY <2>1, <2>2, <2>3, <2>4 DEF SocketObject
  <1>6. \A s \in Sockets : ~Listening(s, w) => socket'[s] = socket[s]
    BY <1>1
  <1>7. ASSUME NEW s \in Sockets, Listening(s, w)
        PROVE  /\ Len(socket'[s].inbox) = Len(socket[s].inbox) + 1
               /\ Len(socket[s].inbox) \in Nat /\ socket'[s].inbox # <<>>
               /\ DOMAIN socket'[s].inbox = 1..(Len(socket[s].inbox) + 1)
               /\ DOMAIN socket[s].inbox = 1..Len(socket[s].inbox)
               /\ \A i \in 1..Len(socket[s].inbox) : socket'[s].inbox[i] = socket[s].inbox[i]
               /\ socket'[s].inbox[Len(socket[s].inbox) + 1] = b
    <2>1. socket'[s].inbox = Append(socket[s].inbox, b) /\ socket[s].inbox \in Seq(Nat)
      BY <1>4, <1>5, <1>7
    <2>2. Extends(socket'[s].inbox, socket[s].inbox, b)
      BY <1>2, <2>1, Appended
    <2> QED
      BY ONLY <2>2 DEF Extends
  <1>8. TypeOK'
    <2>1. socket' \in [Sockets -> SocketObject]
      BY <1>1, <1>4, <1>5
    <2>2. \A s \in Sockets : /\ socket'[s].state = socket[s].state
                             /\ socket'[s].current = socket[s].current
      BY <1>5, <1>6
    <2>3. missed' \in BOOLEAN /\ reordered' \in BOOLEAN
      BY <1>1 DEF Inv, TypeOK
    <2>4. unpublished' \subseteq Posting
      BY <1>1 DEF Inv, TypeOK
    <2> QED
      BY <1>1, <2>1, <2>2, <2>3, <2>4 DEF Inv, TypeOK
  <1>9. \A s \in Sockets : /\ socket'[s].state = socket[s].state
                           /\ socket'[s].wallet = socket[s].wallet
                           /\ socket'[s].current = socket[s].current
                           /\ socket'[s].inbox # <<>> =>
                                socket[s].inbox # <<>> \/ socket[s].state = "open"
    BY <1>5, <1>6
  <1>10. Sessions'
    BY <1>1, <1>9 DEF Inv, Sessions, LiveShape, Connected
  <1>11. Pending'
    BY <1>1 DEF Inv, Flow, Pending
  <1>12. \A v, c : Published(v, c) => Published(v, c)'
    BY <1>1 DEF Published, Event
  <1>13. Published(w, b)'
    <2>1. PICK v, c : v = w /\ c = b
      OBVIOUS
    <2>2. Published(v, c)'
      BY <1>1, <1>2, <2>1 DEF Published
    <2> QED
      BY <1>1, <1>2 DEF Published
  <1>14. Received'
    <2>1. ASSUME NEW s \in Sockets, NEW i \in DOMAIN socket'[s].inbox
          PROVE  Published(socket[s].wallet, socket[s].inbox[i])'
      <3>1. CASE ~Listening(s, w)
        BY <1>6, <1>12, <3>1 DEF Inv, Flow, Received
      <3>2. CASE Listening(s, w) /\ i \in 1..Len(socket[s].inbox)
        BY <1>5, <1>7, <1>12, <3>2 DEF Inv, Flow, Received
      <3>3. CASE Listening(s, w) /\ i = Len(socket[s].inbox) + 1
        <4>1. socket'[s].wallet = w /\ socket'[s].inbox[i] = b
          BY <1>5, <1>7, <3>3
        <4> QED
          BY <1>1, <1>2, <4>1 DEF Published, Event
      <3> QED
        BY <1>7, <3>1, <3>2, <3>3
    <2>2. owner' # NoWallet => Published(owner, liveBalance)'
      BY <1>1, <1>12 DEF Inv, Flow, Received
    <2> QED
      BY <2>1, <2>2 DEF Received
  \* Unless p is late, what was published for its wallet before is older.
  <1>15. ASSUME ~reordered', NEW c, Published(w, c)
         PROVE  c < b
    <2>1. c \in 1..posted[w] /\ Event(w, c) \notin unpublished
      BY <1>15 DEF Published
    <2>2. c # b
      BY <1>2, <2>1
    <2>3. c \notin (b + 1)..posted[w]
      BY <1>15, <1>0, <2>1
    <2> QED
      BY <1>2, <2>1, <2>2, <2>3
  <1>16. InOrder'
    <2>1. SUFFICES ASSUME ~rerun, ~reordered', NEW s \in Sockets
                   PROVE  /\ \A i, j \in DOMAIN socket'[s].inbox :
                               i < j => socket'[s].inbox[i] < socket'[s].inbox[j]
                          /\ owner = socket'[s].wallet =>
                               \A i \in DOMAIN socket'[s].inbox : liveBalance < socket'[s].inbox[i]
      BY <1>1 DEF InOrder
    <2>2. ~reordered
      BY <1>1, <2>1
    <2>3. CASE ~Listening(s, w)
      BY <1>6, <2>1, <2>2, <2>3 DEF Inv, Flow, InOrder
    <2>4. CASE Listening(s, w)
      <3>1. \A i \in 1..Len(socket[s].inbox) : socket[s].inbox[i] < b
        BY <1>5, <1>7, <1>15, <2>1, <2>4 DEF Inv, Flow, Received
      <3>2. owner = w => liveBalance < b
        BY <1>2, <1>15, <2>1, LiveBalanceAssumption DEF Inv, Flow, Received
      <3>3. ASSUME NEW i \in DOMAIN socket'[s].inbox, NEW j \in DOMAIN socket'[s].inbox, i < j
            PROVE  socket'[s].inbox[i] < socket'[s].inbox[j]
        <4>1. \A k, l \in 1..Len(socket[s].inbox) :
                k < l => socket[s].inbox[k] < socket[s].inbox[l]
          BY <1>7, <2>1, <2>2, <2>4 DEF Inv, Flow, InOrder
        <4>2. i \in 1..Len(socket[s].inbox) /\ Len(socket[s].inbox) \in Nat
              /\ j \in 1..(Len(socket[s].inbox) + 1)
          <5>1. /\ Len(socket[s].inbox) \in Nat
                /\ i \in 1..(Len(socket[s].inbox) + 1)
                /\ j \in 1..(Len(socket[s].inbox) + 1)
            BY <1>7, <2>4, <3>3
          <5> QED
            BY ONLY <3>3, <5>1
        <4>3. CASE j \in 1..Len(socket[s].inbox)
          BY <1>7, <2>4, <3>3, <4>1, <4>2, <4>3
        <4>4. CASE j = Len(socket[s].inbox) + 1
          BY <1>7, <2>4, <3>1, <4>2, <4>4
        <4> QED
          BY <4>2, <4>3, <4>4
      <3>4. ASSUME owner = w, NEW i \in DOMAIN socket'[s].inbox
            PROVE  liveBalance < socket'[s].inbox[i]
        <4>1. \A k \in 1..Len(socket[s].inbox) : liveBalance < socket[s].inbox[k]
          BY <1>5, <1>7, <2>1, <2>2, <2>4, <3>4 DEF Inv, Flow, InOrder
        <4>2. i \in 1..(Len(socket[s].inbox) + 1) /\ Len(socket[s].inbox) \in Nat
          BY <1>7, <2>4, <3>4
        <4>3. CASE i \in 1..Len(socket[s].inbox)
          BY <1>7, <2>4, <4>1, <4>3
        <4>4. CASE i = Len(socket[s].inbox) + 1
          BY <1>7, <2>4, <3>2, <3>4, <4>4
        <4> QED
          BY <4>2, <4>3, <4>4
      <3> QED
        BY <1>5, <2>4, <3>3, <3>4
    <2> QED
      BY <2>3, <2>4
  <1>17. ASSUME ~reordered' PROVE Latest(w, b)'
    <2>1. \A c \in (b + 1)..posted[w] : Event(w, c) \in unpublished
      BY <1>17, <1>0
    <2>2. \A c \in (b + 1)..posted[w] : Event(w, c) # p
      BY <1>2 DEF Event
    <2>3. \A c \in (b + 1)..posted[w] : Event(w, c) \in unpublished'
      BY <1>1, <2>1, <2>2
    <2> QED
      BY <1>1, <2>3 DEF Latest, Event
  <1>18. ASSUME NEW v \in Wallets \ {w}, NEW c, Latest(v, c) PROVE Latest(v, c)'
    <2>1. \A d : Event(v, d) # p
      BY <1>18 DEF Event
    <2> QED
      BY <1>1, <1>18, <2>1 DEF Latest
  <1>19. Complete'
    <2>1. CASE ~rerun /\ wallet # NoWallet /\ ~missed' /\ ~reordered' /\ wallet = w
      <3>1. PICK r \in Sockets : Listening(r, w)
        BY <1>1, <2>1
      <3>2. \A s \in Sockets : socket[s].inbox # <<>> => s = r
        BY <2>1, <3>1 DEF Inv, Sessions, Connected, Listening
      <3>3. \A s \in Sockets : socket'[s].inbox # <<>> => s = r
        BY <2>1, <1>6, <3>1, <3>2 DEF Inv, Sessions, Connected, Listening
      <3>4. socket'[r].inbox[Len(socket'[r].inbox)] = b /\ socket'[r].inbox # <<>>
        BY <1>7, <3>1
      <3> QED
        BY <1>1, <1>17, <2>1, <3>3, <3>4 DEF Complete, Latest
    <2>2. CASE ~rerun /\ wallet # NoWallet /\ ~missed' /\ ~reordered' /\ wallet # w
      <3>1. \A s \in Sockets : ~Listening(s, w)
        BY <2>2 DEF Inv, Sessions, LiveShape, Connected, Listening
      <3>2. socket' = socket
        BY <1>1, <3>1 DEF Inv, TypeOK
      <3>3. wallet \in Wallets \ {w}
        BY <2>2 DEF Inv, TypeOK
      <3> QED
        BY <1>1, <1>18, <2>2, <3>2, <3>3 DEF Inv, Flow, Complete
    <2> QED
      BY <1>1, <2>1, <2>2 DEF Complete
  <1> QED
    BY <1>8, <1>10, <1>11, <1>14, <1>16, <1>19 DEF Inv, Flow

-----------------------------------------------------------------------------
(* The session.                                                            *)
LEMMA MountInv ==
  ASSUME Inv, NEW w \in Wallets, Mount(w), wallet' = w, expired' \in BOOLEAN,
         missed' = (missed \/ (w # wallet /\ liveBalance # NoBalance)),
         UNCHANGED <<rerun, reordered, owner>>
  PROVE  Inv'
  <1>1. PICK s \in Sockets :
          /\ ~isMounted /\ socket[s].state = "new"
          /\ isMounted' = TRUE /\ wsRef' = s /\ reconnectTimer' = NoSocket
          /\ socket' = [[q \in Sockets |-> [socket[q] EXCEPT !.current = FALSE]]
                          EXCEPT ![s] = Connecting(w)]
          /\ UNCHANGED <<posted, unpublished, timers, liveBalance, query, sent,
                         isRefreshing, queue, leaving>>
    BY DEF Mount, server, client
  <1>2. w # NoWallet
    BY LiveBalanceAssumption
  <1>3. socket'[s] = Connecting(w)
    BY <1>1
  <1>4. /\ socket'[s] \in SocketObject /\ socket'[s].state = "connecting"
        /\ socket'[s].inbox = <<>> /\ socket'[s].wallet = w /\ socket'[s].current
    BY <1>3, SocketTypes
  <1>5. ASSUME NEW q \in Sockets \ {s}
        PROVE  /\ socket'[q] \in SocketObject /\ socket'[q].state = socket[q].state
               /\ socket'[q].inbox = socket[q].inbox /\ ~socket'[q].current
               /\ socket'[q].wallet = socket[q].wallet
    <2>1. socket'[q] = [socket[q] EXCEPT !.current = FALSE]
      BY <1>1, <1>5
    <2>2. socket[q] \in SocketObject
      BY DEF Inv, TypeOK
    <2> QED
      BY ONLY <2>1, <2>2 DEF SocketObject
  <1>6. ~rerun => \A q \in Sockets : ~Connected(q) /\ socket[q].inbox = <<>>
    BY <1>1 DEF Inv, Sessions, LiveShape, Connected
  <1>7. TypeOK'
    <2>1. socket' \in [Sockets -> SocketObject]
      <3>1. DOMAIN socket' = Sockets /\ \A q \in Sockets : socket'[q] \in SocketObject
        BY <1>1, <1>4, <1>5
      <3> QED
        BY <1>1, <3>1
    <2>2. timers' = {q \in Sockets : socket'[q].state = "closed"}
      BY <1>1, <1>4, <1>5 DEF Inv, TypeOK
    <2>3. missed' \in BOOLEAN
      BY DEF Inv, TypeOK
    <2> QED
      BY <1>1, <1>4, <2>1, <2>2, <2>3 DEF Inv, TypeOK
  <1>8. ~rerun => \A q \in Sockets : socket'[q].inbox = <<>>
    BY <1>4, <1>5, <1>6
  <1>9. Sessions'
    <2>1. ~rerun => \A q \in Sockets \ {s} : ~Connected(q)'
      BY <1>5, <1>6 DEF Connected
    <2>2. LiveShape(s)'
      BY <1>1, <1>2, <1>4 DEF LiveShape
    <2>3. socket'[s].state # "closing"
      BY <1>4
    <2> QED
      BY <1>5, <1>8, <2>1, <2>2, <2>3 DEF Sessions
  <1>10. Flow'
    <2>1. Pending'
      BY <1>1 DEF Inv, Flow, Pending
    <2>2. Received'
      BY <1>1, <1>4, <1>5 DEF Inv, Flow, Received, Published
    <2>3. InOrder'
      BY <1>8 DEF InOrder
    <2>4. owner # NoWallet => liveBalance # NoBalance
      BY LiveBalanceAssumption DEF Inv, TypeOK, Flow, Received, Published
    <2>5. Complete'
      <3>1. SUFFICES ASSUME ~rerun, ~missed', ~reordered, owner = w
                     PROVE  Latest(w, liveBalance)
        BY <1>1, <1>8 DEF Complete, Latest, Event
      <3>2. wallet = w /\ ~missed
        BY <1>2, <2>4, <3>1
      <3> QED
        BY <1>2, <1>6, <3>1, <3>2 DEF Inv, Flow, Complete
    <2> QED
      BY <2>1, <2>2, <2>3, <2>5 DEF Flow
  <1> QED
    BY <1>7, <1>9, <1>10 DEF Inv

\* Whoever logs in, or returns, to find no AppShell.
LEMMA LoginInv ==
  ASSUME Inv, Return \/ \E w \in Wallets : Login(w)
  PROVE  Inv'
  <1>1. CASE Return
    <2>1. wallet \in Wallets /\ Mount(wallet) /\ UNCHANGED <<wallet, expired, rerun,
                                                             missed, reordered, owner>>
      BY <1>1 DEF Return, history, Inv, TypeOK
    <2>2. expired' \in BOOLEAN /\ missed \in BOOLEAN
      BY <2>1 DEF Inv, TypeOK
    <2>3. PICK w \in Wallets : w = wallet
      BY <2>1
    <2>4. Mount(w) /\ wallet' = w
      BY <2>1, <2>3
    <2>5. missed' = (missed \/ (w # wallet /\ liveBalance # NoBalance))
      BY <2>1, <2>2, <2>3
    <2> QED
      BY <2>1, <2>2, <2>4, <2>5, MountInv
  <1>2. ASSUME NEW w \in Wallets, Login(w) PROVE Inv'
    <2>1. /\ Mount(w) /\ wallet' = w /\ expired' = FALSE
          /\ missed' = (missed \/ (w # wallet /\ liveBalance # NoBalance))
          /\ UNCHANGED <<rerun, reordered, owner>>
      BY <1>2 DEF Login, SetAuth
    <2> QED
      BY <2>1, MountInv
  <1> QED
    BY <1>1, <1>2

\* The connection that the ref names is closing, a pending timer is cleared, and the
\* other sockets are what they were.
LEMMA CleanedUp ==
  ASSUME Inv, NEW s \in Sockets
  PROVE  /\ AfterCleanup(s) \in SocketObject
         /\ AfterCleanup(s).inbox = <<>> \/ (s # wsRef /\ AfterCleanup(s) = socket[s])
         /\ s = wsRef => /\ AfterCleanup(s).state = "closing"
                         /\ AfterCleanup(s).current = socket[s].current
         /\ s # wsRef /\ s \in timers /\ s = reconnectTimer => AfterCleanup(s).state = "new"
         /\ s # wsRef /\ ~(s \in timers /\ s = reconnectTimer) => AfterCleanup(s) = socket[s]
         /\ AfterCleanup(s).state = "closed" <=> s \in timers \ {reconnectTimer}
  <1>1. socket[s] \in SocketObject /\ (s \in timers <=> socket[s].state = "closed")
    BY DEF Inv, TypeOK
  <1>2. CASE s = wsRef
    <2>1. AfterCleanup(s) = [socket[s] EXCEPT !.state = "closing", !.inbox = <<>>]
      BY <1>2 DEF AfterCleanup
    <2>2. <<>> \in Seq(Nat)
      OBVIOUS
    <2>3. s \notin timers
      BY <1>1, <1>2, LiveBalanceAssumption DEF Inv, TypeOK
    <2>4. /\ AfterCleanup(s) \in SocketObject /\ AfterCleanup(s).state = "closing"
          /\ AfterCleanup(s).inbox = <<>> /\ AfterCleanup(s).current = socket[s].current
      BY ONLY <1>1, <2>1, <2>2 DEF SocketObject
    <2> QED
      BY <1>2, <2>3, <2>4
  <1>3. CASE s # wsRef /\ s \in timers /\ s = reconnectTimer
    <2>1. AfterCleanup(s) = NewSocket
      BY <1>3 DEF AfterCleanup
    <2> QED
      BY <1>3, <2>1, SocketTypes
  <1>4. CASE s # wsRef /\ ~(s \in timers /\ s = reconnectTimer)
    <2>1. AfterCleanup(s) = socket[s]
      BY <1>4 DEF AfterCleanup
    <2> QED
      BY <1>1, <1>4, <2>1
  <1> QED
    BY <1>2, <1>3, <1>4

\* What was to be connected is so no more: nothing is live.
LEMMA UnmountInv ==
  ASSUME Inv, Unmount, wallet' \in {wallet, NoWallet}, expired' \in BOOLEAN,
         sent' \in Nat, queue' \in Nat, isRefreshing' \in BOOLEAN, leaving' \in BOOLEAN,
         UNCHANGED <<posted, unpublished, liveBalance, query, rerun, reordered, owner>>
  PROVE  Inv'
  <1>1. /\ isMounted' = FALSE /\ timers' = timers \ {reconnectTimer}
        /\ socket' = [s \in Sockets |-> AfterCleanup(s)]
        /\ missed' = (missed \/ (wsRef # NoSocket /\ socket[wsRef].inbox # <<>>))
        /\ UNCHANGED <<wsRef, reconnectTimer>>
    BY DEF Unmount, MountedAfterCleanup, Unheard
  <1>2. \A s \in Sockets : socket'[s] = AfterCleanup(s)
    BY <1>1
  <1>3. \A s \in Sockets : s \in timers <=> socket[s].state = "closed"
    BY DEF Inv, TypeOK
  <1>4. ~rerun => \A s \in Sockets :
          Connected(s) => s = wsRef \/ (s \in timers /\ s = reconnectTimer)
    BY <1>3 DEF Inv, Sessions, LiveShape
  <1>5. ~rerun => \A s \in Sockets : ~Connected(s)' /\ socket'[s].inbox = <<>>
    <2>1. SUFFICES ASSUME ~rerun, NEW s \in Sockets
                   PROVE  ~Connected(s)' /\ socket'[s].inbox = <<>>
      OBVIOUS
    <2>2. CASE s = wsRef \/ (s \in timers /\ s = reconnectTimer)
      <3>1. socket'[s].state \in {"closing", "new"}
        BY <1>2, <2>2, CleanedUp
      <3>2. socket'[s].inbox = <<>>
        <4>1. CASE AfterCleanup(s).inbox = <<>>
          BY <1>2, <4>1
        <4>2. CASE s # wsRef /\ AfterCleanup(s) = socket[s]
          BY <1>2, <1>3, <2>1, <2>2, <4>2 DEF Inv, Sessions
        <4> QED
          BY <4>1, <4>2, CleanedUp
      <3> QED
        BY <3>1, <3>2 DEF Connected
    <2>3. CASE ~(s = wsRef \/ (s \in timers /\ s = reconnectTimer))
      <3>1. socket'[s] = socket[s] /\ ~Connected(s)
        BY <1>2, <1>4, <2>1, <2>3, CleanedUp
      <3> QED
        BY <2>1, <3>1 DEF Inv, Sessions, Connected
    <2> QED
      BY <2>2, <2>3
  <1>6. TypeOK'
    <2>1. socket' \in [Sockets -> SocketObject]
      BY <1>1, CleanedUp
    <2>2. timers' = {s \in Sockets : socket'[s].state = "closed"}
      BY <1>1, <1>2, CleanedUp DEF Inv, TypeOK
    <2>3. missed' \in BOOLEAN
      BY <1>1 DEF Inv, TypeOK
    <2>4. wsRef # NoSocket => /\ socket'[wsRef].current
                              /\ socket'[wsRef].state \in {"connecting", "open", "closing"}
      BY <1>2, CleanedUp DEF Inv, TypeOK
    <2> QED
      BY <1>1, <2>1, <2>2, <2>3, <2>4 DEF Inv, TypeOK
  <1>7. Sessions'
    BY <1>1, <1>5 DEF Sessions
  <1>8. Flow'
    <2>1. Pending'
      BY DEF Inv, Flow, Pending
    <2>2. Received'
      <3>1. \A s \in Sockets : socket'[s].inbox = <<>> \/ socket'[s] = socket[s]
        BY <1>2, CleanedUp
      <3> QED
        BY <3>1 DEF Inv, Flow, Received, Published
    <2>3. InOrder'
      BY <1>5 DEF InOrder
    <2>4. Complete'
      <3>1. SUFFICES ASSUME ~rerun, wallet' = wallet, wallet # NoWallet, ~missed', ~reordered,
                            owner = wallet
                     PROVE  Latest(wallet, liveBalance)
        BY <1>5 DEF Complete, Latest
      <3>2. \A s \in Sockets : socket[s].inbox # <<>> => s = wsRef
        BY <3>1 DEF Inv, Sessions, LiveShape, Connected
      <3>3. \A s \in Sockets : socket[s].inbox = <<>>
        BY <1>1, <3>1, <3>2, LiveBalanceAssumption
      <3>4. ~missed
        BY <1>1, <3>1
      <3> QED
        BY <3>1, <3>3, <3>4 DEF Inv, Flow, Complete
    <2> QED
      BY <2>1, <2>2, <2>3, <2>4 DEF Flow
  <1> QED
    BY <1>6, <1>7, <1>8 DEF Inv

LEMMA LeaveInv ==
  ASSUME Inv, Leave
  PROVE  Inv'
  <1>1. /\ Unmount
        /\ UNCHANGED <<posted, unpublished, wallet, expired, liveBalance, query, sent,
                       isRefreshing, queue, leaving, rerun, reordered, owner>>
    BY DEF Leave, server, client
  <1>2. /\ expired' \in BOOLEAN /\ sent' \in Nat /\ queue' \in Nat
        /\ isRefreshing' \in BOOLEAN /\ leaving' \in BOOLEAN
    BY <1>1 DEF Inv, TypeOK
  <1> QED
    BY <1>1, <1>2, UnmountInv

\* The second run of the effect; of what the sockets are then for, only that what they
\* were sent was published.
LEMMA RerunInv ==
  ASSUME Inv, NEW w \in Wallets \cup {NoWallet}, Rerun(w),
         wallet' \in Wallets \cup {NoWallet}, expired' \in BOOLEAN, missed' \in BOOLEAN,
         UNCHANGED <<reordered, owner>>
  PROVE  Inv'
  <1>1. PICK s \in Sockets :
          /\ socket[s].state = "new"
          /\ wsRef' = s /\ timers' = timers \ {reconnectTimer} /\ rerun' = TRUE
          /\ socket' = [t \in Sockets |-> IF t = s THEN Connecting(w) ELSE AfterCleanup(t)]
          /\ UNCHANGED <<posted, unpublished, isMounted, reconnectTimer, liveBalance, query,
                         sent, isRefreshing, queue, leaving>>
    BY DEF Rerun, server, client
  <1>2. /\ socket'[s] \in SocketObject /\ socket'[s].state = "connecting"
        /\ socket'[s].inbox = <<>> /\ socket'[s].current
    <2>1. socket'[s] = Connecting(w)
      BY <1>1
    <2> QED
      BY <2>1, SocketTypes
  <1>3. \A t \in Sockets \ {s} : socket'[t] = AfterCleanup(t)
    BY <1>1
  <1>4. TypeOK'
    <2>1. \A t \in Sockets : socket'[t] \in SocketObject
      BY <1>2, <1>3, CleanedUp
    <2>2. socket' \in [Sockets -> SocketObject]
      BY <1>1, <2>1
    <2>3. timers' = {t \in Sockets : socket'[t].state = "closed"}
      <3>1. s \notin timers
        BY <1>1 DEF Inv, TypeOK
      <3> QED
        BY <1>1, <1>2, <1>3, <3>1, CleanedUp DEF Inv, TypeOK
    <2> QED
      BY <1>1, <1>2, <2>2, <2>3 DEF Inv, TypeOK
  <1>5. Flow'
    <2>1. Pending'
      BY <1>1 DEF Inv, Flow, Pending
    <2>2. Received'
      <3>1. \A t \in Sockets : socket'[t].inbox = <<>> \/ socket'[t] = socket[t]
        BY <1>2, <1>3, CleanedUp
      <3> QED
        BY <1>1, <3>1 DEF Inv, Flow, Received, Published
    <2> QED
      BY <1>1, <2>1, <2>2 DEF Flow, InOrder, Complete
  <1> QED
    BY <1>1, <1>4, <1>5 DEF Inv, Sessions

LEMMA RerunsInv ==
  ASSUME Inv, StrictEffects \/ \E w \in Wallets : LoginAgain(w)
  PROVE  Inv'
  <1>1. CASE StrictEffects
    <2>1. Rerun(wallet) /\ UNCHANGED <<wallet, expired, missed, reordered, owner>>
      BY <1>1 DEF StrictEffects
    <2>2. /\ wallet' \in Wallets \cup {NoWallet} /\ expired' \in BOOLEAN
          /\ missed' \in BOOLEAN /\ wallet \in Wallets \cup {NoWallet}
      BY <2>1 DEF Inv, TypeOK
    <2>3. PICK w \in Wallets \cup {NoWallet} : w = wallet
      BY <2>2
    <2>4. Rerun(w)
      BY <2>1, <2>3
    <2> QED
      BY <2>1, <2>2, <2>4, RerunInv
  <1>2. ASSUME NEW w \in Wallets, LoginAgain(w) PROVE Inv'
    <2>1. /\ Rerun(w) /\ wallet' = w /\ expired' = FALSE
          /\ missed' = (missed \/ (w # wallet /\ liveBalance # NoBalance))
          /\ UNCHANGED <<reordered, owner>>
      BY <1>2 DEF LoginAgain, SetAuth
    <2>2. missed' \in BOOLEAN
      BY <2>1 DEF Inv, TypeOK
    <2> QED
      BY <2>1, <2>2, RerunInv
  <1> QED
    BY <1>1, <1>2

LEMMA ClearAuthInv ==
  ASSUME Inv, ClearAuth, sent' \in Nat, queue' \in Nat,
         isRefreshing' \in BOOLEAN, leaving' \in BOOLEAN
  PROVE  Inv'
  <1>1. /\ wallet' = NoWallet /\ expired' = FALSE
        /\ UNCHANGED <<posted, unpublished, liveBalance, query, rerun, reordered, owner>>
    BY DEF ClearAuth, server
  <1>2. CASE Unmount
    BY <1>1, <1>2, UnmountInv
  <1>3. CASE ~isMounted /\ UNCHANGED <<isMounted, wsRef, reconnectTimer, socket, timers, missed>>
    <2>1. TypeOK'
      BY <1>1, <1>3 DEF Inv, TypeOK
    <2>2. ~rerun => \A s \in Sockets : ~Connected(s)
      BY <1>3 DEF Inv, Sessions, LiveShape
    <2>3. Sessions'
      BY <1>1, <1>3, <2>2 DEF Inv, Sessions, Connected
    <2>4. Flow'
      BY <1>1, <1>3 DEF Inv, Flow, Pending, Received, Published, InOrder, Complete
    <2> QED
      BY <2>1, <2>3, <2>4 DEF Inv
  <1> QED
    BY <1>2, <1>3 DEF ClearAuth, hook

LEMMA LogoutInv ==
  ASSUME Inv, Logout \/ RefreshFails
  PROVE  Inv'
  <1>1. CASE Logout
    <2>1. ClearAuth /\ UNCHANGED <<sent, queue, isRefreshing, leaving>>
      BY <1>1 DEF Logout, client
    <2>2. /\ sent' \in Nat /\ queue' \in Nat
          /\ isRefreshing' \in BOOLEAN /\ leaving' \in BOOLEAN
      BY <2>1 DEF Inv, TypeOK
    <2> QED
      BY <2>1, <2>2, ClearAuthInv
  <1>2. CASE RefreshFails
    <2>1. /\ isRefreshing' = FALSE /\ leaving' = TRUE /\ UNCHANGED <<sent, queue>>
      BY <1>2 DEF RefreshFails, Leaves
    <2>2. CASE ClearAuth
      <3>1. /\ sent' \in Nat /\ queue' \in Nat
            /\ isRefreshing' \in BOOLEAN /\ leaving' \in BOOLEAN
        BY <2>1 DEF Inv, TypeOK
      <3> QED
        BY <2>2, <3>1, ClearAuthInv
    <2>3. CASE UNCHANGED <<server, wallet, expired, hook, liveBalance, query, history>>
      <3>1. UNCHANGED <<posted, unpublished, wallet, expired, isMounted, wsRef,
                        reconnectTimer, socket, timers, liveBalance, query, rerun,
                        missed, reordered, owner>>
        BY <2>3 DEF server, hook, history
      <3>2. /\ sent' \in Nat /\ queue' \in Nat
            /\ isRefreshing' \in BOOLEAN /\ leaving' \in BOOLEAN
        BY <2>1 DEF Inv, TypeOK
      <3>3. TypeOK
        BY DEF Inv
      <3>4. TypeOK'
        BY ONLY <3>1, <3>2, <3>3 DEF TypeOK
      <3> QED
        BY <3>1, <3>4, OtherStep
    <2>4. ClearAuth \/ UNCHANGED <<server, wallet, expired, hook, liveBalance, query, history>>
      BY ONLY <1>2 DEF RefreshFails
    <2> QED
      BY ONLY <2>2, <2>3, <2>4
  <1> QED
    BY <1>1, <1>2

LEMMA UnloadInv ==
  ASSUME Inv, Unload
  PROVE  Inv'
  <1>1. /\ wallet' = NoWallet /\ expired' = FALSE
        /\ isMounted' = FALSE /\ wsRef' = NoSocket /\ reconnectTimer' = NoSocket
        /\ socket' = [s \in Sockets |-> NewSocket] /\ timers' = {}
        /\ liveBalance' = NoBalance
        /\ query' = [w \in Wallets |-> NoBalance]
        /\ sent' = 0 /\ isRefreshing' = FALSE /\ queue' = 0 /\ leaving' = FALSE
        /\ rerun' = FALSE /\ missed' = FALSE /\ reordered' = FALSE /\ owner' = NoWallet
        /\ UNCHANGED <<posted, unpublished>>
    BY DEF Unload, server
  <1>2. \A s \in Sockets : /\ socket'[s] = NewSocket /\ socket'[s] \in SocketObject
                           /\ socket'[s].state = "new" /\ socket'[s].inbox = <<>>
    BY <1>1, SocketTypes
  <1>3. TypeOK'
    BY <1>1, <1>2 DEF Inv, TypeOK
  <1>4. Sessions'
    BY <1>2 DEF Sessions, Connected
  <1>5. Flow'
    BY <1>1, <1>2 DEF Inv, Flow, Pending, Received, InOrder, Complete
  <1> QED
    BY <1>3, <1>4, <1>5 DEF Inv

-----------------------------------------------------------------------------
(* The socket.                                                             *)
LEMMA OpenInv ==
  ASSUME Inv, NEW s \in Sockets, Open(s)
  PROVE  Inv'
  <1>1. /\ socket[s].state = "connecting"
        /\ socket' = [socket EXCEPT ![s].state = "open"]
        /\ UNCHANGED <<posted, unpublished, wallet, expired, isMounted, wsRef,
                       reconnectTimer, timers, liveBalance, query, sent, isRefreshing,
                       queue, leaving, rerun, missed, reordered, owner>>
    BY DEF Open, server, client, history
  <1>2. socket \in [Sockets -> SocketObject]
    BY DEF Inv, TypeOK
  <1>3. /\ socket'[s] \in SocketObject /\ socket'[s].state = "open"
        /\ socket'[s].inbox = socket[s].inbox /\ socket'[s].wallet = socket[s].wallet
        /\ socket'[s].current = socket[s].current
    <2>1. socket'[s] = [socket[s] EXCEPT !.state = "open"] /\ socket[s] \in SocketObject
      BY <1>1, <1>2
    <2> QED
      BY ONLY <2>1 DEF SocketObject
  <1>4. \A q \in Sockets \ {s} : socket'[q] = socket[q]
    BY <1>1, <1>2
  <1>5. TypeOK'
    <2>1. socket' \in [Sockets -> SocketObject]
      BY <1>1, <1>2, <1>3, <1>4
    <2>2. \A q \in Sockets : socket'[q].state = "closed" <=> socket[q].state = "closed"
      BY <1>1, <1>3, <1>4
    <2>3. wsRef # NoSocket => /\ socket'[wsRef].current
                              /\ socket'[wsRef].state \in {"connecting", "open", "closing"}
      BY <1>3, <1>4 DEF Inv, TypeOK
    <2> QED
      BY <1>1, <2>1, <2>2, <2>3 DEF Inv, TypeOK
  <1>6. Sessions'
    <2>1. ~rerun => \A q \in Sockets : Connected(q)' => Connected(q) /\ LiveShape(q)'
      BY <1>1, <1>3, <1>4 DEF Inv, Sessions, LiveShape, Connected
    <2> QED
      BY <1>1, <1>3, <1>4, <2>1 DEF Inv, Sessions
  <1>7. Flow'
    BY <1>1, <1>3, <1>4, FlowFrame
  <1> QED
    BY <1>5, <1>6, <1>7 DEF Inv

LEMMA EndedInv ==
  ASSUME Inv, NEW s \in Sockets, socket[s].state \in {"connecting", "open", "closing"},
         Ended(s)
  PROVE  Inv'
  <1>1. /\ wsRef' = IF socket[s].current THEN NoSocket ELSE wsRef
        /\ missed' = (missed \/ socket[s].inbox # <<>>)
        /\ UNCHANGED <<posted, unpublished, wallet, expired, isMounted, liveBalance, query,
                       sent, isRefreshing, queue, leaving, rerun, reordered, owner>>
    BY DEF Ended, RefAfterClose, server, client
  <1>2. socket \in [Sockets -> SocketObject]
        /\ timers = {q \in Sockets : socket[q].state = "closed"}
    BY DEF Inv, TypeOK
  <1>3. \/ /\ socket[s].current /\ isMounted
           /\ socket'[s] = [socket[s] EXCEPT !.state = "closed", !.inbox = <<>>]
           /\ timers' = timers \cup {s} /\ reconnectTimer' = s
        \/ /\ ~(socket[s].current /\ isMounted)
           /\ socket'[s] = NewSocket /\ UNCHANGED <<timers, reconnectTimer>>
    BY <1>2 DEF Ended, Reconnects, Mounted
  <1>4. DOMAIN socket' = Sockets /\ \A q \in Sockets \ {s} : socket'[q] = socket[q]
    BY <1>2 DEF Ended
  <1>5. /\ socket'[s] \in SocketObject /\ socket'[s].inbox = <<>>
        /\ IF socket[s].current /\ isMounted
             THEN /\ socket'[s].state = "closed" /\ socket'[s].current
                  /\ socket'[s].wallet = socket[s].wallet
             ELSE socket'[s].state = "new"
    <2>1. CASE socket[s].current /\ isMounted
      <3>1. socket'[s] = [socket[s] EXCEPT !.state = "closed", !.inbox = <<>>]
            /\ socket[s] \in SocketObject /\ <<>> \in Seq(Nat)
        BY <1>2, <1>3, <2>1
      <3> QED
        BY ONLY <2>1, <3>1 DEF SocketObject
    <2>2. CASE ~(socket[s].current /\ isMounted)
      BY <1>3, <2>2, SocketTypes
    <2> QED
      BY <2>1, <2>2
  <1>6. TypeOK'
    <2>1. socket' \in [Sockets -> SocketObject]
      <3>1. \A q \in Sockets : socket'[q] \in SocketObject
        BY <1>2, <1>4, <1>5
      <3>2. socket' = [q \in Sockets |-> socket'[q]]
        BY <1>2 DEF Ended
      <3> QED
        BY ONLY <3>1, <3>2
    <2>2. timers' = {q \in Sockets : socket'[q].state = "closed"}
      BY <1>2, <1>3, <1>4, <1>5
    <2>3. wsRef' # NoSocket => /\ wsRef' \in Sockets \ {s} /\ socket'[wsRef'] = socket[wsRef']
                               /\ wsRef' = wsRef
      BY <1>1, <1>4 DEF Inv, TypeOK
    <2>4. wsRef' \in Sockets \cup {NoSocket} /\ reconnectTimer' \in Sockets \cup {NoSocket}
      BY <1>1, <1>3 DEF Inv, TypeOK
    <2>5. missed' \in BOOLEAN
      BY <1>1 DEF Inv, TypeOK
    <2> QED
      BY <1>1, <2>1, <2>2, <2>3, <2>4, <2>5 DEF Inv, TypeOK
  <1>7. Sessions'
    <2>1. CASE ~rerun /\ socket[s].current /\ isMounted
      <3>1. Connected(s) /\ LiveShape(s)
        BY <2>1 DEF Inv, Sessions, Connected
      <3>2. \A q \in Sockets \ {s} : ~Connected(q) /\ ~Connected(q)'
        BY <1>4, <2>1, <3>1 DEF Inv, Sessions, Connected
      <3>3. LiveShape(s)'
        BY <1>1, <1>3, <1>5, <2>1, <3>1 DEF LiveShape
      <3> QED
        BY <1>1, <1>4, <1>5, <2>1, <3>2, <3>3 DEF Inv, Sessions
    <2>2. CASE ~rerun /\ ~(socket[s].current /\ isMounted)
      <3>1. socket'[s].state = "new" /\ socket'[s].inbox = <<>>
            /\ UNCHANGED <<timers, reconnectTimer>>
        BY <1>3, <1>5, <2>2
      <3>2. \A q \in Sockets : Connected(q) => ~(socket[s].current)
        BY <2>2 DEF Inv, Sessions, LiveShape
      <3>3. \A q \in Sockets : Connected(q)' => q # s /\ Connected(q) /\ LiveShape(q)'
        BY <1>1, <1>4, <2>2, <3>1, <3>2 DEF Inv, Sessions, LiveShape, Connected
      <3> QED
        BY <1>1, <1>4, <3>1, <3>3 DEF Inv, Sessions
    <2>3. CASE rerun
      BY <1>1, <2>3 DEF Sessions
    <2> QED
      BY <2>1, <2>2, <2>3
  <1>8. Flow'
    BY <1>1, <1>4, <1>5, FlowFrame
  <1> QED
    BY <1>6, <1>7, <1>8 DEF Inv

LEMMA TimerFiresInv ==
  ASSUME Inv, NEW s \in Sockets, TimerFires(s)
  PROVE  Inv'
  <1>1. /\ timers' = timers \ {s}
        /\ UNCHANGED <<posted, unpublished, wallet, expired, isMounted, reconnectTimer,
                       liveBalance, query, sent, isRefreshing, queue, leaving, rerun,
                       missed, reordered, owner>>
    BY DEF TimerFires, server, client, history
  <1>2. /\ socket \in [Sockets -> SocketObject] /\ socket[s].state = "closed"
        /\ timers = {q \in Sockets : socket[q].state = "closed"}
    BY DEF TimerFires, Inv, TypeOK
  <1>3. CASE ~Mounted(s)
    <2>1. socket' = [socket EXCEPT ![s] = NewSocket] /\ wsRef' = wsRef
      BY <1>3 DEF TimerFires
    <2>2. socket'[s] = NewSocket /\ \A q \in Sockets \ {s} : socket'[q] = socket[q]
      BY <1>2, <2>1
    <2>3. TypeOK'
      <3>1. socket' \in [Sockets -> SocketObject]
        BY <1>2, <2>1, SocketTypes
      <3>2. timers' = {q \in Sockets : socket'[q].state = "closed"}
        BY <1>1, <1>2, <2>2, SocketTypes
      <3>3. wsRef # NoSocket => wsRef \in Sockets \ {s}
        BY <1>2 DEF Inv, TypeOK
      <3> QED
        BY <1>1, <2>1, <2>2, <3>1, <3>2, <3>3 DEF Inv, TypeOK
    <2>4. Sessions'
      <3>1. rerun
        BY <1>2, <1>3 DEF Inv, Sessions, LiveShape, Connected, Mounted
      <3> QED
        BY <1>1, <3>1 DEF Sessions
    <2>5. Flow'
      <3>1. rerun
        BY <1>2, <1>3 DEF Inv, Sessions, LiveShape, Connected, Mounted
      <3>2. Received'
        BY <1>1, <2>2, SocketTypes DEF Inv, Flow, Received, Published
      <3> QED
        BY <1>1, <3>1, <3>2 DEF Inv, Flow, Pending, InOrder, Complete
    <2> QED
      BY <2>3, <2>4, <2>5 DEF Inv
  <1>4. CASE Mounted(s)
    <2>1. socket' = [socket EXCEPT ![s] = Connecting(socket[s].wallet)] /\ wsRef' = s
      BY <1>4 DEF TimerFires
    <2>2. socket[s] \in SocketObject /\ socket[s].wallet \in Wallets \cup {NoWallet}
      BY <1>2 DEF SocketObject
    <2>3. /\ socket'[s] \in SocketObject /\ socket'[s].state = "connecting"
          /\ socket'[s].inbox = <<>> /\ socket'[s].wallet = socket[s].wallet
          /\ socket'[s].current
      <3>1. socket'[s] = Connecting(socket[s].wallet)
        BY <1>2, <2>1
      <3>2. PICK w \in Wallets \cup {NoWallet} : w = socket[s].wallet
        BY <2>2
      <3> QED
        BY <3>1, <3>2, SocketTypes
    <2>4. \A q \in Sockets \ {s} : socket'[q] = socket[q]
      BY <1>2, <2>1
    <2>5. TypeOK'
      <3>1. socket' \in [Sockets -> SocketObject]
        BY <1>2, <2>1, <2>3, <2>4
      <3>2. timers' = {q \in Sockets : socket'[q].state = "closed"}
        BY <1>1, <1>2, <2>3, <2>4
      <3> QED
        BY <1>1, <2>1, <2>3, <3>1, <3>2 DEF Inv, TypeOK
    <2>6. ~rerun => Connected(s) /\ LiveShape(s) /\ socket[s].inbox = <<>>
      BY <1>2 DEF Inv, Sessions, Connected
    <2>7. Sessions'
      <3>1. ~rerun => \A q \in Sockets \ {s} : ~Connected(q) /\ ~Connected(q)'
        BY <2>4, <2>6 DEF Inv, Sessions, Connected
      <3>2. ~rerun => LiveShape(s)'
        BY <1>1, <2>1, <2>3, <2>6 DEF LiveShape
      <3> QED
        BY <1>1, <2>3, <2>4, <3>1, <3>2 DEF Inv, Sessions
    <2>8. Flow'
      <3>1. CASE rerun
        <4>1. Received'
          BY <1>1, <2>3, <2>4 DEF Inv, Flow, Received, Published
        <4> QED
          BY <1>1, <3>1, <4>1 DEF Inv, Flow, Pending, InOrder, Complete
      <3>2. CASE ~rerun
        BY <1>1, <2>3, <2>4, <2>6, <3>2, FlowFrame
      <3> QED
        BY <3>1, <3>2
    <2> QED
      BY <2>5, <2>7, <2>8 DEF Inv
  <1> QED
    BY <1>3, <1>4

\* The first message of a queue is taken.
Shortened(r, q) ==
  /\ r \in Seq(Nat) /\ Len(q) \in Nat /\ Len(q) >= 1 /\ Len(r) = Len(q) - 1
  /\ DOMAIN r = 1..(Len(q) - 1) /\ DOMAIN q = 1..Len(q)
  /\ \A i \in 1..(Len(q) - 1) : r[i] = q[i + 1] /\ r[i] \in Nat
  /\ Head(q) = q[1] /\ q[1] \in Nat
  /\ r = <<>> <=> Len(q) = 1

LEMMA Taken ==
  ASSUME NEW q \in Seq(Nat), q # <<>>, NEW r, r = Tail(q)
  PROVE  Shortened(r, q)
  <1>1. /\ r \in Seq(Nat) /\ Len(r) = Len(q) - 1 /\ Len(q) \in Nat /\ Len(q) >= 1
        /\ Head(q) = q[1]
    BY HeadTailProperties, LenProperties, EmptySeq
  <1>2. DOMAIN r = 1..(Len(q) - 1) /\ DOMAIN q = 1..Len(q)
    BY <1>1, LenProperties
  <1>3. \A i \in 1..(Len(q) - 1) : r[i] = q[i + 1] /\ r[i] \in Nat
    BY <1>1, HeadTailProperties, ElementOfSeq
  <1>4. q[1] \in Nat
    BY <1>1, ElementOfSeq
  <1>5. r = <<>> <=> Len(q) = 1
    <2>1. r = <<>> <=> Len(r) = 0
      BY <1>1, EmptySeq
    <2>2. Len(r) = 0 <=> Len(q) = 1
      BY ONLY <1>1
    <2> QED
      BY <2>1, <2>2
  <1> QED
    BY <1>1, <1>2, <1>3, <1>4, <1>5 DEF Shortened

\* The message a tab takes, and what it leaves.
LEMMA MessageTakes ==
  ASSUME Inv, NEW s \in Sockets, Message(s)
  PROVE  /\ Shortened(socket'[s].inbox, socket[s].inbox)
         /\ socket' \in [Sockets -> SocketObject]
         /\ socket'[s].state = "open" /\ socket[s].state = "open"
         /\ socket'[s].wallet = socket[s].wallet
         /\ socket'[s].current = socket[s].current
         /\ \A q \in Sockets \ {s} : socket'[q] = socket[q]
         /\ ~rerun => /\ wallet \in Wallets /\ socket[s].wallet = wallet
                      /\ \A q \in Sockets \ {s} : socket[q].inbox = <<>>
         /\ liveBalance' = socket[s].inbox[1] /\ owner' = socket[s].wallet
         /\ UNCHANGED <<posted, unpublished, wallet, expired, isMounted, wsRef,
                        reconnectTimer, timers, query, sent, isRefreshing, queue, leaving,
                        rerun, missed, reordered>>
  <1>1. /\ socket[s].state = "open" /\ socket[s].inbox # <<>>
        /\ socket' = [socket EXCEPT ![s].inbox = Tail(@)]
        /\ liveBalance' = Head(socket[s].inbox) /\ owner' = socket[s].wallet
        /\ UNCHANGED <<posted, unpublished, wallet, expired, isMounted, wsRef,
                       reconnectTimer, timers, query, sent, isRefreshing, queue, leaving,
                       rerun, missed, reordered>>
    BY DEF Message, LiveAfter, server, client
  <1>2. socket \in [Sockets -> SocketObject] /\ socket[s].inbox \in Seq(Nat)
        /\ socket[s] \in SocketObject
    BY DEF Inv, TypeOK, SocketObject
  <1>3. ~rerun => /\ wallet \in Wallets /\ socket[s].wallet = wallet
                  /\ \A q \in Sockets \ {s} : ~Connected(q) /\ socket[q].inbox = <<>>
    BY <1>1 DEF Inv, TypeOK, Sessions, LiveShape, Connected
  <1>4. Tail(socket[s].inbox) \in Seq(Nat)
    BY <1>1, <1>2
  <1>5. /\ socket'[s].state = "open" /\ socket'[s].wallet = socket[s].wallet
        /\ socket'[s].current = socket[s].current /\ socket'[s] \in SocketObject
        /\ socket'[s].inbox = Tail(socket[s].inbox)
    <2>1. socket'[s] = [socket[s] EXCEPT !.inbox = Tail(socket[s].inbox)]
      BY <1>1, <1>2
    <2> QED
      BY ONLY <1>1, <1>2, <1>4, <2>1 DEF SocketObject
  <1>6. Shortened(socket'[s].inbox, socket[s].inbox)
    BY <1>1, <1>2, <1>5, Taken
  <1>7. socket' \in [Sockets -> SocketObject]
    BY <1>1, <1>2, <1>5
  <1>8. liveBalance' = socket[s].inbox[1]
    BY <1>1, <1>6 DEF Shortened
  <1> QED
    BY <1>1, <1>2, <1>3, <1>5, <1>6, <1>7, <1>8

LEMMA MessageInv ==
  ASSUME Inv, NEW s \in Sockets, Message(s)
  PROVE  Inv'
  <1> DEFINE q == socket[s].inbox
             r == socket'[s].inbox
  <1>1. /\ Shortened(r, q)
        /\ socket' \in [Sockets -> SocketObject]
        /\ socket'[s].state = "open" /\ socket[s].state = "open"
        /\ socket'[s].wallet = socket[s].wallet
        /\ socket'[s].current = socket[s].current
        /\ \A t \in Sockets \ {s} : socket'[t] = socket[t]
        /\ ~rerun => /\ wallet \in Wallets /\ socket[s].wallet = wallet
                     /\ \A t \in Sockets \ {s} : socket[t].inbox = <<>>
        /\ liveBalance' = q[1] /\ owner' = socket[s].wallet
        /\ UNCHANGED <<posted, unpublished, wallet, expired, isMounted, wsRef,
                       reconnectTimer, timers, query, sent, isRefreshing, queue, leaving,
                       rerun, missed, reordered>>
    BY MessageTakes
  <1>2. /\ Len(q) \in Nat /\ Len(q) >= 1 /\ Len(r) = Len(q) - 1
        /\ DOMAIN r = 1..(Len(q) - 1) /\ DOMAIN q = 1..Len(q)
        /\ \A i \in 1..(Len(q) - 1) : r[i] = q[i + 1] /\ r[i] \in Nat
        /\ q[1] \in Nat
        /\ r = <<>> <=> Len(q) = 1
    BY ONLY <1>1 DEF Shortened
  <1>3. TypeOK'
    <2>1. \A t \in Sockets : /\ socket'[t].state = socket[t].state
                             /\ socket'[t].current = socket[t].current
      BY <1>1
    <2>2. owner' \in Wallets \cup {NoWallet}
      BY <1>1 DEF Inv, TypeOK, SocketObject
    <2> QED
      BY <1>1, <1>2, <2>1, <2>2 DEF Inv, TypeOK
  <1>4. Sessions'
    <2>1. \A t \in Sockets : /\ socket'[t].state = socket[t].state
                             /\ socket'[t].current = socket[t].current
                             /\ socket'[t].wallet = socket[t].wallet
      BY <1>1
    <2> QED
      BY <1>1, <2>1 DEF Inv, Sessions, LiveShape, Connected
  <1>5. Pending'
    BY <1>1 DEF Inv, Flow, Pending
  <1>6. \A i \in 1..Len(q) : Published(socket[s].wallet, q[i])
    BY <1>1, <1>2 DEF Inv, Flow, Received
  <1>7. Received'
    <2>1. ASSUME NEW t \in Sockets, NEW i \in DOMAIN socket'[t].inbox
          PROVE  Published(socket[t].wallet, socket[t].inbox[i])'
      <3>1. CASE t = s
        <4>1. i + 1 \in 1..Len(q) /\ r[i] = q[i + 1]
          <5>1. i \in 1..(Len(q) - 1)
            BY <1>2, <2>1, <3>1
          <5>2. i + 1 \in 1..Len(q)
            BY ONLY <1>2, <5>1
          <5> QED
            BY <1>2, <5>1, <5>2
        <4>2. Published(socket[s].wallet, q[i + 1])
          BY <1>6, <4>1
        <4> QED
          BY <1>1, <3>1, <4>1, <4>2 DEF Published, Event
      <3>2. CASE t # s
        BY <1>1, <2>1, <3>2 DEF Inv, Flow, Received, Published, Event
      <3> QED
        BY <3>1, <3>2
    <2>2. Published(owner, liveBalance)'
      <3>1. Published(socket[s].wallet, q[1])
        BY <1>2, <1>6
      <3> QED
        BY <1>1, <3>1 DEF Published, Event
    <2> QED
      BY <2>1, <2>2 DEF Received
  <1>8. InOrder'
    <2>1. SUFFICES ASSUME ~rerun, ~reordered, NEW t \in Sockets
                   PROVE  /\ \A i, j \in DOMAIN socket'[t].inbox :
                               i < j => socket'[t].inbox[i] < socket'[t].inbox[j]
                          /\ owner' = socket'[t].wallet =>
                               \A i \in DOMAIN socket'[t].inbox : liveBalance' < socket'[t].inbox[i]
      BY <1>1 DEF InOrder
    <2>2. CASE t # s
      <3>1. DOMAIN socket'[t].inbox = {}
        BY <1>1, <2>1, <2>2
      <3> QED
        BY <3>1
    <2>3. CASE t = s
      <3>1. \A i, j \in 1..Len(q) : i < j => q[i] < q[j]
        BY <1>2, <2>1 DEF Inv, Flow, InOrder
      <3>2. ASSUME NEW i \in 1..(Len(q) - 1), NEW j \in 1..(Len(q) - 1), i < j
            PROVE  r[i] < r[j]
        <4>1. i + 1 \in 1..Len(q) /\ j + 1 \in 1..Len(q) /\ i + 1 < j + 1
          BY <1>2, <3>2
        <4> QED
          BY <1>2, <3>1, <4>1
      <3>3. ASSUME NEW i \in 1..(Len(q) - 1)
            PROVE  q[1] < r[i]
        <4>1. i + 1 \in 1..Len(q) /\ 1 \in 1..Len(q) /\ 1 < i + 1
          BY <1>2
        <4> QED
          BY <1>2, <3>1, <4>1
      <3> QED
        BY <1>1, <1>2, <2>3, <3>2, <3>3
    <2> QED
      BY <2>2, <2>3
  <1>9. Complete'
    <2>1. SUFFICES ASSUME ~rerun, ~missed, ~reordered
                   PROVE  /\ \A t \in Sockets : socket'[t].inbox # <<>> =>
                               Latest(wallet, socket'[t].inbox[Len(socket'[t].inbox)])
                          /\ (\A t \in Sockets : socket'[t].inbox = <<>>) =>
                               Latest(wallet, liveBalance')
      BY <1>1 DEF Complete, Latest, Event
    <2>2. q # <<>> /\ wallet # NoWallet
      BY <1>1, <1>2, <2>1, LiveBalanceAssumption
    <2>3. Latest(wallet, q[Len(q)])
      BY <1>1, <2>1, <2>2 DEF Inv, Flow, Complete
    <2>4. ASSUME NEW t \in Sockets, socket'[t].inbox # <<>>
          PROVE  Latest(wallet, socket'[t].inbox[Len(socket'[t].inbox)])
      <3>1. t = s
        BY <1>1, <2>1, <2>4
      <3>2. Len(r) = Len(q) - 1 /\ Len(r) \in 1..(Len(q) - 1)
        BY <1>2, <2>4, <3>1
      <3>3. r[Len(r)] = q[Len(q)]
        <4>1. PICK k \in 1..(Len(q) - 1) : k = Len(r)
          BY <3>2
        <4>2. k + 1 = Len(q)
          BY <1>2, <3>2, <4>1
        <4>3. r[k] = q[k + 1]
          BY <1>2
        <4> QED
          BY <4>1, <4>2, <4>3
      <3> QED
        BY <2>3, <3>1, <3>3
    <2>5. ASSUME \A t \in Sockets : socket'[t].inbox = <<>>
          PROVE  Latest(wallet, liveBalance')
      BY <1>1, <1>2, <2>3, <2>5
    <2> QED
      BY <2>4, <2>5
  <1> QED
    BY <1>3, <1>4, <1>5, <1>7, <1>8, <1>9 DEF Inv, Flow

-----------------------------------------------------------------------------
LEMMA InvInit ==
  ASSUME Init
  PROVE  Inv
  <1> USE DEF Init, Blank
  <1>1. \A s \in Sockets : /\ socket[s] = NewSocket /\ socket[s] \in SocketObject
                           /\ socket[s].state = "new" /\ socket[s].inbox = <<>>
    BY SocketTypes
  <1>2. TypeOK
    BY <1>1 DEF TypeOK
  <1>3. Sessions
    BY <1>1 DEF Sessions, Connected
  <1>4. Flow
    BY <1>1 DEF Flow, Pending, Received, InOrder, Complete
  <1> QED
    BY <1>2, <1>3, <1>4 DEF Inv

LEMMA InvNext ==
  ASSUME Inv, [Next]_vars
  PROVE  Inv'
  <1>1. ASSUME NEW w \in Wallets, Post(w) PROVE Inv'
    BY <1>1, PostInv
  <1>2. CASE Return \/ \E w \in Wallets : Login(w)
    BY <1>2, LoginInv
  <1>3. ASSUME NEW p \in unpublished, Publish(p) PROVE Inv'
    BY <1>3, PublishInv
  <1>4. ASSUME NEW s \in Sockets, Open(s) PROVE Inv'
    BY <1>4, OpenInv
  <1>5. ASSUME NEW s \in Sockets, Refuse(s) \/ Close(s) PROVE Inv'
    BY <1>5, EndedInv DEF Refuse, Close
  <1>6. ASSUME NEW s \in Sockets, TimerFires(s) PROVE Inv'
    BY <1>6, TimerFiresInv
  <1>7. ASSUME NEW s \in Sockets, Message(s) PROVE Inv'
    BY <1>7, MessageInv
  <1>8. CASE Send \/ Unauthorized \/ Expire \/ Fetched \/ UNCHANGED vars
    BY <1>8, ClientInv
  <1>9. CASE Logout \/ RefreshFails
    BY <1>9, LogoutInv
  <1>10. CASE Unload
    BY <1>10, UnloadInv
  <1>11. CASE Leave
    BY <1>11, LeaveInv
  <1>12. CASE StrictEffects \/ \E w \in Wallets : LoginAgain(w)
    BY <1>12, RerunsInv
  <1> QED
    BY <1>1, <1>2, <1>3, <1>4, <1>5, <1>6, <1>7, <1>8, <1>9, <1>10, <1>11, <1>12 DEF Next

LEMMA Invariance == Spec => []Inv
  <1>1. Init => Inv
    BY InvInit
  <1>2. Inv /\ [Next]_vars => Inv'
    BY InvNext
  <1> QED
    BY <1>1, <1>2, PTL DEF Spec

-----------------------------------------------------------------------------
\* Whatever the order of logins, logouts, closes, timers and reloads, the ref of the
\* hook never names a socket that has ended, and a pending reconnect always belongs
\* to one that has.
THEOREM LiveBalanceTypeInvariant == Spec => []TypeOK
  <1>1. Inv => TypeOK
    BY DEF Inv
  <1> QED
    BY <1>1, Invariance, PTL

\* useWebSocket never has two connections, or a connection and a pending reconnect,
\* and never one of a user who has logged out or left the pages of AppShell, unless its
\* effect was run again on the same refs.
THEOREM OneConnectionInvariant == Spec => []OneConnection
  <1>1. ASSUME Inv, ~rerun
        PROVE  Cardinality(Live) <= 1 /\ \A s \in Live : isMounted /\ socket[s].wallet = wallet
    <2>1. \A s \in Live : s \in Sockets /\ Connected(s)
      BY <1>1 DEF Live, Connected, Inv, TypeOK
    <2>2. \A s \in Live : isMounted /\ socket[s].wallet = wallet
      BY <1>1, <2>1 DEF Inv, Sessions, LiveShape
    <2>3. Cardinality(Live) <= 1
      <3>1. CASE Live = {}
        BY <3>1, FS_EmptySet
      <3>2. CASE Live # {}
        <4>1. PICK s \in Live : TRUE
          BY <3>2
        <4>2. Live = {s}
          BY <1>1, <2>1 DEF Inv, Sessions
        <4>3. Cardinality({s}) = 1
          BY FS_Singleton
        <4> QED
          BY ONLY <4>2, <4>3
      <3> QED
        BY <3>1, <3>2
    <2> QED
      BY <2>2, <2>3
  <1>2. Inv => OneConnection
    BY <1>1 DEF OneConnection
  <1> QED
    BY <1>2, Invariance, PTL

\* What useBalance shows of a wallet's events is its balance in the database, as
\* long as the tab missed none and none overtook another.
THEOREM LiveIsCurrentInvariant == Spec => []LiveIsCurrent
  <1>1. ASSUME Inv PROVE LiveIsCurrent
    <2>1. SUFFICES ASSUME wallet # NoWallet, Quiet, ~rerun, ~missed, ~reordered, owner = wallet
                   PROVE  balanceCents = posted[wallet]
      BY DEF LiveIsCurrent
    <2>2. wallet \in Wallets /\ posted[wallet] \in Nat
      BY <1>1, <2>1 DEF Inv, TypeOK
    <2>3. liveBalance \in 1..posted[wallet]
      BY <1>1, <2>1 DEF Inv, Flow, Received, Published
    <2>4. \A c \in (liveBalance + 1)..posted[wallet] : Event(wallet, c) \in unpublished
      BY <1>1, <2>1 DEF Inv, Flow, Complete, Latest, Quiet
    <2>5. \A c : Event(wallet, c) \notin unpublished
      BY <2>1 DEF Quiet, Event
    <2>6. liveBalance = posted[wallet]
      BY <2>2, <2>3, <2>4, <2>5
    <2>7. liveBalance # NoBalance
      BY <2>2, <2>3, LiveBalanceAssumption
    <2> QED
      BY <2>6, <2>7 DEF balanceCents
  <1> QED
    BY <1>1, Invariance, PTL

\* Once a user was shown a balance of his from an event, no answer of the API, no
\* reconnect and no later event that comes in order takes him back behind it.
THEOREM NoFlickerTheorem == Spec => NoFlicker
  <1>1. ASSUME Inv, [Next]_vars, owner = wallet, wallet # NoWallet, wallet' = wallet,
               ~reordered', ~rerun'
        PROVE  balanceCents' >= balanceCents
    <2>1. liveBalance \in Nat /\ liveBalance # NoBalance
      BY <1>1, LiveBalanceAssumption DEF Inv, TypeOK, Flow, Received, Published
    <2>2. CASE liveBalance' = liveBalance
      BY <2>1, <2>2 DEF balanceCents
    <2>3. ASSUME NEW s \in Sockets, Message(s)
          PROVE  balanceCents' >= balanceCents
      <3>1. /\ socket[s].wallet = wallet /\ liveBalance' = socket[s].inbox[1]
            /\ Shortened(socket'[s].inbox, socket[s].inbox) /\ ~reordered
            /\ ~rerun /\ owner = socket[s].wallet
        BY <1>1, <2>3, MessageTakes
      <3>2. 1 \in DOMAIN socket[s].inbox /\ socket[s].inbox[1] \in Nat
        BY ONLY <3>1 DEF Shortened
      <3>3. liveBalance < liveBalance' /\ liveBalance' \in Nat
        BY <1>1, <3>1, <3>2 DEF Inv, Flow, InOrder
      <3> QED
        BY <2>1, <3>3, LiveBalanceAssumption DEF balanceCents
    <2>4. Unload => wallet' = NoWallet
      BY DEF Unload
    <2>5. \A w \in Wallets : Post(w) \/ Login(w) \/ LoginAgain(w) => liveBalance' = liveBalance
      BY DEF Post, Login, Mount, LoginAgain, Rerun
    <2>6. \A p \in unpublished : Publish(p) => liveBalance' = liveBalance
      BY DEF Publish
    <2>7. \A s \in Sockets : Open(s) \/ Refuse(s) \/ Close(s) \/ TimerFires(s) =>
                               liveBalance' = liveBalance
      BY DEF Open, Refuse, Close, Ended, TimerFires
    <2>8. Send \/ Unauthorized \/ RefreshFails \/ Expire \/ Logout \/ Fetched
            \/ UNCHANGED vars => liveBalance' = liveBalance
      BY DEF Send, Unauthorized, RefreshFails, Expire, Logout, Fetched, ClearAuth, vars
    <2>9. Return \/ Leave \/ StrictEffects => liveBalance' = liveBalance
      BY DEF Return, Mount, Leave, StrictEffects, Rerun
    <2> QED
      BY <1>1, <2>2, <2>3, <2>4, <2>5, <2>6, <2>7, <2>8, <2>9 DEF Next
  <1>2. Inv /\ [Next]_vars =>
          [(owner = wallet /\ wallet # NoWallet /\ wallet' = wallet /\ ~reordered' /\ ~rerun')
             => balanceCents' >= balanceCents]_vars
    BY <1>1
  <1> QED
    BY <1>2, Invariance, PTL DEF Spec, NoFlicker
=============================================================================
