---------------------------- MODULE WebSocketHub ----------------------------
(***************************************************************************)
(* internal/websocket: the hub of each server, its connections with their   *)
(* two pumps, and the Redis channel that joins the servers.                 *)
(*                                                                          *)
(* A client is one connection (one that reconnects is another client) and   *)
(* an event one call of Publish.  Goroutines interleave at every operation  *)
(* on a channel and at every section under the hub's lock.  A send on a     *)
(* closed channel panics: in the subscriber that ends the process, in a     *)
(* request it ends the request (chi's Recoverer).                           *)
(***************************************************************************)
EXTENDS Naturals, Sequences, SequencesExt

CONSTANTS
  Servers, Clients, Events, Wallets,
  ServerOf,        \* the server a client connects to
  WalletOf,        \* the wallet id in its token
  RoomOf,          \* the wallet an event is published for
  Scenarios,       \* what a behaviour may start with, see Scenario
  channelBuffer,   \* 16
  sendBufferSize,  \* 32
  NoEvent

ASSUME HubAssumption ==
  /\ ServerOf \in [Clients -> Servers] /\ WalletOf \in [Clients -> Wallets]
  /\ RoomOf \in [Events -> Wallets]
  /\ channelBuffer \in Nat \ {0} /\ sendBufferSize \in Nat \ {0}
  /\ NoEvent \notin Events
  /\ Servers \cap Events = {}

\* events: those that may be published.  named: those whose wallet_id is set (a
\* merchant's payment event has none).  clients: those that may connect.
\* leavers: those that may go.  redisFails: Redis may fail.
Scenario ==
  [events: SUBSET Events, named: SUBSET Events, clients: SUBSET Clients,
   leavers: SUBSET Clients, redisFails: BOOLEAN]

ASSUME ScenarioAssumption == Scenarios \subseteq Scenario

VARIABLES
  rooms,       \* the clients in the rooms of each server
  register,    \* the two channels to Run
  unregister,
  reader,      \* readPump of each client
  writer,      \* writePump of each client
  open,        \* whether the connection is up
  send,        \* the queue of each client
  closed,      \* the clients whose queue is closed
  received,    \* what each browser was sent
  inbox,       \* messages on the way from Redis to each subscriber
  subscribed,  \* the servers whose subscriber runs
  broadcast,   \* the broadcast of each subscriber and each request
  published,   \* the events Publish was called with
  crashed,     \* the servers that died of a panic
  scenario,    \* of this behaviour
  due,         \* history: the events Redis took while the client was in a room
  dropped      \* history: those its full queue refused

connection == <<reader, writer, open>>
vars == <<rooms, register, unregister, connection, send, closed, received, inbox,
          subscribed, broadcast, published, crashed, scenario, due,
          dropped>>

Broadcasters == Servers \cup Events  \* a fallback broadcast runs in the request
Idle == [event |-> NoEvent, targets |-> {}]

Init ==
  /\ rooms = [s \in Servers |-> {}]
  /\ register = [s \in Servers |-> <<>>]
  /\ unregister = [s \in Servers |-> <<>>]
  /\ reader = [c \in Clients |-> "start"]
  /\ writer = [c \in Clients |-> "start"]
  /\ open = [c \in Clients |-> FALSE]
  /\ send = [c \in Clients |-> <<>>]
  /\ closed = {}
  /\ received = [c \in Clients |-> <<>>]
  /\ inbox = [s \in Servers |-> <<>>]
  /\ subscribed = Servers
  /\ broadcast = [t \in Broadcasters |-> Idle]
  /\ published = {}
  /\ crashed = {}
  /\ scenario \in Scenarios
  /\ due = [c \in Clients |-> {}]
  /\ dropped = [c \in Clients |-> {}]

Up(s) == s \notin crashed

-----------------------------------------------------------------------------
(* Connections.                                                            *)
\* register <- c, which waits for room in the channel; the pumps start.
ServeWS(c) ==
  LET s == ServerOf[c]
  IN /\ Up(s) /\ c \in scenario.clients /\ reader[c] = "start"
     /\ Len(register[s]) < channelBuffer
     /\ register' = [register EXCEPT ![s] = Append(@, c)]
     /\ reader' = [reader EXCEPT ![c] = "reading"]
     /\ writer' = [writer EXCEPT ![c] = "writing"]
     /\ open' = [open EXCEPT ![c] = TRUE]
     /\ UNCHANGED <<rooms, unregister, send, closed, received, inbox, subscribed,
                    broadcast, published, crashed, scenario, due, dropped>>

\* The browser goes, or stops to answer pings.
Disconnect(c) ==
  /\ open[c] /\ c \in scenario.leavers
  /\ open' = [open EXCEPT ![c] = FALSE]
  /\ UNCHANGED <<rooms, register, unregister, reader, writer, send, closed, received,
                 inbox, subscribed, broadcast, published, crashed, scenario, due,
                 dropped>>

\* ReadMessage fails; unregister <- c waits for room in the channel.
ReadPumpReturns(c) ==
  LET s == ServerOf[c]
  IN /\ Up(s) /\ reader[c] = "reading" /\ ~open[c]
     /\ Len(unregister[s]) < channelBuffer
     /\ unregister' = [unregister EXCEPT ![s] = Append(@, c)]
     /\ reader' = [reader EXCEPT ![c] = "done"]
     /\ UNCHANGED <<rooms, register, writer, open, send, closed, received, inbox,
                    subscribed, broadcast, published, crashed, scenario, due,
                    dropped>>

\* writePump takes a message; on a connection that is down the write fails.
WriteMessage(c) ==
  /\ Up(ServerOf[c]) /\ writer[c] = "writing" /\ send[c] # <<>>
  /\ send' = [send EXCEPT ![c] = Tail(@)]
  /\ \/ open[c] /\ received' = [received EXCEPT ![c] = Append(@, Head(send[c]))]
                /\ UNCHANGED writer
     \/ ~open[c] /\ writer' = [writer EXCEPT ![c] = "done"] /\ UNCHANGED received
  /\ UNCHANGED <<rooms, register, unregister, reader, open, closed, inbox, subscribed,
                 broadcast, published, crashed, scenario, due, dropped>>

\* writePump finds its queue closed and drained, or its ping fails.
WritePumpReturns(c) ==
  /\ Up(ServerOf[c]) /\ writer[c] = "writing"
  /\ (c \in closed /\ send[c] = <<>>) \/ ~open[c]
  /\ writer' = [writer EXCEPT ![c] = "done"]
  /\ open' = [open EXCEPT ![c] = FALSE]
  /\ UNCHANGED <<rooms, register, unregister, reader, send, closed, received, inbox,
                 subscribed, broadcast, published, crashed, scenario, due, dropped>>

-----------------------------------------------------------------------------
(* Run takes from either channel, in any order.                            *)
RunRegister(s) ==
  /\ Up(s) /\ register[s] # <<>>
  /\ rooms' = [rooms EXCEPT ![s] = @ \cup {Head(register[s])}]
  /\ register' = [register EXCEPT ![s] = Tail(@)]
  /\ UNCHANGED <<unregister, connection, send, closed, received, inbox, subscribed,
                 broadcast, published, crashed, scenario, due, dropped>>

\* (wrong) a room keeps its last client.
Without_KeepsLast(room, c) == IF room = {c} THEN room ELSE room \ {c}

Without(room, c) == room \ {c}

RunUnregister(s) ==
  LET c == Head(unregister[s])
  IN /\ Up(s) /\ unregister[s] # <<>>
     /\ unregister' = [unregister EXCEPT ![s] = Tail(@)]
     /\ \/ /\ c \in rooms[s]
           /\ rooms' = [rooms EXCEPT ![s] = Without(@, c)]
           /\ closed' = closed \cup {c}
        \/ /\ c \notin rooms[s]
           /\ UNCHANGED <<rooms, closed>>
     /\ UNCHANGED <<register, connection, send, received, inbox, subscribed, broadcast,
                    published, crashed, scenario, due, dropped>>

-----------------------------------------------------------------------------
(* Events.                                                                 *)
\* The first half of broadcast: the room is copied under the lock.
Room(s, w) == {c \in rooms[s] : WalletOf[c] = w}

\* What the subscriber finds by the wallet_id in the event.
NamedRoom(s, e) == IF e \in scenario.named THEN Room(s, RoomOf[e]) ELSE {}

Start(e, targets) == IF targets = {} THEN Idle ELSE [event |-> e, targets |-> targets]

\* (wrong) the server that publishes also delivers itself.
LocalTargets_Always(s, e, accepted) == Room(s, RoomOf[e])

\* Whom Publish itself delivers to: nobody, unless Redis reported an error.
LocalTargets(s, e, reported) ==
  IF reported THEN Room(s, RoomOf[e]) ELSE {}

\* Redis hands a message to every subscriber; a Redis that fails may lose it for
\* some, and may report an error although it took the message.
Publish(e, s) ==
  \E reached \in SUBSET Servers, reported \in BOOLEAN :
    /\ Up(s) /\ e \in scenario.events \ published
    /\ published' = published \cup {e}
    /\ ~scenario.redisFails => reached = Servers /\ ~reported
    /\ inbox' = [r \in Servers |->
                   IF r \in reached THEN Append(inbox[r], e) ELSE inbox[r]]
    /\ broadcast' = [broadcast EXCEPT ![e] = Start(e, LocalTargets(s, e, reported))]
    /\ due' = [c \in Clients |->
                 IF ServerOf[c] \in reached /\ c \in NamedRoom(ServerOf[c], e)
                   THEN due[c] \cup {e} ELSE due[c]]
    /\ UNCHANGED <<rooms, register, unregister, connection, send, closed, received,
                   subscribed, crashed, scenario, dropped>>

\* (wrong) the subscriber returns on an event it cannot route.
StillSubscribed_Returns(s, e) ==
  IF e \notin scenario.named THEN subscribed \ {s} ELSE subscribed

StillSubscribed(s, e) == subscribed

\* runRedisSubscriber: an event without a wallet id is passed over.
Receive(s) ==
  LET e == Head(inbox[s])
  IN /\ Up(s) /\ s \in subscribed
     /\ broadcast[s] = Idle /\ inbox[s] # <<>>
     /\ inbox' = [inbox EXCEPT ![s] = Tail(@)]
     /\ broadcast' = [broadcast EXCEPT ![s] = Start(e, NamedRoom(s, e))]
     /\ subscribed' = StillSubscribed(s, e)
     /\ UNCHANGED <<rooms, register, unregister, connection, send, closed, received,
                    published, crashed, scenario, due, dropped>>

\* (wrong) a queue takes one event more.
Fits_OneMore(c) == Len(send[c]) <= sendBufferSize

Fits(c) == Len(send[c]) < sendBufferSize

\* The second half of broadcast, outside the lock: one client after the other.
SendTo(t, c) ==
  LET e == broadcast[t].event
  IN /\ Up(ServerOf[c]) /\ c \in broadcast[t].targets /\ c \notin closed
     /\ broadcast' = [broadcast EXCEPT ![t] = Start(e, @.targets \ {c})]
     /\ \/ /\ Fits(c)
           /\ send' = [send EXCEPT ![c] = Append(@, e)]
           /\ UNCHANGED dropped
        \/ /\ ~Fits(c)
           /\ dropped' = [dropped EXCEPT ![c] = @ \cup {e}]
           /\ UNCHANGED send
     /\ UNCHANGED <<rooms, register, unregister, connection, closed, received, inbox,
                    subscribed, published, crashed, scenario, due>>

\* c left between the two halves: the send panics.
SendToClosed(t, c) ==
  LET s == ServerOf[c]
  IN /\ Up(s) /\ c \in broadcast[t].targets /\ c \in closed
     /\ broadcast' = [broadcast EXCEPT ![t] = Idle]
     /\ \/ /\ t \in Servers
           /\ crashed' = crashed \cup {s}
           /\ open' = [d \in Clients |-> open[d] /\ ServerOf[d] # s]
        \/ t \in Events /\ UNCHANGED <<crashed, open>>
     /\ UNCHANGED <<rooms, register, unregister, reader, writer, send, closed, received,
                    inbox, subscribed, published, scenario, due, dropped>>

Broadcast(t) == \E c \in Clients : SendTo(t, c) \/ SendToClosed(t, c)

Next ==
  \/ \E t \in Broadcasters : Broadcast(t)
  \/ \E c \in Clients :
       \/ ServeWS(c) \/ Disconnect(c) \/ ReadPumpReturns(c)
       \/ WriteMessage(c) \/ WritePumpReturns(c)
  \/ \E s \in Servers :
       \/ RunRegister(s) \/ RunUnregister(s) \/ Receive(s)
       \/ \E e \in Events : Publish(e, s)

\* One condition for each goroutine: it is run as long as it can.  Run's select takes
\* from a channel that stays ready in the end, so it has one for each channel.
\* Nobody has to connect, to leave or to publish.
Fairness ==
  /\ \A c \in Clients :
       WF_vars(ReadPumpReturns(c)) /\ WF_vars(WriteMessage(c) \/ WritePumpReturns(c))
  /\ \A s \in Servers :
       /\ WF_vars(RunRegister(s)) /\ WF_vars(RunUnregister(s))
       /\ WF_vars(Receive(s) \/ Broadcast(s))
  /\ \A e \in Events : WF_vars(Broadcast(e))

Spec == Init /\ [][Next]_vars /\ Fairness

-----------------------------------------------------------------------------
\* Types, among them that no queue and no channel holds more than its buffer.
TypeOK ==
  /\ rooms \in [Servers -> SUBSET Clients]
  /\ \A s \in Servers :
       /\ register[s] \in Seq(Clients) /\ Len(register[s]) <= channelBuffer
       /\ unregister[s] \in Seq(Clients) /\ Len(unregister[s]) <= channelBuffer
       /\ inbox[s] \in Seq(Events)
  /\ reader \in [Clients -> {"start", "reading", "done"}]
  /\ writer \in [Clients -> {"start", "writing", "done"}]
  /\ open \in [Clients -> BOOLEAN]
  /\ \A c \in Clients :
       /\ send[c] \in Seq(Events) /\ Len(send[c]) <= sendBufferSize
       /\ received[c] \in Seq(Events)
  /\ closed \subseteq Clients
  /\ broadcast \in [Broadcasters -> [event: Events \cup {NoEvent},
                                     targets: SUBSET Clients]]
  /\ published \subseteq Events
  /\ subscribed \subseteq Servers /\ crashed \subseteq Servers
  /\ scenario \in Scenario
  /\ due \in [Clients -> SUBSET Events] /\ dropped \in [Clients -> SUBSET Events]

\* "On success: do NOT also broadcast locally" (hub.go): while Redis works, no
\* browser is sent an event twice, and none another wallet's.
AtMostOnce ==
  ~scenario.redisFails => \A c \in Clients :
    /\ IsInjective(received[c])
    /\ \A i \in DOMAIN received[c] : RoomOf[received[c][i]] = WalletOf[c]

\* While Redis works, two browsers, of one server or of two, never see two events
\* in opposite orders, whatever either of them drops: the last of the balances in
\* the events is the same everywhere.
SameOrder ==
  ~scenario.redisFails => \A c, d \in Clients :
    \A i, j \in DOMAIN received[c], k, l \in DOMAIN received[d] :
      (/\ received[c][i] = received[d][k] /\ received[c][j] = received[d][l]
       /\ i < j)
      => k < l

Excused(c) == ~open[c] \/ ~Up(ServerOf[c])

\* A client that is in its room when Redis takes an event, and stays connected to a
\* server that does not die, is sent it, unless its queue was full.
Delivered ==
  \A c \in Clients, e \in Events :
    (e \in due[c]) ~> (e \in ToSet(received[c]) \/ e \in dropped[c] \/ Excused(c))

\* A client that leaves after it was registered is taken out of its room, and its
\* goroutines end ("causes the write pump to exit cleanly", handler.go).
LeaversEnd ==
  \A c \in Clients :
    LET s == ServerOf[c]
    IN (reader[c] = "reading" /\ ~open[c] /\ c \in rooms[s])
         ~> (~Up(s) \/ (c \notin rooms[s] /\ reader[c] = "done" /\ writer[c] = "done"))

\* "Client pointers are copied inside the read lock, then sends happen outside it -
\* this prevents a race with the Run goroutine deleting entries during unregister"
\* (hub.go): no server dies of a client that leaves.
NoServerDies == crashed = {}
=============================================================================
