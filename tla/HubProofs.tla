------------------------------ MODULE HubProofs ------------------------------
(***************************************************************************)
(* Proofs about WebSocketHub, for any servers, clients, events, scenarios   *)
(* and sizes of the queues.                                                 *)
(***************************************************************************)
EXTENDS WebSocketHub, SequenceTheorems, TLAPS

\* What TypeOK leaves out: the domains.
Queues ==
  /\ register \in [Servers -> Seq(Clients)] /\ unregister \in [Servers -> Seq(Clients)]
  /\ inbox \in [Servers -> Seq(Events)]
  /\ send \in [Clients -> Seq(Events)] /\ received \in [Clients -> Seq(Events)]

\* A client is in the rooms and the channels of its own server only.
Homes ==
  \A s \in Servers : \A c \in rooms[s] \cup ToSet(register[s]) : ServerOf[c] = s

\* Whatever is on its way was published, for the wallet of whom it goes to.
Sendable(e, c) == e \in published /\ RoomOf[e] = WalletOf[c]

Known ==
  /\ \A s \in Servers : ToSet(inbox[s]) \subseteq published
  /\ \A t \in Broadcasters : \A c \in broadcast[t].targets :
       Sendable(broadcast[t].event, c) /\ (t \in Servers => ServerOf[c] = t)
  /\ \A c \in Clients : \A e \in ToSet(send[c]) \cup ToSet(received[c]) : Sendable(e, c)

\* While Redis works there is an order of the events, that of their publication, which
\* every queue keeps, and every stage of the way to a browser is behind the next:
\* the browser, the queue of the connection, the broadcast, the subscription.
Sorted(rank, q) ==
  \A i, j \in 1..Len(q) : i < j => rank[q[i]] < rank[q[j]]

Precede(rank, S, T) == \A e \in S, f \in T : rank[e] < rank[f]

Underway(c) ==
  LET b == broadcast[ServerOf[c]]
  IN {e \in Events : e = b.event /\ c \in b.targets}

InOrder(rank, c) ==
  /\ Sorted(rank, send[c]) /\ Sorted(rank, received[c])
  /\ Precede(rank, ToSet(received[c]), ToSet(send[c]) \cup Underway(c))
  /\ Precede(rank, ToSet(send[c]), Underway(c))
  /\ Precede(rank, ToSet(received[c]) \cup ToSet(send[c]) \cup Underway(c),
             ToSet(inbox[ServerOf[c]]))

Ordered(rank, n) ==
  /\ \A e \in published : rank[e] < n
  /\ \A s \in Servers : Sorted(rank, inbox[s])
  /\ \A c \in Clients : InOrder(rank, c)

Orderly ==
  /\ \A e \in Events : broadcast[e].targets = {}
  /\ \E rank \in [Events -> Nat], n \in Nat : Ordered(rank, n)

\* The inductive invariant.
Inv ==
  /\ TypeOK /\ Queues /\ Homes /\ Known
  /\ ~scenario.redisFails => Orderly

-----------------------------------------------------------------------------
(* Sequences.                                                              *)
LEMMA Elements ==
  ASSUME NEW S, NEW q \in Seq(S)
  PROVE  /\ ToSet(q) \subseteq S /\ \A i \in 1..Len(q) : q[i] \in ToSet(q)
         /\ ToSet(q) = {q[i] : i \in 1..Len(q)}
  BY DEF ToSet

LEMMA Appending ==
  ASSUME NEW S, NEW q \in Seq(S), NEW e \in S
  PROVE  /\ Append(q, e) \in Seq(S) /\ Len(Append(q, e)) = Len(q) + 1
         /\ \A i \in 1..Len(q) : Append(q, e)[i] = q[i]
         /\ Append(q, e)[Len(q) + 1] = e
         /\ ToSet(Append(q, e)) = ToSet(q) \cup {e}
  <1>1. /\ Append(q, e) \in Seq(S) /\ Len(Append(q, e)) = Len(q) + 1
        /\ \A i \in 1..Len(q) : Append(q, e)[i] = q[i]
        /\ Append(q, e)[Len(q) + 1] = e /\ Len(q) \in Nat
    OBVIOUS
  <1>2. 1..(Len(q) + 1) = 1..Len(q) \cup {Len(q) + 1}
    BY <1>1
  <1>3. ToSet(Append(q, e)) = {Append(q, e)[i] : i \in 1..(Len(q) + 1)}
    BY <1>1, Elements
  <1>4. ToSet(q) = {q[i] : i \in 1..Len(q)}
    BY Elements
  <1> HIDE DEF Append
  <1>5. ToSet(Append(q, e)) = ToSet(q) \cup {e}
    BY <1>1, <1>2, <1>3, <1>4
  <1> QED
    BY <1>1, <1>5

LEMMA Taking ==
  ASSUME NEW S, NEW q \in Seq(S), q # <<>>
  PROVE  /\ Head(q) \in ToSet(q) /\ Tail(q) \in Seq(S) /\ ToSet(Tail(q)) \subseteq ToSet(q)
         /\ Head(q) = q[1] /\ Len(Tail(q)) = Len(q) - 1 /\ Len(q) \in Nat \ {0}
         /\ \A i \in 1..Len(Tail(q)) : Tail(q)[i] = q[i + 1]
  <1>1. /\ Tail(q) \in Seq(S) /\ Len(Tail(q)) = Len(q) - 1
        /\ \A i \in 1..Len(Tail(q)) : Tail(q)[i] = q[i + 1]
    BY HeadTailProperties
  <1>2. Head(q) = q[1] /\ Len(q) \in Nat \ {0}
    BY EmptySeq
  <1>3. Head(q) \in ToSet(q)
    BY <1>2, Elements
  <1>4. ASSUME NEW i \in 1..Len(Tail(q)) PROVE Tail(q)[i] \in ToSet(q)
    <2>1. i + 1 \in 1..Len(q)
      BY <1>1, <1>2
    <2> QED
      BY <1>1, <2>1, Elements
  <1>5. ToSet(Tail(q)) = {Tail(q)[i] : i \in 1..Len(Tail(q))}
    BY <1>1, Elements
  <1>6. ToSet(Tail(q)) \subseteq ToSet(q)
    BY <1>4, <1>5
  <1> QED
    BY <1>1, <1>2, <1>3, <1>6

LEMMA SortedAppend ==
  ASSUME NEW q \in Seq(Events), NEW e \in Events, NEW rank, Sorted(rank, q),
         Precede(rank, ToSet(q), {e})
  PROVE  Sorted(rank, Append(q, e))
  <1>1. SUFFICES ASSUME NEW i \in 1..(Len(q) + 1), NEW j \in 1..(Len(q) + 1), i < j
                 PROVE  rank[Append(q, e)[i]] < rank[Append(q, e)[j]]
    BY Appending DEF Sorted
  <1>2. Len(q) \in Nat /\ i \in 1..Len(q) /\ (j \in 1..Len(q) \/ j = Len(q) + 1)
    BY <1>1
  <1>3. Append(q, e)[i] = q[i] /\ q[i] \in ToSet(q)
    BY <1>2, Appending, Elements
  <1>4. CASE j \in 1..Len(q)
    BY <1>1, <1>2, <1>3, <1>4, Appending DEF Sorted
  <1>5. CASE j = Len(q) + 1
    BY <1>3, <1>5, Appending DEF Precede
  <1> QED
    BY <1>2, <1>4, <1>5

LEMMA SortedTail ==
  ASSUME NEW q \in Seq(Events), q # <<>>, NEW rank, Sorted(rank, q)
  PROVE  Sorted(rank, Tail(q)) /\ Precede(rank, {Head(q)}, ToSet(Tail(q)))
  <1>1. /\ Len(Tail(q)) = Len(q) - 1 /\ Len(q) \in Nat \ {0}
        /\ \A i \in 1..Len(Tail(q)) : Tail(q)[i] = q[i + 1] /\ i + 1 \in 1..Len(q)
        /\ Head(q) = q[1] /\ Tail(q) \in Seq(Events)
    BY Taking
  <1>2. Sorted(rank, Tail(q))
    BY <1>1 DEF Sorted
  <1>3. \A i \in 1..Len(Tail(q)) : rank[q[1]] < rank[Tail(q)[i]]
    BY <1>1 DEF Sorted
  <1>4. ToSet(Tail(q)) = {Tail(q)[i] : i \in 1..Len(Tail(q))}
    BY <1>1, Elements
  <1> QED
    BY <1>1, <1>2, <1>3, <1>4 DEF Precede

-----------------------------------------------------------------------------
(* Connections.                                                            *)
\* Steps that move no event.
LEMMA EventsFrame ==
  ASSUME Inv, UNCHANGED <<inbox, broadcast, send, received, published, scenario>>
  PROVE  Known' /\ (~scenario'.redisFails => Orderly')
  <1>1. Known'
    BY DEF Inv, Known, Sendable
  <1>2. ASSUME ~scenario.redisFails PROVE Orderly'
    BY <1>2 DEF Inv, Orderly, Ordered, InOrder, Underway
  <1> QED
    BY <1>1, <1>2

LEMMA Quiet ==
  ASSUME Inv, UNCHANGED <<rooms, register, unregister, send, closed, received, inbox,
                          subscribed, broadcast, published, crashed, scenario, due, dropped>>,
         reader' \in [Clients -> {"start", "reading", "done"}],
         writer' \in [Clients -> {"start", "writing", "done"}],
         open' \in [Clients -> BOOLEAN]
  PROVE  Inv'
  <1>1. TypeOK'
    BY DEF Inv, TypeOK
  <1>2. Queues' /\ Homes'
    BY DEF Inv, Queues, Homes
  <1> QED
    BY <1>1, <1>2, EventsFrame DEF Inv

LEMMA ServeWSStep ==
  ASSUME Inv, NEW c \in Clients, ServeWS(c)
  PROVE  Inv'
  <1>0. PICK s \in Servers : s = ServerOf[c]
    BY HubAssumption
  <1>1. /\ Len(register[s]) < channelBuffer
        /\ register' = [register EXCEPT ![s] = Append(register[s], c)]
        /\ reader' = [reader EXCEPT ![c] = "reading"]
        /\ writer' = [writer EXCEPT ![c] = "writing"]
        /\ open' = [open EXCEPT ![c] = TRUE]
        /\ UNCHANGED <<rooms, unregister, send, closed, received, inbox, subscribed,
                       broadcast, published, crashed, scenario, due, dropped>>
    BY <1>0 DEF ServeWS
  <1>2. register \in [Servers -> Seq(Clients)]
    BY DEF Inv, Queues
  <1>3. /\ Append(register[s], c) \in Seq(Clients)
        /\ Len(Append(register[s], c)) = Len(register[s]) + 1 /\ Len(register[s]) \in Nat
        /\ ToSet(Append(register[s], c)) = ToSet(register[s]) \cup {c}
    BY <1>2, Appending
  <1>4. /\ register' \in [Servers -> Seq(Clients)]
        /\ register'[s] = Append(register[s], c)
        /\ \A r \in Servers \ {s} : register'[r] = register[r]
    BY <1>1, <1>2, <1>3
  <1>5. \A r \in Servers : Len(register'[r]) <= channelBuffer
    BY <1>1, <1>3, <1>4, HubAssumption DEF Inv, TypeOK
  <1>6. TypeOK'
    BY <1>1, <1>4, <1>5 DEF Inv, TypeOK
  <1>7. Queues'
    BY <1>1, <1>4 DEF Inv, Queues
  <1>8. Homes'
    BY <1>0, <1>1, <1>3, <1>4 DEF Inv, Homes
  <1> QED
    BY <1>1, <1>6, <1>7, <1>8, EventsFrame DEF Inv

LEMMA ReadPumpReturnsStep ==
  ASSUME Inv, NEW c \in Clients, ReadPumpReturns(c)
  PROVE  Inv'
  <1>0. PICK s \in Servers : s = ServerOf[c]
    BY HubAssumption
  <1>1. /\ Len(unregister[s]) < channelBuffer
        /\ unregister' = [unregister EXCEPT ![s] = Append(unregister[s], c)]
        /\ reader' = [reader EXCEPT ![c] = "done"]
        /\ UNCHANGED <<rooms, register, writer, open, send, closed, received, inbox,
                       subscribed, broadcast, published, crashed, scenario, due, dropped>>
    BY <1>0 DEF ReadPumpReturns
  <1>2. unregister \in [Servers -> Seq(Clients)]
    BY DEF Inv, Queues
  <1>3. /\ Append(unregister[s], c) \in Seq(Clients)
        /\ Len(Append(unregister[s], c)) = Len(unregister[s]) + 1
        /\ Len(unregister[s]) \in Nat
    BY <1>2, Appending
  <1>4. /\ unregister' \in [Servers -> Seq(Clients)]
        /\ unregister'[s] = Append(unregister[s], c)
        /\ \A r \in Servers \ {s} : unregister'[r] = unregister[r]
    BY <1>1, <1>2, <1>3
  <1>5. \A r \in Servers : Len(unregister'[r]) <= channelBuffer
    BY <1>1, <1>3, <1>4, HubAssumption DEF Inv, TypeOK
  <1>6. TypeOK'
    BY <1>1, <1>4, <1>5 DEF Inv, TypeOK
  <1>7. Queues' /\ Homes'
    BY <1>1, <1>4 DEF Inv, Queues, Homes
  <1> QED
    BY <1>1, <1>6, <1>7, EventsFrame DEF Inv

LEMMA RunRegisterStep ==
  ASSUME Inv, NEW s \in Servers, RunRegister(s)
  PROVE  Inv'
  <1>1. /\ register[s] # <<>>
        /\ rooms' = [rooms EXCEPT ![s] = rooms[s] \cup {Head(register[s])}]
        /\ register' = [register EXCEPT ![s] = Tail(register[s])]
        /\ UNCHANGED <<unregister, connection, send, closed, received, inbox, subscribed,
                       broadcast, published, crashed, scenario, due, dropped>>
    BY DEF RunRegister
  <1>2. register \in [Servers -> Seq(Clients)] /\ rooms \in [Servers -> SUBSET Clients]
        /\ Len(register[s]) <= channelBuffer
    BY DEF Inv, Queues, TypeOK
  <1>3. /\ Head(register[s]) \in ToSet(register[s]) /\ Tail(register[s]) \in Seq(Clients)
        /\ ToSet(Tail(register[s])) \subseteq ToSet(register[s])
        /\ Len(Tail(register[s])) = Len(register[s]) - 1 /\ Len(register[s]) \in Nat
        /\ ToSet(register[s]) \subseteq Clients
    BY <1>1, <1>2, Taking, Elements
  <1>4. /\ register' \in [Servers -> Seq(Clients)]
        /\ register'[s] = Tail(register[s])
        /\ \A r \in Servers \ {s} : register'[r] = register[r]
    BY <1>1, <1>2, <1>3
  <1>5. /\ rooms' \in [Servers -> SUBSET Clients]
        /\ rooms'[s] = rooms[s] \cup {Head(register[s])}
        /\ \A r \in Servers \ {s} : rooms'[r] = rooms[r]
    BY <1>1, <1>2, <1>3
  <1>6. \A r \in Servers : Len(register'[r]) <= channelBuffer
    <2>1. Len(register'[s]) <= channelBuffer
      BY <1>2, <1>3, <1>4, HubAssumption
    <2>2. \A r \in Servers \ {s} : Len(register'[r]) <= channelBuffer
      BY <1>4 DEF Inv, TypeOK
    <2> QED
      BY <2>1, <2>2
  <1>7. TypeOK'
    BY <1>1, <1>4, <1>5, <1>6 DEF Inv, TypeOK, connection
  <1>8. Queues'
    BY <1>1, <1>4 DEF Inv, Queues
  <1>9. Homes'
    BY <1>1, <1>3, <1>4, <1>5 DEF Inv, Homes
  <1> QED
    BY <1>1, <1>7, <1>8, <1>9, EventsFrame DEF Inv

LEMMA RunUnregisterStep ==
  ASSUME Inv, NEW s \in Servers, RunUnregister(s)
  PROVE  Inv'
  <1>1. /\ unregister[s] # <<>>
        /\ unregister' = [unregister EXCEPT ![s] = Tail(unregister[s])]
        /\ rooms' = [rooms EXCEPT ![s] = rooms[s] \ {Head(unregister[s])}]
           \/ UNCHANGED rooms
        /\ closed' = closed \cup {Head(unregister[s])} \/ UNCHANGED closed
        /\ UNCHANGED <<register, connection, send, received, inbox, subscribed,
                       broadcast, published, crashed, scenario, due, dropped>>
    BY DEF RunUnregister, Without
  <1>2. unregister \in [Servers -> Seq(Clients)] /\ rooms \in [Servers -> SUBSET Clients]
        /\ Len(unregister[s]) <= channelBuffer
    BY DEF Inv, Queues, TypeOK
  <1>3. /\ Head(unregister[s]) \in Clients /\ Tail(unregister[s]) \in Seq(Clients)
        /\ Len(Tail(unregister[s])) = Len(unregister[s]) - 1 /\ Len(unregister[s]) \in Nat
    BY <1>1, <1>2, Taking, Elements
  <1>4. /\ unregister' \in [Servers -> Seq(Clients)]
        /\ unregister'[s] = Tail(unregister[s])
        /\ \A r \in Servers \ {s} : unregister'[r] = unregister[r]
    BY <1>1, <1>2, <1>3
  <1>5. /\ rooms' \in [Servers -> SUBSET Clients]
        /\ \A r \in Servers : rooms'[r] \subseteq rooms[r]
    BY <1>1, <1>2
  <1>6. \A r \in Servers : Len(unregister'[r]) <= channelBuffer
    <2>1. Len(unregister'[s]) <= channelBuffer
      BY <1>2, <1>3, <1>4, HubAssumption
    <2>2. \A r \in Servers \ {s} : Len(unregister'[r]) <= channelBuffer
      BY <1>4 DEF Inv, TypeOK
    <2> QED
      BY <2>1, <2>2
  <1>7. closed' \subseteq Clients
    BY <1>1, <1>3 DEF Inv, TypeOK
  <1>8. TypeOK'
    BY <1>1, <1>4, <1>5, <1>6, <1>7 DEF Inv, TypeOK, connection
  <1>9. Queues' /\ Homes'
    BY <1>1, <1>4, <1>5 DEF Inv, Queues, Homes
  <1> QED
    BY <1>1, <1>8, <1>9, EventsFrame DEF Inv

LEMMA PumpSteps ==
  ASSUME Inv, NEW c \in Clients, Disconnect(c) \/ WritePumpReturns(c)
  PROVE  Inv'
  <1>1. CASE Disconnect(c)
    BY <1>1, Quiet DEF Disconnect, Inv, TypeOK
  <1>2. CASE WritePumpReturns(c)
    BY <1>2, Quiet DEF WritePumpReturns, Inv, TypeOK
  <1> QED
    BY <1>1, <1>2

-----------------------------------------------------------------------------
(* Events.                                                                 *)
LEMMA WriteMessageStep ==
  ASSUME Inv, NEW c \in Clients, WriteMessage(c)
  PROVE  Inv'
  <1> DEFINE e == Head(send[c])
  <1>1. /\ send[c] # <<>> /\ send' = [send EXCEPT ![c] = Tail(send[c])]
        /\ \/ received' = [received EXCEPT ![c] = Append(received[c], e)]
              /\ UNCHANGED writer
           \/ writer' = [writer EXCEPT ![c] = "done"] /\ UNCHANGED received
        /\ UNCHANGED <<rooms, register, unregister, reader, open, closed, inbox,
                       subscribed, broadcast, published, crashed, scenario, due, dropped>>
    BY DEF WriteMessage
  <1>2. send \in [Clients -> Seq(Events)] /\ received \in [Clients -> Seq(Events)]
        /\ Len(send[c]) <= sendBufferSize
    BY DEF Inv, Queues, TypeOK
  <1>3. /\ e \in ToSet(send[c]) /\ Tail(send[c]) \in Seq(Events) /\ e \in Events
        /\ ToSet(Tail(send[c])) \subseteq ToSet(send[c])
        /\ Len(Tail(send[c])) = Len(send[c]) - 1 /\ Len(send[c]) \in Nat
    BY <1>1, <1>2, Taking, Elements
  <1>4. /\ Append(received[c], e) \in Seq(Events)
        /\ ToSet(Append(received[c], e)) = ToSet(received[c]) \cup {e}
    BY <1>2, <1>3, Appending
  <1>5. /\ send' \in [Clients -> Seq(Events)] /\ send'[c] = Tail(send[c])
        /\ \A d \in Clients \ {c} : send'[d] = send[d]
    BY <1>1, <1>2, <1>3
  <1>6. /\ received' \in [Clients -> Seq(Events)]
        /\ received'[c] \in {received[c], Append(received[c], e)}
        /\ \A d \in Clients \ {c} : received'[d] = received[d]
    <2> HIDE DEF e
    <2> QED
      BY <1>1, <1>2, <1>4
  <1>7. ToSet(received'[c]) \subseteq ToSet(received[c]) \cup {e}
    BY <1>4, <1>6
  <1> HIDE DEF e
  <1>8. TypeOK'
    <2>1. Len(Tail(send[c])) <= sendBufferSize
      BY <1>2, <1>3, HubAssumption
    <2>2. \A d \in Clients : Len(send'[d]) <= sendBufferSize
      BY <1>5, <2>1 DEF Inv, TypeOK
    <2>3. writer' \in [Clients -> {"start", "writing", "done"}]
      BY <1>1 DEF Inv, TypeOK
    <2> QED
      BY <1>1, <1>5, <1>6, <2>2, <2>3 DEF Inv, TypeOK
  <1>9. Queues' /\ Homes'
    BY <1>1, <1>5, <1>6 DEF Inv, Queues, Homes
  <1>10. Known'
    <2>1. \A d \in Clients : ToSet(send'[d]) \cup ToSet(received'[d])
                               \subseteq ToSet(send[d]) \cup ToSet(received[d])
      BY <1>3, <1>5, <1>6, <1>7
    <2> QED
      BY <1>1, <2>1 DEF Inv, Known, Sendable
  <1>11. ASSUME ~scenario.redisFails PROVE Orderly'
    <2>1. PICK rank \in [Events -> Nat], n \in Nat : Ordered(rank, n)
      BY <1>11 DEF Inv, Orderly
    <2>2. \A d \in Clients : Underway(d)' = Underway(d)
      BY <1>1 DEF Underway
    <2>3. ASSUME NEW d \in Clients PROVE InOrder(rank, d)'
      <3>1. InOrder(rank, d)
        BY <2>1 DEF Ordered
      <3>2. CASE d # c
        BY <1>1, <1>5, <1>6, <2>2, <3>1, <3>2 DEF InOrder
      <3>3. CASE d = c
        <4>1. Sorted(rank, send'[c]) /\ Precede(rank, {e}, ToSet(send'[c]))
          BY <1>1, <1>2, <1>5, <3>1, <3>3, SortedTail DEF InOrder, e
        <4>2. Precede(rank, ToSet(received[c]), {e})
          BY <1>3, <3>1, <3>3 DEF InOrder, Precede
        <4>3. Sorted(rank, received'[c])
          BY <1>2, <1>3, <1>6, <3>1, <3>3, <4>2, SortedAppend DEF InOrder
        <4>4. ToSet(send'[c]) \subseteq ToSet(send[c])
          BY <1>3, <1>5
        <4>5. /\ Precede(rank, ToSet(received'[c]), ToSet(send'[c]) \cup Underway(c))
              /\ Precede(rank, ToSet(send'[c]), Underway(c))
              /\ Precede(rank, ToSet(received'[c]) \cup ToSet(send'[c]) \cup Underway(c),
                         ToSet(inbox[ServerOf[c]]))
          BY <1>3, <1>7, <3>1, <3>3, <4>1, <4>4 DEF InOrder, Precede
        <4> QED
          BY <1>1, <2>2, <3>3, <4>1, <4>3, <4>5 DEF InOrder
      <3> QED
        BY <3>2, <3>3
    <2>4. Ordered(rank, n)'
      BY <1>1, <2>1, <2>3 DEF Ordered
    <2> QED
      BY <1>1, <1>11, <2>4 DEF Inv, Orderly
  <1> QED
    BY <1>1, <1>8, <1>9, <1>10, <1>11 DEF Inv

LEMMA StartShape ==
  ASSUME NEW e \in Events, NEW targets, targets \subseteq Clients
  PROVE  /\ Start(e, targets) \in [event: Events \cup {NoEvent}, targets: SUBSET Clients]
         /\ Start(e, targets).targets = targets
         /\ targets # {} => Start(e, targets).event = e
  BY DEF Start, Idle

\* The broadcast goes on, or is over: the others' targets stay, nobody is added.
LEMMA Broadcasting ==
  ASSUME Inv, NEW t \in Broadcasters, NEW e \in Events, NEW targets,
         targets \subseteq Clients,
         broadcast' = [broadcast EXCEPT ![t] = Start(e, targets)]
  PROVE  /\ broadcast' \in [Broadcasters -> [event: Events \cup {NoEvent},
                                             targets: SUBSET Clients]]
         /\ broadcast'[t].targets = targets
         /\ targets # {} => broadcast'[t].event = e
         /\ \A u \in Broadcasters \ {t} : broadcast'[u] = broadcast[u]
  <1>1. broadcast \in [Broadcasters -> [event: Events \cup {NoEvent},
                                        targets: SUBSET Clients]]
    BY DEF Inv, TypeOK
  <1> QED
    BY <1>1, StartShape

LEMMA SendToStep ==
  ASSUME Inv, NEW t \in Broadcasters, NEW c \in Clients, SendTo(t, c)
  PROVE  Inv'
  <1>0. PICK e : e = broadcast[t].event
    OBVIOUS
  <1> DEFINE left == broadcast[t].targets \ {c}
  <1>1. /\ c \in broadcast[t].targets
        /\ broadcast' = [broadcast EXCEPT ![t] = Start(e, left)]
        /\ \/ /\ Len(send[c]) < sendBufferSize
              /\ send' = [send EXCEPT ![c] = Append(send[c], e)]
              /\ UNCHANGED dropped
           \/ /\ dropped' = [dropped EXCEPT ![c] = dropped[c] \cup {e}]
              /\ UNCHANGED send
        /\ UNCHANGED <<rooms, register, unregister, connection, closed, received, inbox,
                       subscribed, published, crashed, scenario, due>>
    BY <1>0 DEF SendTo, Fits
  <1>2. e \in Events /\ Sendable(e, c) /\ (t \in Servers => ServerOf[c] = t)
    BY <1>0, <1>1 DEF Inv, Known, Sendable, TypeOK
  <1>3. left \subseteq Clients /\ left \subseteq broadcast[t].targets /\ c \notin left
    BY DEF Inv, TypeOK
  <1> HIDE DEF left
  <1>4. /\ broadcast' \in [Broadcasters -> [event: Events \cup {NoEvent},
                                            targets: SUBSET Clients]]
        /\ broadcast'[t].targets = left
        /\ left # {} => broadcast'[t].event = e
        /\ \A u \in Broadcasters \ {t} : broadcast'[u] = broadcast[u]
    BY <1>1, <1>2, <1>3, Broadcasting
  <1>5. send \in [Clients -> Seq(Events)] /\ dropped \in [Clients -> SUBSET Events]
    BY DEF Inv, Queues, TypeOK
  <1>6. /\ Append(send[c], e) \in Seq(Events) /\ Len(send[c]) \in Nat
        /\ Len(Append(send[c], e)) = Len(send[c]) + 1
        /\ ToSet(Append(send[c], e)) = ToSet(send[c]) \cup {e}
    BY <1>2, <1>5, Appending
  <1>7. /\ send' \in [Clients -> Seq(Events)]
        /\ \A d \in Clients \ {c} : send'[d] = send[d]
        /\ \/ send'[c] = send[c]
           \/ send'[c] = Append(send[c], e) /\ Len(send[c]) < sendBufferSize
    BY <1>1, <1>5, <1>6
  <1>8. dropped' \in [Clients -> SUBSET Events]
    BY <1>1, <1>2, <1>5
  <1>9. TypeOK'
    <2>1. Len(send'[c]) <= sendBufferSize
      BY <1>6, <1>7, HubAssumption DEF Inv, TypeOK
    <2>2. \A d \in Clients : Len(send'[d]) <= sendBufferSize
      BY <1>7, <2>1 DEF Inv, TypeOK
    <2> QED
      BY <1>1, <1>4, <1>7, <1>8, <2>2 DEF Inv, TypeOK, connection
  <1>10. Queues' /\ Homes'
    BY <1>1, <1>7 DEF Inv, Queues, Homes
  <1>11. ToSet(send'[c]) \subseteq ToSet(send[c]) \cup {e}
    BY <1>6, <1>7
  <1>12. Known'
    <2>1. ASSUME NEW u \in Broadcasters, NEW d \in broadcast'[u].targets
          PROVE  /\ Sendable(broadcast'[u].event, d)
                 /\ u \in Servers => ServerOf[d] = u
      <3>1. d \in broadcast[u].targets /\ broadcast'[u].event = broadcast[u].event
        BY <1>0, <1>3, <1>4, <2>1
      <3> QED
        BY <3>1 DEF Inv, Known
    <2>2. \A d \in Clients : \A f \in ToSet(send'[d]) \cup ToSet(received[d]) : Sendable(f, d)
      BY <1>2, <1>7, <1>11 DEF Inv, Known
    <2> QED
      BY <1>1, <2>1, <2>2 DEF Inv, Known, Sendable
  <1>13. ASSUME ~scenario.redisFails PROVE Orderly'
    <2>1. PICK rank \in [Events -> Nat], n \in Nat : Ordered(rank, n)
      BY <1>13 DEF Inv, Orderly
    <2>2. t \in Servers /\ t = ServerOf[c] /\ t \notin Events
      BY <1>1, <1>2, <1>13, HubAssumption DEF Inv, Orderly, Broadcasters
    <2>3. \A d \in Clients : Underway(d)' \subseteq Underway(d)
      BY <1>0, <1>3, <1>4, HubAssumption DEF Underway, Broadcasters
    <2>4. Underway(c)' = {} /\ e \in Underway(c)
      BY <1>0, <1>1, <1>2, <1>3, <1>4, <2>2 DEF Underway
    <2>5. ASSUME NEW d \in Clients PROVE InOrder(rank, d)'
      <3>1. InOrder(rank, d)
        BY <2>1 DEF Ordered
      <3>2. CASE d # c
        BY <1>1, <1>7, <2>3, <3>1, <3>2 DEF InOrder, Precede
      <3>3. CASE d = c
        <4>1. Precede(rank, ToSet(send[c]), {e})
          BY <2>4, <3>1, <3>3 DEF InOrder, Precede
        <4>2. Sorted(rank, send'[c])
          BY <1>2, <1>5, <1>7, <3>1, <3>3, <4>1, SortedAppend DEF InOrder
        <4>3. /\ Precede(rank, ToSet(received[c]), ToSet(send'[c]))
              /\ Precede(rank, ToSet(received[c]) \cup ToSet(send'[c]),
                         ToSet(inbox[ServerOf[c]]))
          BY <1>11, <2>4, <3>1, <3>3 DEF InOrder, Precede
        <4> QED
          BY <1>1, <2>4, <3>1, <3>3, <4>2, <4>3 DEF InOrder, Precede
      <3> QED
        BY <3>2, <3>3
    <2>6. Ordered(rank, n)'
      BY <1>1, <2>1, <2>5 DEF Ordered
    <2>7. \A f \in Events : broadcast'[f].targets = {}
      BY <1>4, <1>13, <2>2 DEF Inv, Orderly, Broadcasters
    <2> QED
      BY <1>1, <2>6, <2>7 DEF Orderly
  <1> QED
    BY <1>1, <1>9, <1>10, <1>12, <1>13 DEF Inv

LEMMA SendToClosedStep ==
  ASSUME Inv, NEW t \in Broadcasters, NEW c \in Clients, SendToClosed(t, c)
  PROVE  Inv'
  <1>1. /\ broadcast' = [broadcast EXCEPT ![t] = Idle]
        /\ UNCHANGED <<rooms, register, unregister, reader, writer, send, closed, received,
                       inbox, subscribed, published, scenario, due, dropped>>
    BY DEF SendToClosed
  <1>2. /\ crashed' \subseteq Servers /\ open' \in [Clients -> BOOLEAN]
    BY HubAssumption DEF SendToClosed, Inv, TypeOK
  <1>3. /\ broadcast' \in [Broadcasters -> [event: Events \cup {NoEvent},
                                            targets: SUBSET Clients]]
        /\ \A u \in Broadcasters : broadcast'[u].targets = {} \/ broadcast'[u] = broadcast[u]
    BY <1>1 DEF Inv, TypeOK, Idle
  <1>4. TypeOK' /\ Queues' /\ Homes'
    BY <1>1, <1>2, <1>3 DEF Inv, TypeOK, Queues, Homes
  <1>5. Known'
    BY <1>1, <1>3 DEF Inv, Known, Sendable
  <1>6. ASSUME ~scenario.redisFails PROVE Orderly'
    <2>1. PICK rank \in [Events -> Nat], n \in Nat : Ordered(rank, n)
      BY <1>6 DEF Inv, Orderly
    <2>2. \A d \in Clients : Underway(d)' \subseteq Underway(d)
      BY <1>3, HubAssumption DEF Underway, Broadcasters
    <2>3. \A d \in Clients : InOrder(rank, d)'
      BY <1>1, <2>1, <2>2 DEF Ordered, InOrder, Precede
    <2>4. Ordered(rank, n)'
      BY <1>1, <2>1, <2>3 DEF Ordered
    <2>5. \A f \in Events : broadcast'[f].targets = {}
      BY <1>3, <1>6 DEF Inv, Orderly, Broadcasters
    <2> QED
      BY <2>4, <2>5 DEF Orderly
  <1> QED
    BY <1>1, <1>4, <1>5, <1>6 DEF Inv

\* The clients in a room are of the server, and of the wallet.
LEMMA Rooms ==
  ASSUME Inv, NEW s \in Servers, NEW w
  PROVE  \A c \in Room(s, w) : c \in Clients /\ ServerOf[c] = s /\ WalletOf[c] = w
  BY DEF Inv, TypeOK, Homes, Room

LEMMA ReceiveStep ==
  ASSUME Inv, NEW s \in Servers, Receive(s)
  PROVE  Inv'
  <1>0. PICK e : e = Head(inbox[s])
    OBVIOUS
  <1> DEFINE targets == NamedRoom(s, e)
  <1>1. /\ inbox[s] # <<>> /\ inbox' = [inbox EXCEPT ![s] = Tail(inbox[s])]
        /\ broadcast[s] = Idle
        /\ broadcast' = [broadcast EXCEPT ![s] = Start(e, targets)]
        /\ UNCHANGED <<rooms, register, unregister, connection, send, closed, received,
                       subscribed, published, crashed, scenario, due, dropped>>
    BY <1>0 DEF Receive, StillSubscribed
  <1>2. inbox \in [Servers -> Seq(Events)]
    BY DEF Inv, Queues
  <1>3. /\ e \in ToSet(inbox[s]) /\ e \in Events /\ Tail(inbox[s]) \in Seq(Events)
        /\ ToSet(Tail(inbox[s])) \subseteq ToSet(inbox[s])
    BY <1>0, <1>1, <1>2, Taking, Elements
  <1>4. e \in published
    BY <1>3 DEF Inv, Known
  <1>5. \A c \in targets : c \in Clients /\ ServerOf[c] = s /\ WalletOf[c] = RoomOf[e]
    BY Rooms DEF NamedRoom
  <1> HIDE DEF targets
  <1>6. /\ broadcast' \in [Broadcasters -> [event: Events \cup {NoEvent},
                                            targets: SUBSET Clients]]
        /\ broadcast'[s].targets = targets
        /\ targets # {} => broadcast'[s].event = e
        /\ \A u \in Broadcasters \ {s} : broadcast'[u] = broadcast[u]
    BY <1>1, <1>3, <1>5, Broadcasting DEF Broadcasters
  <1>7. /\ inbox' \in [Servers -> Seq(Events)] /\ inbox'[s] = Tail(inbox[s])
        /\ \A r \in Servers \ {s} : inbox'[r] = inbox[r]
    BY <1>1, <1>2, <1>3
  <1>8. TypeOK' /\ Queues' /\ Homes'
    BY <1>1, <1>6, <1>7 DEF Inv, TypeOK, Queues, Homes, connection
  <1>9. Known'
    <2>1. \A r \in Servers : ToSet(inbox'[r]) \subseteq published
      BY <1>3, <1>7 DEF Inv, Known
    <2>2. ASSUME NEW u \in Broadcasters, NEW d \in broadcast'[u].targets
          PROVE  Sendable(broadcast'[u].event, d) /\ (u \in Servers => ServerOf[d] = u)
      <3>1. CASE u = s
        BY <1>4, <1>5, <1>6, <2>2, <3>1 DEF Sendable
      <3>2. CASE u # s
        BY <1>6, <2>2, <3>2 DEF Inv, Known
      <3> QED
        BY <3>1, <3>2
    <2> QED
      BY <1>1, <2>1, <2>2 DEF Inv, Known, Sendable
  <1>10. ASSUME ~scenario.redisFails PROVE Orderly'
    <2>1. PICK rank \in [Events -> Nat], n \in Nat : Ordered(rank, n)
      BY <1>10 DEF Inv, Orderly
    <2>2. s \notin Events
      BY HubAssumption
    <2>3. ASSUME NEW d \in Clients PROVE InOrder(rank, d)'
      <3>1. InOrder(rank, d)
        BY <2>1 DEF Ordered
      <3>2. CASE ServerOf[d] # s
        <4>1. Underway(d)' = Underway(d) /\ inbox'[ServerOf[d]] = inbox[ServerOf[d]]
          BY <1>6, <1>7, <3>2, HubAssumption DEF Underway, Broadcasters
        <4> QED
          BY <1>1, <3>1, <4>1 DEF InOrder
      <3>3. CASE ServerOf[d] = s
        <4>1. Underway(d) = {}
          BY <1>1, <3>3 DEF Underway, Idle
        <4>2. Underway(d)' \subseteq {e}
          BY <1>6, <3>3 DEF Underway
        <4>3. Precede(rank, {e}, ToSet(inbox'[s]))
          BY <1>0, <1>1, <1>2, <1>7, <2>1, SortedTail DEF Ordered
        <4>4. ToSet(inbox'[s]) \subseteq ToSet(inbox[s])
          BY <1>3, <1>7
        <4>5. Precede(rank, ToSet(received[d]) \cup ToSet(send[d]), ToSet(inbox[s]))
          BY <3>1, <3>3 DEF InOrder, Precede
        <4>6. /\ Precede(rank, ToSet(received[d]), ToSet(send[d]) \cup Underway(d)')
              /\ Precede(rank, ToSet(send[d]), Underway(d)')
              /\ Precede(rank, ToSet(received[d]) \cup ToSet(send[d]) \cup Underway(d)',
                         ToSet(inbox'[s]))
          BY <1>3, <3>1, <4>2, <4>3, <4>4, <4>5 DEF InOrder, Precede
        <4> QED
          BY <1>1, <3>1, <3>3, <4>6 DEF InOrder
      <3> QED
        BY <3>2, <3>3
    <2>4. \A r \in Servers : Sorted(rank, inbox'[r])
      BY <1>1, <1>2, <1>7, <2>1, SortedTail DEF Ordered
    <2>5. Ordered(rank, n)'
      BY <1>1, <2>1, <2>3, <2>4 DEF Ordered
    <2>6. \A f \in Events : broadcast'[f].targets = {}
      BY <1>6, <1>10, <2>2 DEF Inv, Orderly, Broadcasters
    <2> QED
      BY <2>5, <2>6 DEF Orderly
  <1> QED
    BY <1>1, <1>8, <1>9, <1>10 DEF Inv

\* An event that was not published takes the last place in the order.
LEMMA LastPlace ==
  ASSUME NEW rank \in [Events -> Nat], NEW n \in Nat, NEW e \in Events \ published,
         published \subseteq Events, \A f \in published : rank[f] < n,
         NEW last, last = [rank EXCEPT ![e] = n]
  PROVE  /\ last \in [Events -> Nat] /\ last[e] = n
         /\ \A f \in published : last[f] < n /\ last[f] = rank[f]
         /\ \A q \in Seq(Events) :
              ToSet(q) \subseteq published /\ Sorted(rank, q) => Sorted(last, q)
         /\ \A S, T \in SUBSET published : Precede(rank, S, T) => Precede(last, S, T)
         /\ \A S \in SUBSET published : Precede(last, S, {e})
  <1>1. /\ last \in [Events -> Nat] /\ last[e] = n
        /\ \A f \in published : last[f] = rank[f] /\ last[f] < n
    OBVIOUS
  <1>2. ASSUME NEW q \in Seq(Events), ToSet(q) \subseteq published, Sorted(rank, q)
        PROVE  Sorted(last, q)
    <2>1. \A i \in 1..Len(q) : q[i] \in published
      BY <1>2, Elements
    <2> QED
      BY <1>1, <1>2, <2>1 DEF Sorted
  <1> QED
    BY <1>1, <1>2 DEF Precede

LEMMA PublishStep ==
  ASSUME Inv, NEW s \in Servers, NEW e \in Events, Publish(e, s)
  PROVE  Inv'
  <1>0. PICK reached \in SUBSET Servers, reported \in BOOLEAN :
          /\ e \in scenario.events \ published
          /\ published' = published \cup {e}
          /\ ~scenario.redisFails => reached = Servers /\ ~reported
          /\ inbox' = [r \in Servers |->
                         IF r \in reached THEN Append(inbox[r], e) ELSE inbox[r]]
          /\ broadcast' = [broadcast EXCEPT ![e] = Start(e, LocalTargets(s, e, reported))]
          /\ due' = [c \in Clients |->
                       IF ServerOf[c] \in reached /\ c \in NamedRoom(ServerOf[c], e)
                         THEN due[c] \cup {e} ELSE due[c]]
          /\ UNCHANGED <<rooms, register, unregister, connection, send, closed, received,
                         subscribed, crashed, scenario, dropped>>
    BY DEF Publish
  <1>1. PICK targets : targets = LocalTargets(s, e, reported)
    OBVIOUS
  <1>2. /\ \A c \in targets : c \in Clients /\ WalletOf[c] = RoomOf[e]
        /\ ~scenario.redisFails => targets = {}
    BY <1>0, <1>1, Rooms DEF LocalTargets
  <1>3. /\ broadcast' \in [Broadcasters -> [event: Events \cup {NoEvent},
                                            targets: SUBSET Clients]]
        /\ broadcast'[e].targets = targets
        /\ targets # {} => broadcast'[e].event = e
        /\ \A u \in Broadcasters \ {e} : broadcast'[u] = broadcast[u]
    <2>1. e \in Broadcasters /\ targets \subseteq Clients
      BY <1>2 DEF Broadcasters
    <2>2. broadcast' = [broadcast EXCEPT ![e] = Start(e, targets)]
      BY <1>0, <1>1
    <2> QED
      BY <2>1, <2>2, StartShape DEF Inv, TypeOK
  <1>4. inbox \in [Servers -> Seq(Events)] /\ e \notin published
    BY <1>0 DEF Inv, Queues
  <1>5. \A r \in Servers :
          /\ Append(inbox[r], e) \in Seq(Events)
          /\ ToSet(Append(inbox[r], e)) = ToSet(inbox[r]) \cup {e}
    BY <1>4, Appending
  <1>6. inbox' \in [Servers -> Seq(Events)]
        /\ \A r \in Servers : inbox'[r] = inbox[r] \/ inbox'[r] = Append(inbox[r], e)
    BY <1>0, <1>4, <1>5
  <1>7. \A r \in Servers : ToSet(inbox'[r]) \subseteq ToSet(inbox[r]) \cup {e}
    BY <1>5, <1>6
  <1>8. due' \in [Clients -> SUBSET Events] /\ published' \subseteq Events
    BY <1>0 DEF Inv, TypeOK
  <1>9. TypeOK' /\ Queues' /\ Homes'
    BY <1>0, <1>3, <1>6, <1>8 DEF Inv, TypeOK, Queues, Homes, connection
  <1>10. Known'
    <2>1. \A f, c : Sendable(f, c) => Sendable(f, c)'
      BY <1>0 DEF Sendable
    <2>2. \A r \in Servers : ToSet(inbox'[r]) \subseteq published'
      BY <1>0, <1>7 DEF Inv, Known
    <2>3. ASSUME NEW u \in Broadcasters, NEW d \in broadcast'[u].targets
          PROVE  /\ broadcast'[u].event \in published' /\ RoomOf[broadcast'[u].event] = WalletOf[d]
                 /\ u \in Servers => ServerOf[d] = u
      <3>1. CASE u = e
        BY <1>0, <1>2, <1>3, <2>3, <3>1, HubAssumption
      <3>2. CASE u # e
        BY <1>0, <1>3, <2>3, <3>2 DEF Inv, Known, Sendable
      <3> QED
        BY <3>1, <3>2
    <2>4. \A d \in Clients : \A f \in ToSet(send[d]) \cup ToSet(received[d]) : Sendable(f, d)'
      BY <2>1 DEF Inv, Known
    <2> QED
      BY <1>0, <2>2, <2>3, <2>4 DEF Known, Sendable
  <1>11. ASSUME ~scenario.redisFails PROVE Orderly'
    <2>1. PICK rank \in [Events -> Nat], n \in Nat : Ordered(rank, n)
      BY <1>11 DEF Inv, Orderly
    <2>2. PICK last : last = [rank EXCEPT ![e] = n]
      OBVIOUS
    <2>3. /\ last \in [Events -> Nat] /\ last[e] = n
          /\ \A f \in published : last[f] < n /\ last[f] = rank[f]
          /\ \A q \in Seq(Events) :
               ToSet(q) \subseteq published /\ Sorted(rank, q) => Sorted(last, q)
          /\ \A S, T \in SUBSET published : Precede(rank, S, T) => Precede(last, S, T)
          /\ \A S \in SUBSET published : Precede(last, S, {e})
      BY <1>4, <2>1, <2>2, LastPlace DEF Ordered, Inv, TypeOK
    <2>4. \A r \in Servers : inbox'[r] = Append(inbox[r], e)
      BY <1>0, <1>11
    <2>5. \A r \in Servers : ToSet(inbox[r]) \subseteq published /\ Sorted(last, inbox[r])
      BY <1>4, <2>1, <2>3 DEF Ordered, Inv, Known
    <2>6. \A r \in Servers : Sorted(last, inbox'[r])
      BY <1>4, <2>3, <2>4, <2>5, SortedAppend
    <2>7. ASSUME NEW d \in Clients PROVE InOrder(last, d)'
      <3>1. InOrder(rank, d)
        BY <2>1 DEF Ordered
      <3>2. PICK r \in Servers : r = ServerOf[d]
        BY HubAssumption
      <3>3. /\ ToSet(send[d]) \subseteq published /\ ToSet(received[d]) \subseteq published
            /\ send[d] \in Seq(Events) /\ received[d] \in Seq(Events)
        BY DEF Inv, Known, Queues, Sendable
      <3>4. Underway(d) \subseteq published
        BY <3>2 DEF Inv, Known, Underway, Broadcasters, Sendable
      <3>5. Underway(d)' = Underway(d)
        <4>1. r # e /\ r \in Broadcasters
          BY HubAssumption DEF Broadcasters
        <4> QED
          BY <1>3, <3>2, <4>1 DEF Underway
      <3>6. Sorted(last, send[d]) /\ Sorted(last, received[d])
        BY <2>3, <3>1, <3>3 DEF InOrder
      <3>7. /\ Precede(last, ToSet(received[d]), ToSet(send[d]) \cup Underway(d))
            /\ Precede(last, ToSet(send[d]), Underway(d))
            /\ Precede(last, ToSet(received[d]) \cup ToSet(send[d]) \cup Underway(d),
                       ToSet(inbox[r]))
        BY <2>3, <2>5, <3>1, <3>2, <3>3, <3>4 DEF InOrder
      <3>8. Precede(last, ToSet(received[d]) \cup ToSet(send[d]) \cup Underway(d), {e})
        BY <2>3, <3>3, <3>4
      <3>9. ToSet(inbox'[r]) = ToSet(inbox[r]) \cup {e}
        BY <1>5, <2>4
      <3>10. Precede(last, ToSet(received[d]) \cup ToSet(send[d]) \cup Underway(d),
                     ToSet(inbox'[r]))
        BY <3>7, <3>8, <3>9 DEF Precede
      <3> QED
        BY <1>0, <3>2, <3>5, <3>6, <3>7, <3>10 DEF InOrder
    <2>8. \A f \in published' : last[f] < n + 1
      BY <1>0, <2>3 DEF Inv, TypeOK
    <2>9. Ordered(last, n + 1)'
      BY <2>6, <2>7, <2>8 DEF Ordered
    <2>10. \A f \in Events : broadcast'[f].targets = {}
      BY <1>2, <1>3, <1>11 DEF Inv, Orderly, Broadcasters
    <2> QED
      BY <2>3, <2>9, <2>10 DEF Orderly
  <1> QED
    BY <1>0, <1>9, <1>10, <1>11 DEF Inv

-----------------------------------------------------------------------------
LEMMA InvInit == Init => Inv
  <1> SUFFICES ASSUME Init PROVE Inv
    OBVIOUS
  <1>1. \A S : <<>> \in Seq(S) /\ Len(<<>>) = 0
    BY EmptySeq
  <1>2. \A q : q = <<>> => ToSet(q) = {}
    BY DEF ToSet
  <1>3. scenario \in Scenarios
    BY DEF Init
  <1>4. TypeOK
    <2>1. scenario \in Scenario
      BY <1>3, ScenarioAssumption
    <2>2. \A s \in Servers :
            /\ register[s] \in Seq(Clients) /\ Len(register[s]) <= channelBuffer
            /\ unregister[s] \in Seq(Clients) /\ Len(unregister[s]) <= channelBuffer
            /\ inbox[s] \in Seq(Events)
      BY <1>1, HubAssumption DEF Init
    <2>3. \A c \in Clients : /\ send[c] \in Seq(Events) /\ Len(send[c]) <= sendBufferSize
                             /\ received[c] \in Seq(Events)
      BY <1>1, HubAssumption DEF Init
    <2> QED
      BY <2>1, <2>2, <2>3 DEF Init, TypeOK, Idle
  <1>5. Queues /\ Homes
    BY <1>1, <1>2 DEF Init, Queues, Homes
  <1>6. Known
    BY <1>2 DEF Init, Known, Idle
  <1>7. Orderly
    <2>1. PICK rank \in [Events -> Nat] : rank = [e \in Events |-> 0]
      OBVIOUS
    <2>2. \A q : q = <<>> => Sorted(rank, q)
      BY <1>1 DEF Sorted
    <2>3. \A c \in Clients : Underway(c) = {}
      BY HubAssumption DEF Underway, Init, Idle, Broadcasters
    <2>4. Ordered(rank, 0)
      BY <1>2, <2>2, <2>3, HubAssumption DEF Init, Ordered, InOrder, Precede
    <2> QED
      BY <2>4 DEF Init, Orderly, Idle, Broadcasters
  <1> QED
    BY <1>4, <1>5, <1>6, <1>7 DEF Inv

LEMMA InvNext == Inv /\ [Next]_vars => Inv'
  <1> SUFFICES ASSUME Inv, [Next]_vars PROVE Inv'
    OBVIOUS
  <1>1. ASSUME NEW t \in Broadcasters, Broadcast(t) PROVE Inv'
    BY <1>1, SendToStep, SendToClosedStep DEF Broadcast
  <1>2. ASSUME NEW c \in Clients,
               \/ ServeWS(c) \/ Disconnect(c) \/ ReadPumpReturns(c)
               \/ WriteMessage(c) \/ WritePumpReturns(c)
        PROVE  Inv'
    BY <1>2, ServeWSStep, PumpSteps, ReadPumpReturnsStep, WriteMessageStep
  <1>3. ASSUME NEW s \in Servers, RunRegister(s) \/ RunUnregister(s) \/ Receive(s)
        PROVE  Inv'
    BY <1>3, RunRegisterStep, RunUnregisterStep, ReceiveStep
  <1>4. ASSUME NEW s \in Servers, NEW e \in Events, Publish(e, s)
        PROVE  Inv'
    BY <1>4, PublishStep
  <1>5. CASE UNCHANGED vars
    BY <1>5, Quiet DEF vars, connection, Inv, TypeOK
  <1> QED
    BY <1>1, <1>2, <1>3, <1>4, <1>5 DEF Next

LEMMA Invariance == Spec => []Inv
  BY InvInit, InvNext, PTL DEF Spec

-----------------------------------------------------------------------------
\* The hub keeps the types, and no queue and no channel ever holds more than its buffer.
THEOREM HubTypeInvariant == Spec => []TypeOK
  BY Invariance, PTL DEF Inv

\* "On success: do NOT also broadcast locally" (hub.go): while Redis works, no browser
\* is sent an event twice, and none another wallet's.
THEOREM AtMostOnceInvariant == Spec => []AtMostOnce
  <1>1. Inv => AtMostOnce
    <2> SUFFICES ASSUME Inv, ~scenario.redisFails, NEW c \in Clients
                 PROVE  /\ IsInjective(received[c])
                        /\ \A i \in DOMAIN received[c] : RoomOf[received[c][i]] = WalletOf[c]
      BY DEF AtMostOnce
    <2>1. PICK rank \in [Events -> Nat] : Sorted(rank, received[c])
      BY DEF Inv, Orderly, Ordered, InOrder
    <2>2. received[c] \in Seq(Events) /\ DOMAIN received[c] = 1..Len(received[c])
          /\ Len(received[c]) \in Nat
      BY DEF Inv, Queues
    <2>3. IsInjective(received[c])
      <3>1. SUFFICES ASSUME NEW i \in 1..Len(received[c]), NEW j \in 1..Len(received[c]),
                            received[c][i] = received[c][j], i < j
                     PROVE  FALSE
        BY <2>2 DEF IsInjective
      <3>2. rank[received[c][i]] < rank[received[c][i]]
            /\ rank[received[c][i]] \in Nat
        BY <2>1, <2>2, <3>1, ElementOfSeq DEF Sorted
      <3> QED
        BY <3>2
    <2>4. \A i \in DOMAIN received[c] : RoomOf[received[c][i]] = WalletOf[c]
      BY <2>2, Elements DEF Inv, Known, Sendable
    <2> QED
      BY <2>3, <2>4
  <1> QED
    BY <1>1, Invariance, PTL

\* Two subscribers and the queues between them and two browsers keep the order in which
\* Redis took the events, whatever is dropped: no two browsers see opposite orders.
THEOREM SameOrderInvariant == Spec => []SameOrder
  <1>1. Inv => SameOrder
    <2> SUFFICES ASSUME Inv, ~scenario.redisFails, NEW c \in Clients, NEW d \in Clients,
                        NEW i \in DOMAIN received[c], NEW j \in DOMAIN received[c],
                        NEW k \in DOMAIN received[d], NEW l \in DOMAIN received[d],
                        received[c][i] = received[d][k], received[c][j] = received[d][l],
                        i < j
                 PROVE  k < l
      BY DEF SameOrder
    <2>1. PICK rank \in [Events -> Nat] :
            Sorted(rank, received[c]) /\ Sorted(rank, received[d])
      BY DEF Inv, Orderly, Ordered, InOrder
    <2>2. /\ DOMAIN received[c] = 1..Len(received[c]) /\ received[c] \in Seq(Events)
          /\ DOMAIN received[d] = 1..Len(received[d]) /\ received[d] \in Seq(Events)
      BY DEF Inv, Queues
    <2>3. rank[received[c][i]] \in Nat /\ rank[received[c][j]] \in Nat
      BY <2>2, ElementOfSeq
    <2>4. rank[received[c][i]] < rank[received[c][j]]
      BY <2>1, <2>2 DEF Sorted
    <2>5. l < k => rank[received[c][j]] < rank[received[c][i]]
      BY <2>1, <2>2 DEF Sorted
    <2>6. l # k
      BY <2>3, <2>4
    <2> QED
      BY <2>2, <2>3, <2>4, <2>5, <2>6
  <1> QED
    BY <1>1, Invariance, PTL
=============================================================================
