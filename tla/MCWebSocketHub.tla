--------------------------- MODULE MCWebSocketHub ---------------------------
(* Small instances of WebSocketHub. *)
EXTENDS WebSocketHub, TLC

CONSTANTS s1, s2, c1, c2, c3, e1, e2, ann, bob

\* Two clients of one wallet on two servers, and one of another wallet.
Home == c1 :> s1 @@ c2 :> s2 @@ c3 :> s1
Owner == c1 :> ann @@ c2 :> ann @@ c3 :> bob

\* Two events for the first wallet.
Rooms == e1 :> ann @@ e2 :> ann

Offer(events, named, clients, redisFails) ==
  [events |-> events, named |-> named, clients |-> clients, leavers |-> {c1},
   redisFails |-> redisFails]

\* Two events for two clients, of which one may go; an event that names no wallet
\* before or after one that does, with a neighbour; a Redis that fails.
Offered ==
  {Offer(Events, Events, {c1, c2}, FALSE), Offer(Events, {e1}, {c1, c3}, FALSE),
   Offer({e1}, {e1}, {c1, c2}, TRUE)}
=============================================================================
