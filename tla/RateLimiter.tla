---------------------------- MODULE RateLimiter ----------------------------
(***************************************************************************)
(* The rate limiter in front of the API: middleware/ratelimit.go over        *)
(* IncrWithExpiry of pkg/redis.                                              *)
(*                                                                           *)
(* INCR and EXPIRE travel in one pipeline that is no transaction: the        *)
(* commands of other servers may come between them, and a connection that    *)
(* breaks, or a Redis that dies, may execute the first and not the second.   *)
(* A request that gets no answer from Redis is let through.                  *)
(*                                                                           *)
(* Slots are the server goroutines that serve one request after the other.   *)
(* Time passes with Tick; whatever measures it counts ticks up to Window.    *)
(***************************************************************************)
EXTENDS Integers, FiniteSets, Functions

CONSTANTS
  Slots,     \* server goroutines
  Keys,      \* "auth:<address>", "general:user:<id>", ...
  Limit,     \* requests a window admits
  Window,    \* length of a window, in ticks
  MaxCount,  \* bound: how far a counter is followed
  NoKey      \* a slot without a request

ASSUME RateAssumption ==
  /\ IsFiniteSet(Slots)
  /\ Limit \in Nat \ {0} /\ Window \in Nat \ {0}
  /\ MaxCount \in Nat /\ MaxCount > Limit
  /\ NoKey \notin Keys

VARIABLES
  counter,  \* the counter under each Redis key; 0: there is no such key
  ttl,      \* ticks until the key expires
  slot,     \* the request each goroutine serves
  overtaken, \* history: slots whose key has gone between INCR and EXPIRE
  hits,     \* history: per key and age, the requests the counter admitted
  told      \* history: ticks since the EXPIRE of a request that is refused, as
            \* long as Redis has run no command of another one of the key

history == <<overtaken, hits, told>>
vars == <<counter, ttl, slot, history>>

Never == Window + 1   \* a key without a TTL
Nobody == Window + 1  \* no refusal to count from

Ages == 0 .. Window - 1
NoHits == [a \in Ages |-> 0]
Idle == [pc |-> "idle", key |-> NoKey, count |-> 0]

Init ==
  /\ counter = [k \in Keys |-> 0]
  /\ ttl = [k \in Keys |-> Never]
  /\ slot = [s \in Slots |-> Idle]
  /\ overtaken = {}
  /\ hits = [k \in Keys |-> NoHits]
  /\ told = [k \in Keys |-> Nobody]

-----------------------------------------------------------------------------
\* KeyFunc: the user of the token, or else the address.
Arrive(s, k) ==
  /\ slot[s].pc = "idle"
  /\ slot' = [slot EXCEPT ![s] = [pc |-> "incr", key |-> k, count |-> 0]]
  /\ overtaken' = overtaken \ {s}
  /\ UNCHANGED <<counter, ttl, hits, told>>

Incr(s) ==
  LET k == slot[s].key
      n == counter[k] + 1
  IN /\ slot[s].pc = "incr"
     /\ n <= MaxCount
     /\ counter' = [counter EXCEPT ![k] = n]
     /\ slot' = [slot EXCEPT ![s].pc = "expire", ![s].count = n]
     /\ told' = [told EXCEPT ![k] = Nobody]
     /\ UNCHANGED <<ttl, overtaken, hits>>

\* (wrong) only the request that created the key sets its TTL.
TTLAfter_FirstOnly(s) ==
  IF slot[s].count = 1 THEN Window ELSE ttl[slot[s].key]

\* EXPIRE without NX: every request starts the key's time anew.
TTLAfter(s) == Window

\* EXPIRE of a key that is no longer there does nothing.
Expire(s) ==
  LET k == slot[s].key
  IN /\ slot[s].pc = "expire"
     /\ ttl' = IF counter[k] = 0 THEN ttl ELSE [ttl EXCEPT ![k] = TTLAfter(s)]
     /\ slot' = [slot EXCEPT ![s].pc = "judge"]
     /\ hits' = IF slot[s].count <= Limit /\ s \notin overtaken
                THEN [hits EXCEPT ![k][0] = @ + 1] ELSE hits
     /\ told' = [told EXCEPT ![k] = IF slot[s].count > Limit THEN 0 ELSE Nobody]
     /\ UNCHANGED <<counter, overtaken>>

\* The handler runs.
Admit(s) ==
  /\ slot[s].pc = "judge" /\ slot[s].count <= Limit
  /\ slot' = [slot EXCEPT ![s] = Idle]
  /\ UNCHANGED <<counter, ttl, history>>

\* 429 with Retry-After: the whole window.
Refuse(s) ==
  /\ slot[s].pc = "judge" /\ slot[s].count > Limit
  /\ slot' = [slot EXCEPT ![s] = Idle]
  /\ UNCHANGED <<counter, ttl, history>>

\* Redis does not answer, whichever of the commands it has executed: the request
\* is let through without being counted, or though it was counted.
FailOpen(s) ==
  /\ slot[s].pc \in {"incr", "expire", "judge"}
  /\ slot' = [slot EXCEPT ![s] = Idle]
  /\ UNCHANGED <<counter, ttl, history>>

\* The slots that have incremented key k and not yet renewed it.
BetweenCommands(k) == {s \in Slots : slot[s].pc = "expire" /\ slot[s].key = k}

\* A Redis that restarts has lost its counters.
Forget ==
  /\ \E k \in Keys : counter[k] > 0
  /\ counter' = [k \in Keys |-> 0]
  /\ ttl' = [k \in Keys |-> Never]
  /\ hits' = [k \in Keys |-> NoHits]
  /\ overtaken' = overtaken \cup UNION {BetweenCommands(k) : k \in Keys}
  /\ UNCHANGED <<slot, told>>

\* Key k comes to the end of its TTL with this tick.
Expires(k) == counter[k] > 0 /\ ttl[k] = 1

Older(ages) == [a \in Ages |-> IF a = 0 THEN 0 ELSE ages[a - 1]]

Tick ==
  /\ counter' = [k \in Keys |-> IF Expires(k) THEN 0 ELSE counter[k]]
  /\ ttl' = [k \in Keys |->
               IF ttl[k] = Never \/ Expires(k) THEN Never ELSE ttl[k] - 1]
  /\ overtaken' = overtaken \cup
       UNION {BetweenCommands(k) : k \in {j \in Keys : Expires(j)}}
  /\ hits' = [k \in Keys |-> Older(hits[k])]
  /\ told' = [k \in Keys |-> IF told[k] >= Window THEN told[k] ELSE told[k] + 1]
  /\ UNCHANGED slot

Serve(s) ==
  \/ \E k \in Keys : Arrive(s, k)
  \/ Incr(s) \/ Expire(s) \/ Admit(s) \/ Refuse(s) \/ FailOpen(s)

Next == (\E s \in Slots : Serve(s)) \/ Forget \/ Tick

Spec == Init /\ [][Next]_vars

-----------------------------------------------------------------------------
\* The counter admits at most Limit requests of a key in any stretch of time
\* shorter than Window ("the maximum number of requests allowed in the Window"):
\* not only from one expiry to the next, as a fixed window would, but over every
\* boundary too, however many servers share the counter.  It is the EXPIRE that
\* every request sends which makes it so.  Not counted are the requests let
\* through because Redis failed, and those whose counter was gone by the time of
\* their EXPIRE.
SlidingLimit == \A k \in Keys : FoldFunction(+, 0, hits[k]) <= Limit

\* Whoever is refused and then waits for the Retry-After he was given, with
\* no other request of his key on its way, is admitted, even if the EXPIRE of the
\* request that created the counter never reached Redis.
RetryAfterHonest ==
  [][\A k \in Keys :
       (told[k] = Window /\ counter'[k] > counter[k]) => counter'[k] <= Limit]_vars
=============================================================================
