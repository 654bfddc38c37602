------------------------- MODULE RateLimiterProofs -------------------------
(***************************************************************************)
(* The Retry-After of the rate limiter is honest for any number of servers  *)
(* and keys, any limit and any window.  The invariant behind it relates the *)
(* two clocks of a key: since the EXPIRE of a refused request only time has *)
(* passed, so its TTL and the time since then never exceed one window.      *)
(***************************************************************************)
EXTENDS RateLimiter, FiniteSetTheorems, WellFoundedInduction, TLAPS

\* The part of the type of the state the argument needs.
ClockTypes ==
  /\ counter \in [Keys -> Nat]
  /\ ttl \in [Keys -> 1..Never]
  /\ told \in [Keys -> 0..Nobody]
  /\ \A k \in Keys : counter[k] = 0 => ttl[k] = Never
  /\ slot \in [Slots -> [pc: {"idle", "incr", "expire", "judge"},
                         key: Keys \cup {NoKey}, count: Nat]]
  /\ \A s \in Slots : slot[s].pc # "idle" => slot[s].key \in Keys

\* A key under which a request was refused d ticks ago, and that no command has
\* touched since, is gone after Window - d ticks at the latest.
RefusalRunsOut ==
  \A k \in Keys :
    told[k] <= Window => counter[k] = 0 \/ ttl[k] + told[k] <= Window

\* The invariant of the proof, whose first part types the state of every key:
\* it holds in each reachable state of the limiter (IncrWithExpiry renews the
\* TTL of a key with every request).
ClockInv == ClockTypes /\ RefusalRunsOut

LEMMA ClockInit == Init => ClockInv
  BY RateAssumption DEF Init, ClockInv, ClockTypes, RefusalRunsOut, Idle, Never, Nobody

LEMMA ClockNext == ClockInv /\ [Next]_vars => ClockInv'
<1> SUFFICES ASSUME ClockInv, [Next]_vars PROVE ClockInv'
  OBVIOUS
<1> USE RateAssumption DEF Never, Nobody
<1>1. ASSUME NEW s \in Slots, NEW k \in Keys, Arrive(s, k) PROVE ClockInv'
  BY <1>1 DEF Arrive, ClockInv, ClockTypes, RefusalRunsOut
<1>2. ASSUME NEW s \in Slots, Incr(s) PROVE ClockInv'
  <2> DEFINE k == slot[s].key
  <2>1. /\ slot[s].pc = "incr"
        /\ counter' = [counter EXCEPT ![k] = counter[k] + 1]
        /\ slot' = [slot EXCEPT ![s].pc = "expire", ![s].count = counter[k] + 1]
        /\ told' = [told EXCEPT ![k] = Nobody]
        /\ ttl' = ttl
    BY <1>2 DEF Incr
  <2>2. k \in Keys
    BY <2>1 DEF ClockInv, ClockTypes
  <2>3. ClockTypes'
    <3>1. counter' \in [Keys -> Nat] /\ counter[k] + 1 \in Nat
      BY <2>1, <2>2 DEF ClockInv, ClockTypes
    <3>2. ttl' \in [Keys -> 1..Never] /\ told' \in [Keys -> 0..Nobody]
      BY <2>1, <2>2 DEF ClockInv, ClockTypes
    <3>3. \A r \in Slots : slot'[r] = IF r = s
             THEN [slot[s] EXCEPT !.pc = "expire", !.count = counter[k] + 1]
             ELSE slot[r]
      BY <2>1 DEF ClockInv, ClockTypes
    <3>4. slot' \in [Slots -> [pc: {"idle", "incr", "expire", "judge"},
                               key: Keys \cup {NoKey}, count: Nat]]
      <4>1. [slot[s] EXCEPT !.pc = "expire", !.count = counter[k] + 1]
              \in [pc: {"idle", "incr", "expire", "judge"},
                  key: Keys \cup {NoKey}, count: Nat]
        BY <3>1 DEF ClockInv, ClockTypes
      <4>2. QED
        BY <2>1, <4>1 DEF ClockInv, ClockTypes
    <3>5. \A r \in Slots : slot'[r].pc # "idle" => slot'[r].key \in Keys
      BY <2>2, <3>3 DEF ClockInv, ClockTypes
    <3>6. \A j \in Keys : counter'[j] = 0 => ttl'[j] = Never
      BY <2>1, <2>2 DEF ClockInv, ClockTypes
    <3>7. QED
      BY <3>1, <3>2, <3>4, <3>5, <3>6 DEF ClockTypes
  <2>4. RefusalRunsOut'
    BY <2>1, <2>2 DEF ClockInv, ClockTypes, RefusalRunsOut
  <2>5. QED
    BY <2>3, <2>4 DEF ClockInv
<1>3. ASSUME NEW s \in Slots, Expire(s) PROVE ClockInv'
  BY <1>3 DEF Expire, TTLAfter, ClockInv, ClockTypes, RefusalRunsOut
<1>4. ASSUME NEW s \in Slots, Admit(s) \/ Refuse(s) \/ FailOpen(s) PROVE ClockInv'
  BY <1>4 DEF Admit, Refuse, FailOpen, Idle, history, ClockInv, ClockTypes,
              RefusalRunsOut
<1>5. CASE Forget
  BY <1>5 DEF Forget, ClockInv, ClockTypes, RefusalRunsOut
<1>6. CASE Tick
  <2>1. \A k \in Keys :
          /\ counter'[k] = IF counter[k] > 0 /\ ttl[k] = 1 THEN 0 ELSE counter[k]
          /\ ttl'[k] = IF ttl[k] = Never \/ (counter[k] > 0 /\ ttl[k] = 1)
                       THEN Never ELSE ttl[k] - 1
          /\ told'[k] = IF told[k] >= Window THEN told[k] ELSE told[k] + 1
    BY <1>6 DEF Tick, Expires
  <2>2. ClockTypes'
    <3>1. counter' \in [Keys -> Nat]
      BY <1>6 DEF Tick, ClockInv, ClockTypes
    <3>2. ttl' \in [Keys -> 1..Never]
      <4>1. \A k \in Keys : counter[k] = 0 => ttl[k] = Never
        BY DEF ClockInv, ClockTypes
      <4>2. QED
        BY <1>6, <2>1, <4>1 DEF Tick, ClockInv, ClockTypes
    <3>3. told' \in [Keys -> 0..Nobody]
      BY <1>6 DEF Tick, ClockInv, ClockTypes
    <3>4. QED
      BY <1>6, <3>1, <3>2, <3>3 DEF Tick, ClockInv, ClockTypes
  <2>3. RefusalRunsOut'
    BY <2>1 DEF ClockInv, ClockTypes, RefusalRunsOut
  <2>4. QED
    BY <2>2, <2>3 DEF ClockInv
<1>7. CASE UNCHANGED vars
  BY <1>7 DEF vars, history, ClockInv, ClockTypes, RefusalRunsOut
<1>8. QED
  BY <1>1, <1>2, <1>3, <1>4, <1>5, <1>6, <1>7 DEF Next, Serve

\* In every reachable state the TTL of a counter and the time since the last
\* refusal under it fit into one window (pkg/redis IncrWithExpiry).
THEOREM ClockInvariant == Spec => []ClockInv
<1>1. QED
  BY ClockInit, ClockNext, PTL DEF Spec

\* The 429 of middleware/ratelimit.go promises that its Retry-After is enough.
LEMMA HonestStep ==
  ASSUME ClockInv, [Next]_vars, NEW k \in Keys, told[k] = Window,
         counter'[k] > counter[k]
  PROVE  counter'[k] <= Limit
<1> USE RateAssumption DEF Never, Nobody
<1>1. counter[k] = 0
  BY DEF ClockInv, ClockTypes, RefusalRunsOut
<1>2. PICK s \in Slots : Incr(s)
  <2>1. counter' # counter
    BY <1>1
  <2>2. ~Forget
    BY <1>1 DEF Forget
  <2>3. ~Tick
    BY <1>1 DEF Tick
  <2>4. QED
    BY <2>1, <2>2, <2>3 DEF Next, Serve, Arrive, Expire, Admit, Refuse, FailOpen, vars
<1>3. counter'[k] = 1
  BY <1>1, <1>2 DEF Incr, ClockInv, ClockTypes
<1>4. QED
  BY <1>3

\* Whoever is refused and waits for his Retry-After, with no other request of his
\* key on its way, is admitted: for every number of servers, limit and window,
\* and whatever commands or answers of Redis are lost.
THEOREM RetryAfterHonestTheorem == Spec => RetryAfterHonest
<1>1. ClockInv /\ [Next]_vars =>
        [\A k \in Keys : (told[k] = Window /\ counter'[k] > counter[k])
                           => counter'[k] <= Limit]_vars
  BY HonestStep
<1>2. QED
  BY <1>1, ClockInvariant, PTL DEF Spec, RetryAfterHonest

-----------------------------------------------------------------------------
\* A set of subsets of a finite set has a smallest member: what induction over
\* finite sets comes to without an operator as a parameter.
LEMMA SmallestSubset ==
  ASSUME NEW S, IsFiniteSet(S), NEW B, B \subseteq SUBSET S, B # {}
  PROVE  \E T \in B : \A U \in SUBSET T : U # T => U \notin B
  <1>1. IsWellFoundedOn(StrictSubsetOrdering(S), SUBSET S)
    BY FS_StrictSubsetOrderingWellFounded, FS_FiniteSubsetsOfFinite
  <1>2. PICK T \in B : \A U \in B : ~(<<U, T>> \in StrictSubsetOrdering(S))
    BY <1>1, WFMin, Zenon
  <1>3. ASSUME NEW U \in SUBSET T, U # T, U \in B PROVE FALSE
    BY <1>2, <1>3 DEF StrictSubsetOrdering
  <1> QED
    BY <1>2, <1>3

PickOne(s) == CHOOSE x \in s : TRUE

\* g is the function by which the sum over S is defined.
Sums(g, f, S) ==
  g = [s \in SUBSET S |-> IF s = {} THEN 0 ELSE f[PickOne(s)] + g[s \ {PickOne(s)}]]

LEMMA PickIn == ASSUME NEW s, s # {} PROVE PickOne(s) \in s
  BY DEF PickOne

LEMMA SumsAt ==
  ASSUME NEW g, NEW f, NEW S, Sums(g, f, S), NEW s \in SUBSET S
  PROVE  g[s] = IF s = {} THEN 0 ELSE f[PickOne(s)] + g[s \ {PickOne(s)}]
  <1> DEFINE F == [t \in SUBSET S |->
                     IF t = {} THEN 0 ELSE f[PickOne(t)] + g[t \ {PickOne(t)}]]
  <1>1. g = F
    BY DEF Sums
  <1>2. F[s] = IF s = {} THEN 0 ELSE f[PickOne(s)] + g[s \ {PickOne(s)}]
    OBVIOUS
  <1> HIDE DEF F
  <1> QED
    BY <1>1, <1>2

\* Two of them agree where both are defined.
LEMMA SumsAgree ==
  ASSUME NEW f, NEW S, NEW T, IsFiniteSet(S), NEW g, NEW h,
         Sums(g, f, S), Sums(h, f, T)
  PROVE  \A s \in SUBSET S : s \in SUBSET T => g[s] = h[s]
  <1> DEFINE B == {s \in SUBSET S : s \in SUBSET T /\ g[s] # h[s]}
  <1> SUFFICES ASSUME B # {} PROVE FALSE
    OBVIOUS
  <1>0. B \subseteq SUBSET S
    OBVIOUS
  <1>1. PICK s \in B : \A u \in SUBSET s : u # s => u \notin B
    <2> HIDE DEF B
    <2> QED
      BY <1>0, SmallestSubset
  <1>2. s \in SUBSET S /\ s \in SUBSET T /\ g[s] # h[s]
    OBVIOUS
  <1>3. /\ g[s] = IF s = {} THEN 0 ELSE f[PickOne(s)] + g[s \ {PickOne(s)}]
        /\ h[s] = IF s = {} THEN 0 ELSE f[PickOne(s)] + h[s \ {PickOne(s)}]
    BY <1>2, SumsAt
  <1>4. s # {}
    BY <1>2, <1>3
  <1>5. /\ s \ {PickOne(s)} \in SUBSET s /\ s \ {PickOne(s)} # s
        /\ s \ {PickOne(s)} \in SUBSET S /\ s \ {PickOne(s)} \in SUBSET T
    BY <1>2, <1>4, PickIn
  <1>6. g[s \ {PickOne(s)}] = h[s \ {PickOne(s)}]
    BY <1>1, <1>5
  <1> QED
    BY <1>2, <1>3, <1>6

\* There is one for each finite set.
LEMMA SumsExist ==
  ASSUME NEW f, NEW S, IsFiniteSet(S)
  PROVE  \E g : Sums(g, f, S)
  <1> DEFINE B == {T \in SUBSET S : ~ \E g : Sums(g, f, T)}
  <1> SUFFICES ASSUME B # {} PROVE FALSE
    OBVIOUS
  <1>0. B \subseteq SUBSET S
    OBVIOUS
  <1>1. PICK T \in B : \A U \in SUBSET T : U # T => U \notin B
    <2> HIDE DEF B
    <2> QED
      BY <1>0, SmallestSubset
  <1>2. T \in SUBSET S /\ ~ \E g : Sums(g, f, T)
    OBVIOUS
  <1> DEFINE sum(U) == CHOOSE g : Sums(g, f, U)
             p(s) == s \ {PickOne(s)}
             val(s) == IF s = {} THEN 0 ELSE f[PickOne(s)] + sum(p(s))[p(s)]
             h == [s \in SUBSET T |-> val(s)]
  <1>3. \A U \in SUBSET T : U # T => Sums(sum(U), f, U)
    BY <1>1, <1>2
  <1>4. \A U \in SUBSET T : IsFiniteSet(U) /\ U \in SUBSET U
    BY <1>2, FS_Subset
  <1>5. ASSUME NEW U \in SUBSET T, U # T
        PROVE  sum(U)[U] = h[U]
    <2>1. Sums(sum(U), f, U)
      BY <1>3, <1>5
    <2> HIDE DEF sum
    <2>2. sum(U)[U] = IF U = {} THEN 0 ELSE f[PickOne(U)] + sum(U)[p(U)]
      BY <2>1, SumsAt
    <2>3. CASE U = {}
      BY <2>2, <2>3
    <2>4. CASE U # {}
      <3>1. p(U) \in SUBSET U /\ p(U) \in SUBSET T /\ p(U) # T
        BY <2>4, PickIn
      <3>2. Sums(sum(p(U)), f, p(U)) 
        BY <1>3, <3>1
      <3>3. sum(U)[p(U)] = sum(p(U))[p(U)]
        BY <1>4, <2>1, <3>1, <3>2, SumsAgree
      <3> QED
        BY <2>2, <2>4, <3>3
    <2> QED
      BY <2>3, <2>4
  <1>6. ASSUME NEW s \in SUBSET T
        PROVE  val(s) = IF s = {} THEN 0 ELSE f[PickOne(s)] + h[p(s)]
    <2>1. CASE s = {}
      BY <2>1
    <2>2. CASE s # {}
      <3>1. p(s) \in SUBSET T /\ p(s) # T
        BY <2>2, PickIn
      <3>2. sum(p(s))[p(s)] = h[p(s)]
        BY <1>5, <3>1
      <3> HIDE DEF h, sum
      <3> QED
        BY <2>2, <3>2
    <2> QED
      BY <2>1, <2>2
  <1>7. Sums(h, f, T)
    <2> HIDE DEF val
    <2>1. h = [s \in SUBSET T |-> IF s = {} THEN 0 ELSE f[PickOne(s)] + h[p(s)]]
      BY <1>6
    <2> QED
      BY <2>1, Zenon DEF Sums
  <1> QED
    BY <1>2, <1>7

LEMMA SumDef ==
  ASSUME NEW f, NEW S, IsFiniteSet(S)
  PROVE  /\ Sums(CHOOSE g : Sums(g, f, S), f, S)
         /\ SumFunctionOnSet(f, S) = (CHOOSE g : Sums(g, f, S))[S]
  <1>1. SumFunctionOnSet(f, S) = (CHOOSE g : Sums(g, f, S))[S]
    BY Zenon DEF SumFunctionOnSet, FoldFunctionOnSet, MapThenFoldSet, Sums, PickOne
  <1> QED
    BY <1>1, SumsExist

\* The sum over a set: zero, or one element and the sum over the rest.
LEMMA SumUnfold ==
  ASSUME NEW f, NEW S, IsFiniteSet(S)
  PROVE  SumFunctionOnSet(f, S) =
           IF S = {} THEN 0
           ELSE f[PickOne(S)] + SumFunctionOnSet(f, S \ {PickOne(S)})
  <1> DEFINE T == S \ {PickOne(S)}
             g == CHOOSE x : Sums(x, f, S)
             h == CHOOSE x : Sums(x, f, T)
  <1>1. Sums(g, f, S) /\ SumFunctionOnSet(f, S) = g[S]
    BY SumDef
  <1>2. IsFiniteSet(T) /\ T \in SUBSET S /\ T \in SUBSET T
    BY FS_Subset
  <1>3. Sums(h, f, T) /\ SumFunctionOnSet(f, T) = h[T]
    BY <1>2, SumDef
  <1> HIDE DEF g, h
  <1>4. g[S] = IF S = {} THEN 0 ELSE f[PickOne(S)] + g[T]
    BY <1>1, SumsAt
  <1>5. g[T] = h[T]
    BY <1>1, <1>2, <1>3, SumsAgree
  <1> QED
    BY <1>1, <1>3, <1>4, <1>5

LEMMA SumType ==
  ASSUME NEW f, NEW S, IsFiniteSet(S), \A x \in S : f[x] \in Int
  PROVE  SumFunctionOnSet(f, S) \in Int
  <1> DEFINE B == {T \in SUBSET S : SumFunctionOnSet(f, T) \notin Int}
  <1> SUFFICES ASSUME B # {} PROVE FALSE
    BY S \in SUBSET S
  <1>0. B \subseteq SUBSET S
    OBVIOUS
  <1>1. PICK T \in B : \A U \in SUBSET T : U # T => U \notin B
    <2> HIDE DEF B
    <2> QED
      BY <1>0, SmallestSubset
  <1>2. T \in SUBSET S /\ IsFiniteSet(T) /\ SumFunctionOnSet(f, T) \notin Int
    BY FS_Subset
  <1>3. T # {}
    <2>1. T = {} => SumFunctionOnSet(f, T) = 0
      BY <1>2, SumUnfold
    <2> QED
      BY <1>2, <2>1
  <1>4. PickOne(T) \in T
    BY <1>3, PickIn
  <1>5. SumFunctionOnSet(f, T \ {PickOne(T)}) \in Int
    BY <1>1, <1>2, <1>4
  <1> QED
    BY <1>2, <1>3, <1>4, <1>5, SumUnfold

\* It does not matter which element is taken last.
LEMMA SumAdd ==
  ASSUME NEW f, NEW S, IsFiniteSet(S), NEW x, x \notin S,
         \A y \in S \cup {x} : f[y] \in Int
  PROVE  SumFunctionOnSet(f, S \cup {x}) = f[x] + SumFunctionOnSet(f, S)
  <1> DEFINE sum(T) == SumFunctionOnSet(f, T)
             Wrong(T, y) == y \in S \cup {x} /\ y \notin T /\ sum(T \cup {y}) # f[y] + sum(T)
             B == {T \in SUBSET (S \cup {x}) : \E y : Wrong(T, y)}
  <1>0. IsFiniteSet(S \cup {x}) /\ B \subseteq SUBSET (S \cup {x})
    BY FS_AddElement
  <1> SUFFICES ASSUME B # {} PROVE FALSE
    OBVIOUS
  <1>1. PICK T \in B : \A U \in SUBSET T : U # T => U \notin B
    <2> HIDE DEF B
    <2> QED
      BY <1>0, SmallestSubset
  <1>2. PICK y : Wrong(T, y)
    OBVIOUS
  <1>3. /\ T \in SUBSET (S \cup {x}) /\ y \in S \cup {x} /\ y \notin T
        /\ sum(T \cup {y}) # f[y] + sum(T)
    BY <1>2
  <1>4. \A U \in SUBSET T, z \in S \cup {x} :
          U # T /\ z \notin U => sum(U \cup {z}) = f[z] + sum(U)
    <2> SUFFICES ASSUME NEW U \in SUBSET T, NEW z \in S \cup {x}, U # T, z \notin U,
                        sum(U \cup {z}) # f[z] + sum(U)
                 PROVE  FALSE
      OBVIOUS
    <2>1. Wrong(U, z)
      OBVIOUS
    <2>2. U \in B
      BY <1>3, <2>1
    <2> QED
      BY <1>1, <2>2
  <1>5. \A U \in SUBSET (S \cup {x}) : IsFiniteSet(U) /\ sum(U) \in Int
    BY <1>0, FS_Subset, SumType
  <1> DEFINE p == PickOne(T \cup {y})
             R == T \ {p}
  <1>6. p \in T \cup {y}
    BY PickIn
  <1>7. sum(T \cup {y}) = f[p] + sum((T \cup {y}) \ {p})
    BY <1>3, <1>5, SumUnfold
  <1>8. p # y
    <2> SUFFICES ASSUME p = y PROVE FALSE
      OBVIOUS
    <2>1. (T \cup {y}) \ {p} = T
      BY <1>3
    <2> QED
      BY <1>3, <1>7, <2>1
  <1>9. /\ p \in T /\ R \in SUBSET T /\ R # T /\ y \notin R /\ p \notin R
        /\ (T \cup {y}) \ {p} = R \cup {y} /\ R \cup {p} = T
        /\ p \in S \cup {x}
    BY <1>3, <1>6, <1>8
  <1> HIDE DEF p, R, sum
  <1>10. sum(R \cup {y}) = f[y] + sum(R) /\ sum(T) = f[p] + sum(R)
    BY <1>3, <1>4, <1>9
  <1>11. sum(R) \in Int /\ f[p] \in Int /\ f[y] \in Int
    BY <1>3, <1>5, <1>9
  <1> QED
    BY <1>3, <1>7, <1>9, <1>10, <1>11
LEMMA SumAtMost ==
  ASSUME NEW f, NEW g, NEW S, IsFiniteSet(S),
         \A x \in S : f[x] \in Int /\ g[x] \in Int /\ f[x] <= g[x]
  PROVE  SumFunctionOnSet(f, S) <= SumFunctionOnSet(g, S)
  <1> DEFINE B == {T \in SUBSET S : ~(SumFunctionOnSet(f, T) <= SumFunctionOnSet(g, T))}
  <1> SUFFICES ASSUME B # {} PROVE FALSE
    BY S \in SUBSET S
  <1>0. B \subseteq SUBSET S
    OBVIOUS
  <1>1. PICK T \in B : \A U \in SUBSET T : U # T => U \notin B
    <2> HIDE DEF B
    <2> QED
      BY <1>0, SmallestSubset
  <1> DEFINE R == T \ {PickOne(T)}
  <1>2. /\ T \in SUBSET S /\ IsFiniteSet(T)
        /\ ~(SumFunctionOnSet(f, T) <= SumFunctionOnSet(g, T))
    BY FS_Subset
  <1>3. T # {}
    <2>1. T = {} => SumFunctionOnSet(f, T) = 0 /\ SumFunctionOnSet(g, T) = 0
      BY <1>2, SumUnfold
    <2> QED
      BY <1>2, <2>1
  <1>4. PickOne(T) \in T
    BY <1>3, PickIn
  <1>5. /\ R \in SUBSET T /\ R # T /\ R \in SUBSET S
        /\ IsFiniteSet(R)
    BY <1>2, <1>4, FS_Subset
  <1>6. SumFunctionOnSet(f, R) <= SumFunctionOnSet(g, R)
    BY <1>1, <1>5
  <1>7. /\ SumFunctionOnSet(f, T) = f[PickOne(T)] + SumFunctionOnSet(f, R)
        /\ SumFunctionOnSet(g, T) = g[PickOne(T)] + SumFunctionOnSet(g, R)
    BY <1>2, <1>3, SumUnfold
  <1>8. SumFunctionOnSet(f, R) \in Int /\ SumFunctionOnSet(g, R) \in Int
    BY <1>5, SumType
  <1>9. /\ f[PickOne(T)] \in Int /\ g[PickOne(T)] \in Int
        /\ f[PickOne(T)] <= g[PickOne(T)]
    BY <1>2, <1>4
  <1> QED
    BY <1>2, <1>6, <1>7, <1>8, <1>9

LEMMA SumSame ==
  ASSUME NEW f, NEW g, NEW S, IsFiniteSet(S), \A x \in S : f[x] \in Int /\ f[x] = g[x]
  PROVE  SumFunctionOnSet(f, S) = SumFunctionOnSet(g, S)
  <1>1. /\ SumFunctionOnSet(f, S) <= SumFunctionOnSet(g, S)
        /\ SumFunctionOnSet(g, S) <= SumFunctionOnSet(f, S)
    BY SumAtMost
  <1>2. SumFunctionOnSet(f, S) \in Int /\ SumFunctionOnSet(g, S) \in Int
    BY SumType
  <1> QED
    BY <1>1, <1>2

LEMMA SumZero ==
  ASSUME NEW f, NEW S, IsFiniteSet(S), \A x \in S : f[x] = 0
  PROVE  SumFunctionOnSet(f, S) = 0
  <1> DEFINE B == {T \in SUBSET S : SumFunctionOnSet(f, T) # 0}
  <1> SUFFICES ASSUME B # {} PROVE FALSE
    BY S \in SUBSET S
  <1>0. B \subseteq SUBSET S
    OBVIOUS
  <1>1. PICK T \in B : \A U \in SUBSET T : U # T => U \notin B
    <2> HIDE DEF B
    <2> QED
      BY <1>0, SmallestSubset
  <1>2. T \in SUBSET S /\ IsFiniteSet(T) /\ SumFunctionOnSet(f, T) # 0
    BY FS_Subset
  <1>3. T # {}
    <2>1. T = {} => SumFunctionOnSet(f, T) = 0
      BY <1>2, SumUnfold
    <2> QED
      BY <1>2, <2>1
  <1>4. PickOne(T) \in T
    BY <1>3, PickIn
  <1>5. SumFunctionOnSet(f, T \ {PickOne(T)}) = 0
    BY <1>1, <1>2, <1>4
  <1>6. f[PickOne(T)] = 0
    BY <1>2, <1>4
  <1> QED
    BY <1>2, <1>3, <1>5, <1>6, SumUnfold

\* One value changed, the sum changes by as much.
LEMMA SumChange ==
  ASSUME NEW f, NEW g, NEW S, IsFiniteSet(S), NEW x \in S,
         \A y \in S : f[y] \in Int /\ g[y] \in Int,
         \A y \in S \ {x} : g[y] = f[y]
  PROVE  SumFunctionOnSet(g, S) = SumFunctionOnSet(f, S) + g[x] - f[x]
  <1> DEFINE R == S \ {x}
  <1>1. IsFiniteSet(R) /\ x \notin R /\ R \cup {x} = S
    BY FS_RemoveElement
  <1>2. SumFunctionOnSet(g, R) = SumFunctionOnSet(f, R) /\ SumFunctionOnSet(f, R) \in Int
    BY <1>1, SumSame, SumType
  <1>3. /\ SumFunctionOnSet(f, S) = f[x] + SumFunctionOnSet(f, R)
        /\ SumFunctionOnSet(g, S) = g[x] + SumFunctionOnSet(g, R)
    <2>1. \A y \in R \cup {x} : f[y] \in Int /\ g[y] \in Int
      BY <1>1
    <2>2. /\ SumFunctionOnSet(f, R \cup {x}) = f[x] + SumFunctionOnSet(f, R)
          /\ SumFunctionOnSet(g, R \cup {x}) = g[x] + SumFunctionOnSet(g, R)
      <3> HIDE DEF R
      <3> QED
        BY <1>1, <2>1, SumAdd
    <2> QED
      BY <1>1, <2>2
  <1>4. f[x] \in Int /\ g[x] \in Int
    OBVIOUS
  <1> QED
    BY <1>1, <1>2, <1>3, <1>4

\* The requests admitted within the last window.
Recent(h) == SumFunctionOnSet(h, Ages)

LEMMA AgesFinite == IsFiniteSet(Ages)
  BY RateAssumption, FS_Interval DEF Ages

\* A tick makes every request one tick older: the sum loses the oldest.
LEMMA OlderLoses ==
  ASSUME NEW h \in [Ages -> Nat]
  PROVE  Recent(Older(h)) <= Recent(h)
  <1> DEFINE sum(f, n) == SumFunctionOnSet(f, 0..n)
             Wrong(n) == n \in Ages /\ sum(Older(h), n) # sum(h, n) - h[n]
             B == {T \in SUBSET Ages : \E n : Wrong(n) /\ T = 0..n}
  <1>0. /\ B \subseteq SUBSET Ages
        /\ \A a \in Ages : Older(h)[a] = IF a = 0 THEN 0 ELSE h[a - 1]
        /\ \A a \in Ages : h[a] \in Nat /\ Older(h)[a] \in Nat
    BY RateAssumption DEF Older, Ages
  <1>1. B = {}
    <2> SUFFICES ASSUME B # {} PROVE FALSE
      OBVIOUS
    <2>1. PICK T \in B : \A U \in SUBSET T : U # T => U \notin B
      <3> HIDE DEF B
      <3> QED
        BY <1>0, AgesFinite, SmallestSubset
    <2>2. PICK n : Wrong(n) /\ T = 0..n
      OBVIOUS
    <2>3. n \in Ages /\ n \in Nat /\ sum(Older(h), n) # sum(h, n) - h[n] /\ T = 0..n
      BY <2>2, RateAssumption DEF Ages
    <2>4. \A m \in Ages : IsFiniteSet(0..m) /\ 0..m \subseteq Ages
      <3> SUFFICES ASSUME NEW m \in Ages PROVE IsFiniteSet(0..m) /\ 0..m \subseteq Ages
        OBVIOUS
      <3>1. m \in Int /\ 0..m \subseteq Ages
        BY RateAssumption DEF Ages
      <3> QED
        BY <3>1, FS_Interval
    <2>5. ASSUME NEW m \in Ages PROVE sum(Older(h), m) \in Int /\ sum(h, m) \in Int
      <3>1. \A y \in 0..m : h[y] \in Int /\ Older(h)[y] \in Int
        BY <1>0, <2>4
      <3> QED
        BY <2>4, <3>1, SumType
    <2>6. CASE n = 0
      <3>1. 0..0 = {} \cup {0} /\ IsFiniteSet({}) /\ 0 \in Ages
        BY RateAssumption, FS_EmptySet DEF Ages
      <3>2. SumFunctionOnSet(h, {}) = 0 /\ SumFunctionOnSet(Older(h), {}) = 0
        BY <3>1, SumUnfold
      <3>3. /\ SumFunctionOnSet(h, {} \cup {0}) = h[0] + SumFunctionOnSet(h, {})
            /\ SumFunctionOnSet(Older(h), {} \cup {0})
                 = Older(h)[0] + SumFunctionOnSet(Older(h), {})
        <4>1. \A y \in {} \cup {0} : h[y] \in Int /\ Older(h)[y] \in Int
          BY <1>0, <3>1
        <4> QED
          BY <3>1, <4>1, SumAdd
      <3>4. Older(h)[0] = 0 /\ h[0] \in Nat
        BY <1>0, <3>1
      <3> QED
        BY <2>3, <2>6, <3>1, <3>2, <3>3, <3>4
    <2>7. CASE n # 0
      <3>1. /\ n - 1 \in Ages /\ n - 1 \in Nat /\ 0..n = (0..(n - 1)) \cup {n}
            /\ n \notin 0..(n - 1) /\ 0..(n - 1) \in SUBSET T /\ 0..(n - 1) # T
            /\ 0..(n - 1) \in SUBSET Ages
        BY <2>3, <2>4, <2>7, RateAssumption DEF Ages
      <3>2. sum(Older(h), n - 1) = sum(h, n - 1) - h[n - 1]
        BY <2>1, <3>1
      <3>3. /\ sum(h, n) = h[n] + sum(h, n - 1)
            /\ sum(Older(h), n) = Older(h)[n] + sum(Older(h), n - 1)
        <4>1. IsFiniteSet(0..(n - 1))
          BY <2>4, <3>1
        <4>2. \A y \in (0..(n - 1)) \cup {n} : h[y] \in Int /\ Older(h)[y] \in Int
          BY <1>0, <2>3, <2>4, <3>1
        <4> QED
          BY <3>1, <4>1, <4>2, SumAdd
      <3>4. Older(h)[n] = h[n - 1] /\ h[n - 1] \in Nat /\ h[n] \in Nat
        BY <1>0, <2>3, <2>7, <3>1
      <3> HIDE DEF sum
      <3> QED
        BY <2>3, <2>5, <3>1, <3>2, <3>3, <3>4
    <2> QED
      BY <2>6, <2>7
  <1>2. Window - 1 \in Ages /\ 0..(Window - 1) = Ages
    BY RateAssumption DEF Ages
  <1>3. sum(Older(h), Window - 1) = sum(h, Window - 1) - h[Window - 1]
    BY <1>1, <1>2
  <1>4. sum(h, Window - 1) \in Int /\ h[Window - 1] \in Nat
    BY <1>0, <1>2, AgesFinite, SumType
  <1> QED
    BY <1>2, <1>3, <1>4 DEF Recent

-----------------------------------------------------------------------------
\* The slots whose request was counted within the limit and is yet to be recorded.
Waiting(k) ==
  {s \in Slots : /\ slot[s].pc = "expire" /\ slot[s].key = k
                 /\ s \notin overtaken /\ slot[s].count <= Limit}

HitTypes == hits \in [Keys -> [Ages -> Nat]]

\* The key of a request admitted within the last window is still there, with
\* at least what is left of that window to live.
KeyOutlives ==
  \A k \in Keys, a \in Ages :
    hits[k][a] > 0 => counter[k] > 0 /\ ttl[k] + a >= Window

\* Those who were admitted and those who will be have numbers of their own
\* among the first Limit that the counter has given out.
WithinBudget ==
  \A k \in Keys :
    /\ Recent(hits[k]) + Cardinality(Waiting(k)) <= Limit
    /\ Recent(hits[k]) + Cardinality(Waiting(k)) <= counter[k]

\* The invariant behind SlidingLimit.
CountInv == ClockTypes /\ HitTypes /\ KeyOutlives /\ WithinBudget

LEMMA WaitingFinite ==
  ASSUME NEW k
  PROVE  IsFiniteSet(Waiting(k)) /\ Cardinality(Waiting(k)) \in Nat
  <1>1. Waiting(k) \in SUBSET Slots
    BY DEF Waiting
  <1> QED
    BY <1>1, RateAssumption, FS_Subset, FS_CardinalityType

LEMMA RecentType ==
  ASSUME NEW h \in [Ages -> Nat]
  PROVE  Recent(h) \in Nat
  <1> DEFINE zero == [a \in Ages |-> 0]
  <1>1. SumFunctionOnSet(zero, Ages) = 0
    BY AgesFinite, SumZero
  <1>2. SumFunctionOnSet(zero, Ages) <= SumFunctionOnSet(h, Ages)
    BY AgesFinite, SumAtMost
  <1>3. SumFunctionOnSet(h, Ages) \in Int
    BY AgesFinite, SumType
  <1> HIDE DEF zero
  <1> QED
    BY <1>1, <1>2, <1>3 DEF Recent

\* A step that records no request, lets no key go and adds no one to those who wait.
LEMMA CountFrame ==
  ASSUME CountInv, ClockTypes', hits' = hits,
         \A k \in Keys : /\ counter'[k] >= counter[k]
                         /\ counter[k] > 0 => ttl'[k] >= ttl[k]
                         /\ Waiting(k)' \subseteq Waiting(k)
  PROVE  CountInv'
  <1>1. HitTypes'
    BY DEF CountInv, HitTypes
  <1>2. KeyOutlives'
    <2> SUFFICES ASSUME NEW k \in Keys, NEW a \in Ages, hits[k][a] > 0
                 PROVE  counter'[k] > 0 /\ ttl'[k] + a >= Window
      BY DEF KeyOutlives
    <2>1. counter[k] > 0 /\ ttl[k] + a >= Window
      BY DEF CountInv, KeyOutlives
    <2>2. /\ counter[k] \in Nat /\ counter'[k] \in Nat /\ ttl[k] \in Int
          /\ ttl'[k] \in Int /\ a \in Int /\ Window \in Int
      BY RateAssumption DEF CountInv, ClockTypes, Never, Ages
    <2> QED
      BY <2>1, <2>2
  <1>3. WithinBudget'
    <2> SUFFICES ASSUME NEW k \in Keys
                 PROVE  /\ Recent(hits[k]) + Cardinality(Waiting(k)') <= Limit
                        /\ Recent(hits[k]) + Cardinality(Waiting(k)') <= counter'[k]
      BY DEF WithinBudget
    <2>1. /\ IsFiniteSet(Waiting(k)) /\ Cardinality(Waiting(k)) \in Nat
          /\ Waiting(k)' \in SUBSET Waiting(k)
      BY WaitingFinite
    <2>2. /\ Cardinality(Waiting(k)') <= Cardinality(Waiting(k))
          /\ Cardinality(Waiting(k)') \in Nat
      BY <2>1, FS_Subset, FS_CardinalityType
    <2>3. /\ Recent(hits[k]) + Cardinality(Waiting(k)) <= Limit
          /\ Recent(hits[k]) + Cardinality(Waiting(k)) <= counter[k]
      BY DEF CountInv, WithinBudget
    <2>4. Recent(hits[k]) \in Nat
      BY RecentType DEF CountInv, HitTypes
    <2>5. counter[k] \in Nat /\ counter'[k] \in Nat /\ counter'[k] >= counter[k]
      BY DEF CountInv, ClockTypes
    <2> QED
      BY <2>1, <2>2, <2>3, <2>4, <2>5, RateAssumption
  <1> QED
    BY <1>1, <1>2, <1>3 DEF CountInv

LEMMA CountInit == Init => CountInv
  <1> SUFFICES ASSUME Init PROVE CountInv
    OBVIOUS
  <1>1. ClockTypes
    BY ClockInit DEF ClockInv
  <1>2. \A k \in Keys : hits[k] = NoHits
    BY DEF Init
  <1>3. HitTypes
    BY DEF Init, HitTypes, NoHits
  <1>4. KeyOutlives
    BY <1>2 DEF KeyOutlives, NoHits
  <1>5. \A k : Waiting(k) = {}
    BY DEF Init, Waiting, Idle
  <1>6. Recent(NoHits) = 0
    BY AgesFinite, SumZero DEF Recent, NoHits
  <1>7. Cardinality({}) = 0
    BY FS_EmptySet
  <1>8. WithinBudget
    BY <1>2, <1>5, <1>6, <1>7, RateAssumption DEF WithinBudget, Init
  <1> QED
    BY <1>1, <1>3, <1>4, <1>8 DEF CountInv

\* INCR gives out the next number.
LEMMA IncrCount ==
  ASSUME CountInv, ClockTypes', NEW s \in Slots, Incr(s)
  PROVE  CountInv'
  <1> DEFINE k == slot[s].key
             n == counter[k] + 1
  <1>1. /\ slot[s].pc = "incr" /\ k \in Keys
        /\ counter' = [counter EXCEPT ![k] = n]
        /\ slot' = [slot EXCEPT ![s].pc = "expire", ![s].count = n]
        /\ UNCHANGED <<ttl, overtaken, hits>>
    BY DEF Incr, CountInv, ClockTypes
  <1>2. \A r \in Slots : slot'[r] = IF r = s
             THEN [slot[s] EXCEPT !.pc = "expire", !.count = n] ELSE slot[r]
    BY <1>1 DEF CountInv, ClockTypes
  <1>3. /\ slot'[s].key = k /\ slot'[s].count = n
        /\ \A r \in Slots \ {s} : slot'[r] = slot[r]
    BY <1>2 DEF CountInv, ClockTypes
  <1>4. \A j \in Keys : Waiting(j)' \subseteq Waiting(j) \cup
                          (IF j = k /\ n <= Limit THEN {s} ELSE {})
    BY <1>1, <1>3 DEF Waiting
  <1>5. HitTypes' /\ \A j \in Keys : hits[j] \in [Ages -> Nat]
    BY <1>1 DEF CountInv, HitTypes
  <1>6. \A j \in Keys : /\ counter[j] \in Nat
                        /\ counter'[j] = IF j = k THEN n ELSE counter[j]
    BY <1>1 DEF CountInv, ClockTypes
  <1>7. KeyOutlives'
    BY <1>1, <1>6 DEF CountInv, KeyOutlives
  <1>8. WithinBudget'
    <2> SUFFICES ASSUME NEW j \in Keys
                 PROVE  /\ Recent(hits[j]) + Cardinality(Waiting(j)') <= Limit
                        /\ Recent(hits[j]) + Cardinality(Waiting(j)') <= counter'[j]
      BY <1>1 DEF WithinBudget
    <2>1. /\ IsFiniteSet(Waiting(j)) /\ Cardinality(Waiting(j)) \in Nat
          /\ Recent(hits[j]) \in Nat
      BY <1>5, WaitingFinite, RecentType
    <2>2. /\ Recent(hits[j]) + Cardinality(Waiting(j)) <= Limit
          /\ Recent(hits[j]) + Cardinality(Waiting(j)) <= counter[j]
      BY DEF CountInv, WithinBudget
    <2>3. CASE j = k /\ n <= Limit
      <3>1. /\ IsFiniteSet(Waiting(j) \cup {s})
            /\ Cardinality(Waiting(j) \cup {s}) <= Cardinality(Waiting(j)) + 1
            /\ Cardinality(Waiting(j) \cup {s}) \in Nat
        <4>1. /\ IsFiniteSet(Waiting(j) \cup {s})
              /\ Cardinality(Waiting(j) \cup {s}) =
                   IF s \in Waiting(j) THEN Cardinality(Waiting(j))
                   ELSE Cardinality(Waiting(j)) + 1
          BY <2>1, FS_AddElement
        <4> QED
          BY <2>1, <4>1
      <3>2. Waiting(j)' \in SUBSET (Waiting(j) \cup {s})
        BY <1>4, <2>3
      <3>3. /\ Cardinality(Waiting(j)') <= Cardinality(Waiting(j) \cup {s})
            /\ Cardinality(Waiting(j)') \in Nat
        BY <3>1, <3>2, FS_Subset, FS_CardinalityType
      <3> QED
        BY <1>6, <2>1, <2>2, <2>3, <3>1, <3>3, RateAssumption
    <2>4. CASE ~(j = k /\ n <= Limit)
      <3>1. Waiting(j)' \in SUBSET Waiting(j)
        BY <1>4, <2>4
      <3>2. /\ Cardinality(Waiting(j)') <= Cardinality(Waiting(j))
            /\ Cardinality(Waiting(j)') \in Nat
        BY <2>1, <3>1, FS_Subset, FS_CardinalityType
      <3> QED
        BY <1>6, <2>1, <2>2, <3>2, RateAssumption
    <2> QED
      BY <2>3, <2>4
  <1> QED
    BY <1>5, <1>7, <1>8 DEF CountInv

\* EXPIRE records the request, which has waited, and renews the key.
LEMMA ExpireCount ==
  ASSUME CountInv, ClockTypes', NEW s \in Slots, Expire(s)
  PROVE  CountInv'
  <1> PICK k : k = slot[s].key
    OBVIOUS
  <1>1. /\ slot[s].pc = "expire" /\ k \in Keys
        /\ slot' = [slot EXCEPT ![s].pc = "judge"]
        /\ ttl' = IF counter[k] = 0 THEN ttl ELSE [ttl EXCEPT ![k] = Window]
        /\ hits' = IF slot[s].count <= Limit /\ s \notin overtaken
                   THEN [hits EXCEPT ![k][0] = @ + 1] ELSE hits
        /\ UNCHANGED <<counter, overtaken>>
    BY DEF Expire, TTLAfter, CountInv, ClockTypes
  <1>2. /\ slot'[s].pc = "judge"
        /\ \A r \in Slots \ {s} : slot'[r] = slot[r]
    BY <1>1 DEF CountInv, ClockTypes
  <1>3. \A j \in Keys : Waiting(j)' = Waiting(j) \ {s}
    BY <1>1, <1>2 DEF Waiting
  <1>4. \A j \in Keys : s \in Waiting(j) <=>
                          j = k /\ slot[s].count <= Limit /\ s \notin overtaken
    BY <1>1 DEF Waiting
  <1>5. \A j \in Keys : /\ counter[j] \in Nat /\ ttl[j] \in 1..Never
                        /\ ttl'[j] = IF j = k /\ counter[k] # 0 THEN Window ELSE ttl[j]
    BY <1>1 DEF CountInv, ClockTypes
  <1>6. CASE s \notin Waiting(k)
    <2>1. hits' = hits
      BY <1>1, <1>4, <1>6
    <2>2. HitTypes'
      BY <2>1 DEF CountInv, HitTypes
    <2>3. KeyOutlives'
      BY <1>1, <1>5, <2>1, RateAssumption DEF CountInv, KeyOutlives, Ages
    <2>4. \A j \in Keys : Waiting(j)' = Waiting(j)
      BY <1>3, <1>4, <1>6
    <2>5. WithinBudget'
      BY <1>1, <2>1, <2>4 DEF CountInv, WithinBudget
    <2> QED
      BY <2>2, <2>3, <2>5 DEF CountInv
  <1>7. CASE s \in Waiting(k)
    <2>1. hits' = [hits EXCEPT ![k][0] = hits[k][0] + 1]
      BY <1>1, <1>4, <1>7
    <2>2. 0 \in Ages
      BY RateAssumption DEF Ages
    <2>3. /\ \A j \in Keys : hits[j] \in [Ages -> Nat]
          /\ \A j \in Keys \ {k} : hits'[j] = hits[j]
          /\ hits'[k] = [hits[k] EXCEPT ![0] = hits[k][0] + 1]
      BY <1>1, <2>1 DEF CountInv, HitTypes
    <2>4. hits'[k] \in [Ages -> Nat] /\ HitTypes'
      BY <1>1, <2>1, <2>2, <2>3 DEF CountInv, HitTypes
    <2>5. Recent(hits'[k]) = Recent(hits[k]) + 1
      <3>1. /\ hits'[k][0] = hits[k][0] + 1
            /\ \A a \in Ages \ {0} : hits'[k][a] = hits[k][a]
            /\ \A a \in Ages : hits[k][a] \in Int /\ hits'[k][a] \in Int
        <4>1. hits[k] \in [Ages -> Nat]
          BY <1>1, <2>3
        <4> QED
          BY <2>2, <2>3, <2>4, <4>1
      <3>2. Recent(hits'[k]) = Recent(hits[k]) + hits'[k][0] - hits[k][0]
        BY <2>2, <3>1, AgesFinite, SumChange DEF Recent
      <3>3. Recent(hits[k]) \in Nat /\ hits[k][0] \in Nat
        BY <1>1, <2>2, <2>3, RecentType
      <3> QED
        BY <3>1, <3>2, <3>3
    <2>6. \A j \in Keys : /\ Recent(hits[j]) \in Nat
                          /\ IsFiniteSet(Waiting(j)) /\ Cardinality(Waiting(j)) \in Nat
                          /\ Recent(hits[j]) + Cardinality(Waiting(j)) <= Limit
                          /\ Recent(hits[j]) + Cardinality(Waiting(j)) <= counter[j]
      BY <2>3, RecentType, WaitingFinite DEF CountInv, WithinBudget
    <2>7. Cardinality(Waiting(k) \ {s}) = Cardinality(Waiting(k)) - 1
      <3>1. IsFiniteSet(Waiting(k))
        BY <1>1, <2>6
      <3> QED
        BY <1>7, <3>1, FS_RemoveElement
    <2>8. Cardinality(Waiting(k) \ {s}) \in Nat
      BY <1>1, <2>6, FS_RemoveElement, FS_CardinalityType
    <2>9. counter[k] > 0
      BY <1>1, <1>5, <2>6, <2>7, <2>8
    <2>10. KeyOutlives'
      <3> SUFFICES ASSUME NEW j \in Keys, NEW a \in Ages, hits'[j][a] > 0
                   PROVE  counter[j] > 0 /\ ttl'[j] + a >= Window
        BY <1>1 DEF KeyOutlives
      <3>1. CASE j = k
        BY <1>5, <2>9, <3>1, RateAssumption DEF Ages
      <3>2. CASE j # k
        BY <1>5, <2>3, <3>2 DEF CountInv, KeyOutlives
      <3> QED
        BY <3>1, <3>2
    <2>11. WithinBudget'
      <3> SUFFICES ASSUME NEW j \in Keys
                   PROVE  /\ Recent(hits'[j]) + Cardinality(Waiting(j)') <= Limit
                          /\ Recent(hits'[j]) + Cardinality(Waiting(j)') <= counter[j]
        BY <1>1 DEF WithinBudget
      <3>1. CASE j = k
        <4>1. Waiting(k)' = Waiting(k) \ {s} /\ counter[k] \in Nat
          BY <1>1, <1>3, <1>5
        <4>2. /\ Recent(hits[k]) \in Nat /\ Cardinality(Waiting(k)) \in Nat
              /\ Recent(hits[k]) + Cardinality(Waiting(k)) <= Limit
              /\ Recent(hits[k]) + Cardinality(Waiting(k)) <= counter[k]
          BY <1>1, <2>6
        <4>3. /\ Recent(hits'[k]) + Cardinality(Waiting(k)') <= Limit
              /\ Recent(hits'[k]) + Cardinality(Waiting(k)') <= counter[k]
          BY <2>5, <2>7, <4>1, <4>2, RateAssumption
        <4> QED
          BY <3>1, <4>3
      <3>2. CASE j # k
        <4>1. Waiting(j)' = Waiting(j) /\ hits'[j] = hits[j]
          <5>1. Waiting(j)' = Waiting(j) \ {s} /\ s \notin Waiting(j)
            BY <1>3, <1>4, <3>2
          <5> QED
            BY <2>3, <3>2, <5>1
        <4> QED
          BY <2>6, <4>1
      <3> QED
        BY <3>1, <3>2
    <2> QED
      BY <2>4, <2>10, <2>11 DEF CountInv
  <1> QED
    BY <1>6, <1>7

\* A key that runs out was last renewed a window ago: nothing recent was counted
\* under it, and whoever is between his two commands is no longer counted.
LEMMA TickCount ==
  ASSUME CountInv, ClockTypes', Tick
  PROVE  CountInv'
  <1>1. \A k \in Keys :
          /\ counter'[k] = IF Expires(k) THEN 0 ELSE counter[k]
          /\ ttl'[k] = IF ttl[k] = Never \/ Expires(k) THEN Never ELSE ttl[k] - 1
          /\ hits'[k] = Older(hits[k]) /\ hits[k] \in [Ages -> Nat]
          /\ counter[k] \in Nat /\ ttl[k] \in 1..Never
    BY DEF Tick, CountInv, HitTypes, ClockTypes
  <1>2. \A k \in Keys : /\ hits'[k] \in [Ages -> Nat]
                        /\ \A a \in Ages : hits'[k][a] = IF a = 0 THEN 0 ELSE hits[k][a - 1]
    <2> SUFFICES ASSUME NEW k \in Keys
                 PROVE  /\ hits'[k] \in [Ages -> Nat]
                        /\ \A a \in Ages : hits'[k][a] =
                             IF a = 0 THEN 0 ELSE hits[k][a - 1]
      OBVIOUS
    <2>1. hits'[k] = [a \in Ages |-> IF a = 0 THEN 0 ELSE hits[k][a - 1]]
      BY <1>1 DEF Older
    <2>2. \A a \in Ages : a # 0 => a - 1 \in Ages
      BY RateAssumption DEF Ages
    <2>3. hits[k] \in [Ages -> Nat]
      BY <1>1
    <2> QED
      BY <2>1, <2>2, <2>3
  <1>3. HitTypes'
    BY <1>2 DEF Tick, HitTypes
  <1>4. \A k \in Keys : Expires(k) => \A a \in Ages : hits'[k][a] = 0
    <2> SUFFICES ASSUME NEW k \in Keys, Expires(k), NEW a \in Ages, hits'[k][a] # 0
                 PROVE  FALSE
      OBVIOUS
    <2>1. a # 0 /\ hits[k][a - 1] # 0
      BY <1>2
    <2>2. a - 1 \in Ages
      BY <2>1, RateAssumption DEF Ages
    <2>3. hits[k][a - 1] \in Nat /\ hits[k][a - 1] > 0
      <3>1. hits[k] \in [Ages -> Nat]
        BY <1>1
      <3>2. hits[k][a - 1] \in Nat
        BY <2>2, <3>1
      <3> QED
        BY <2>1, <3>2
    <2>4. ttl[k] = 1 /\ ttl[k] + (a - 1) >= Window
      BY <2>2, <2>3 DEF Expires, CountInv, KeyOutlives
    <2> QED
      BY <2>4, RateAssumption DEF Ages
  <1>5. KeyOutlives'
    <2> SUFFICES ASSUME NEW k \in Keys, NEW a \in Ages, hits'[k][a] > 0
                 PROVE  counter'[k] > 0 /\ ttl'[k] + a >= Window
      BY DEF KeyOutlives
    <2>1. ~Expires(k) /\ a # 0 /\ hits[k][a - 1] > 0
      BY <1>2, <1>4
    <2>2. a - 1 \in Ages /\ a \in Int /\ Window \in Int
      BY <2>1, RateAssumption DEF Ages
    <2>3. counter[k] > 0 /\ ttl[k] + (a - 1) >= Window
      BY <2>1, <2>2 DEF CountInv, KeyOutlives
    <2>4. /\ counter'[k] = counter[k] /\ ttl[k] \in Int
          /\ ttl'[k] = IF ttl[k] = Never THEN Never ELSE ttl[k] - 1
      BY <1>1, <2>1
    <2>5. a >= 0
      BY DEF Ages
    <2> QED
      BY <2>2, <2>3, <2>4, <2>5 DEF Never
  <1>6. \A k \in Keys : Waiting(k)' = IF Expires(k) THEN {} ELSE Waiting(k)
    BY DEF Tick, Waiting, BetweenCommands
  <1>7. WithinBudget'
    <2> SUFFICES ASSUME NEW k \in Keys
                 PROVE  /\ Recent(hits'[k]) + Cardinality(Waiting(k)') <= Limit
                        /\ Recent(hits'[k]) + Cardinality(Waiting(k)') <= counter'[k]
      BY DEF WithinBudget
    <2>1. CASE Expires(k)
      <3>1. Recent(hits'[k]) = 0 /\ Waiting(k)' = {} /\ Cardinality({}) = 0
        BY <1>4, <1>6, <2>1, AgesFinite, SumZero, FS_EmptySet DEF Recent
      <3> QED
        BY <1>1, <2>1, <3>1, RateAssumption
    <2>2. CASE ~Expires(k)
      <3>1. /\ Recent(hits'[k]) <= Recent(hits[k])
            /\ Recent(hits'[k]) \in Nat /\ Recent(hits[k]) \in Nat
        BY <1>1, <1>2, OlderLoses, RecentType
      <3>2. Waiting(k)' = Waiting(k) /\ Cardinality(Waiting(k)) \in Nat
        BY <1>6, <2>2, WaitingFinite
      <3>3. /\ Recent(hits[k]) + Cardinality(Waiting(k)) <= Limit
            /\ Recent(hits[k]) + Cardinality(Waiting(k)) <= counter[k]
        BY DEF CountInv, WithinBudget
      <3> QED
        BY <1>1, <2>2, <3>1, <3>2, <3>3, RateAssumption
    <2> QED
      BY <2>1, <2>2
  <1> QED
    BY <1>3, <1>5, <1>7 DEF CountInv

\* A Redis that restarts has forgotten the keys, and their hits are not counted.
LEMMA ForgetCount ==
  ASSUME CountInv, ClockTypes', Forget
  PROVE  CountInv'
  <1>1. \A k \in Keys : hits'[k] = NoHits /\ counter'[k] = 0 /\ Waiting(k)' = {}
    BY DEF Forget, Waiting, BetweenCommands
  <1>2. HitTypes' /\ KeyOutlives'
    BY <1>1 DEF Forget, HitTypes, KeyOutlives, NoHits
  <1>3. Recent(NoHits) = 0 /\ Cardinality({}) = 0
    BY AgesFinite, SumZero, FS_EmptySet DEF Recent, NoHits
  <1>4. WithinBudget'
    BY <1>1, <1>3, RateAssumption DEF WithinBudget
  <1> QED
    BY <1>2, <1>4 DEF CountInv

LEMMA CountNext == ClockInv /\ CountInv /\ [Next]_vars => CountInv'
  <1> SUFFICES ASSUME ClockInv, CountInv, [Next]_vars PROVE CountInv'
    OBVIOUS
  <1>1. ClockTypes'
    BY ClockNext DEF ClockInv
  <1>2. \A k \in Keys : counter[k] \in Nat /\ ttl[k] \in 1..Never
    BY DEF CountInv, ClockTypes
  <1>3. ASSUME NEW s \in Slots, NEW k \in Keys, Arrive(s, k) PROVE CountInv'
    <2>1. /\ slot[s].pc = "idle" /\ slot'[s].pc = "incr"
          /\ \A r \in Slots \ {s} : slot'[r] = slot[r]
          /\ overtaken' = overtaken \ {s} /\ UNCHANGED <<counter, ttl, hits>>
      BY <1>3 DEF Arrive, CountInv, ClockTypes
    <2>2. \A j \in Keys : Waiting(j)' \subseteq Waiting(j)
      BY <2>1 DEF Waiting
    <2> QED
      BY <1>1, <1>2, <2>1, <2>2, CountFrame, RateAssumption DEF Never
  <1>4. ASSUME NEW s \in Slots, Incr(s) PROVE CountInv'
    BY <1>1, <1>4, IncrCount
  <1>5. ASSUME NEW s \in Slots, Expire(s) PROVE CountInv'
    BY <1>1, <1>5, ExpireCount
  <1>6. ASSUME NEW s \in Slots, Admit(s) \/ Refuse(s) \/ FailOpen(s) PROVE CountInv'
    <2>1. /\ slot' = [slot EXCEPT ![s] = Idle]
          /\ UNCHANGED <<counter, ttl, overtaken, hits>>
      BY <1>6 DEF Admit, Refuse, FailOpen, history
    <2>2. slot'[s].pc = "idle" /\ \A r \in Slots \ {s} : slot'[r] = slot[r]
      BY <2>1 DEF Idle, CountInv, ClockTypes
    <2>3. \A j \in Keys : Waiting(j)' \subseteq Waiting(j)
      BY <2>1, <2>2 DEF Waiting
    <2> QED
      BY <1>1, <1>2, <2>1, <2>3, CountFrame, RateAssumption DEF Never
  <1>7. CASE Forget
    BY <1>1, <1>7, ForgetCount
  <1>8. CASE Tick
    BY <1>1, <1>8, TickCount
  <1>9. CASE UNCHANGED vars
    <2>1. UNCHANGED <<counter, ttl, slot, overtaken, hits>>
      BY <1>9 DEF vars, history
    <2>2. \A j \in Keys : Waiting(j)' \subseteq Waiting(j)
      BY <2>1 DEF Waiting
    <2> QED
      BY <1>1, <1>2, <2>1, <2>2, CountFrame, RateAssumption DEF Never
  <1> QED
    BY <1>3, <1>4, <1>5, <1>6, <1>7, <1>8, <1>9 DEF Next, Serve

\* At most Limit requests of a key are admitted in any stretch of time shorter
\* than Window, for every number of servers, limit and window, whatever is lost on
\* the way to Redis (middleware/ratelimit.go, IncrWithExpiry of pkg/redis).
THEOREM SlidingLimitInvariant == Spec => []SlidingLimit
  <1>1. CountInv => SlidingLimit
    <2> SUFFICES ASSUME CountInv, NEW k \in Keys
                 PROVE  FoldFunction(+, 0, hits[k]) <= Limit
      BY DEF SlidingLimit
    <2>1. hits[k] \in [Ages -> Nat] /\ DOMAIN hits[k] = Ages
      BY DEF CountInv, HitTypes
    <2>2. FoldFunction(+, 0, hits[k]) = SumFunctionOnSet(hits[k], DOMAIN hits[k])
      BY Zenon DEF FoldFunction, SumFunctionOnSet
    <2>3. FoldFunction(+, 0, hits[k]) = Recent(hits[k])
      BY <2>1, <2>2, Zenon DEF Recent
    <2>4. Recent(hits[k]) + Cardinality(Waiting(k)) <= Limit
      BY DEF CountInv, WithinBudget
    <2>5. Recent(hits[k]) \in Nat /\ Cardinality(Waiting(k)) \in Nat
      BY <2>1, RecentType, WaitingFinite
    <2>6. Recent(hits[k]) <= Limit
      BY <2>4, <2>5, RateAssumption
    <2> QED
      BY <2>3, <2>6, Zenon
  <1> QED
    BY <1>1, CountInit, CountNext, ClockInvariant, PTL DEF Spec
=============================================================================
