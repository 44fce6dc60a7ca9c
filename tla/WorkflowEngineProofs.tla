--------------------------- MODULE WorkflowEngineProofs ---------------------------
(***************************************************************************)
(* Theorems about the workflow engine, for every script, every number of   *)
(* subagents, lives and retunes, and every interleaving of crashes.        *)
(***************************************************************************)
EXTENDS WorkflowEngine, TLAPS, FiniteSetTheorems, SequenceTheorems

--------------------------------------------------------------------------------
(* The inductive invariant. *)

\* Every ask in liveNodes has a row, and the row is still running.
LiveIsRunning == \A i \in Elements(live) : rows[i] # NoRow /\ rows[i].status = "running"

\* The calls waiting in pendingLive of an actor.
WaitingNew(as, a) == {as[a].pendingLive[n][1] : n \in DOMAIN as[a].pendingLive}

\* A call in pendingLive has no row, got its ordinal in this life, and waits for one
\* actor only: its admission writes a new row and overwrites none.
NewCallsAreNew ==
    \A a \in Actors : \A i \in WaitingNew(actors, a) :
        /\ rows[i] = NoRow
        /\ i[2] <= ordinals[i[1]]
        /\ \A c \in Actors : i \in WaitingNew(actors, c) => c = a

\* A call in pendingRecorded has the row it will be answered or dispatched from.
RecordedCallsHaveRows == \A a \in Actors : actors[a].pendingRecorded \subseteq Recorded

\* The gate is about settled asks: what it queues or parks has a final answer.
GateHoldsSettled == gate \in Gate(Terminal)

IInv == TypeOK /\ LiveIsRunning /\ NewCallsAreNew /\ RecordedCallsHaveRows /\ GateHoldsSettled

--------------------------------------------------------------------------------
(* The settle-order gate, for every set of keys: whatever it parks, queues and     *)
(* delivers are keys it was given.  The engine's keys are its settled asks.        *)

\* Sorting a finite set by any rank lists elements of that set (the order table that
\* recoverSettleOrder builds names only claimable instances).
LEMMA SortedByType ==
    ASSUME NEW S, IsFiniteSet(S), NEW rank
    PROVE  SortedBy(S, rank) \in Seq(S)
<1> DEFINE Place(i) == Cardinality({j \in S : rank[j] < rank[i]}) + 1
           Pick(n)  == CHOOSE i \in S : (\E j \in S : Place(j) = n) => Place(i) = n
<1>1. Cardinality(S) \in Nat
  BY FS_CardinalityType
<1>2. ASSUME NEW n \in 1..Cardinality(S) PROVE Pick(n) \in S
  <2>1. S # {}
    BY <1>1, <1>2, FS_EmptySet
  <2>2. \E i \in S : (\E j \in S : Place(j) = n) => Place(i) = n
    <3> HIDE DEF Place
    <3> QED BY <2>1
  <2> QED BY <2>2
<1>3. SortedBy(S, rank) = [n \in 1..Cardinality(S) |-> Pick(n)]
  BY DEF SortedBy
<1> HIDE DEF Pick
<1> QED BY <1>1, <1>2, <1>3

\* pump() leaves a gate: its cursor stays a place of the order table or one behind
\* it, and only keys of the table are queued.
LEMMA PumpedType ==
    ASSUME NEW Keys, NEW g \in Gate(Keys)
    PROVE  Pumped(g) \in Gate(Keys)
<1> DEFINE from   == g.cursor
           last   == Len(g.order)
           passed == {n \in from..last : \A m \in from..n : g.order[m] \in g.parked}
           stop   == from + Cardinality(passed)
           gone   == {g.order[m] : m \in passed}
           queued == SubSeq(g.order, from, stop - 1)
<1>1. from \in Int /\ from >= 1 /\ last \in Int /\ last >= 0
  <2>1. Len(g.order) \in Nat
    BY LenProperties DEF Gate
  <2> QED BY <2>1 DEF Gate
<1>2. Cardinality(from..last) = IF from > last THEN 0 ELSE last - from + 1
  <2> HIDE DEF from, last
  <2> QED BY <1>1, FS_Interval
<1>3. IsFiniteSet(from..last)
  <2> HIDE DEF from, last
  <2> QED BY <1>1, FS_Interval
<1>4. Cardinality(passed) \in Nat /\ Cardinality(passed) <= Cardinality(from..last)
  <2>1. passed \in SUBSET (from..last)
    OBVIOUS
  <2> HIDE DEF passed, from, last
  <2> QED BY <1>3, <2>1, FS_Subset, FS_CardinalityType
<1>5. stop \in Int /\ stop >= from /\ (stop - 1 <= last \/ stop = from)
  <2> HIDE DEF passed, from, last
  <2> QED BY <1>1, <1>2, <1>4
<1>6. \A i \in from..(stop - 1) : g.order[i] \in Keys
  <2> SUFFICES ASSUME NEW i \in from..(stop - 1) PROVE g.order[i] \in Keys
    OBVIOUS
  <2>1. i \in 1..Len(g.order)
    <3> HIDE DEF stop, from
    <3> QED BY <1>1, <1>5
  <2> QED BY <2>1, ElementOfSeq DEF Gate
<1>7. queued \in Seq(Keys)
  <2>1. stop - 1 \in Int
    <3> HIDE DEF stop, from
    <3> QED BY <1>5
  <2> HIDE DEF stop, from
  <2> QED BY <1>1, <1>6, <2>1, SubSeqProperties
<1>8. g.queue \o queued \in Seq(Keys)
  <2> HIDE DEF queued
  <2> QED BY <1>7, ConcatProperties DEF Gate
<1>9. g.parked \ gone \in SUBSET Keys
  <2> HIDE DEF gone
  <2> QED BY DEF Gate
<1>10. Pumped(g) = [g EXCEPT !.cursor = stop, !.queue = @ \o queued, !.parked = @ \ gone]
  BY DEF Pumped
<1>11. stop \in Nat \ {0}
  <2> HIDE DEF stop, from
  <2> QED BY <1>1, <1>5
<1> HIDE DEF from, last, stop, queued, gone, passed
<1> QED BY <1>8, <1>9, <1>10, <1>11 DEF Gate

\* hold() leaves a gate over the keys it held before and was given now.
LEMMA HoldType ==
    ASSUME NEW Keys, NEW g \in Gate(Keys), NEW K \in SUBSET Keys
    PROVE  Hold(g, K) \in Gate(Keys)
<1> DEFINE waiting == {k \in K : ~Passes(g, k)}
           parking == [g EXCEPT !.parked = @ \cup waiting]
<1>1. parking \in Gate(Keys)
  BY DEF Gate
<1> HIDE DEF parking
<1>2. Pumped(parking) \in Gate(Keys)
  BY <1>1, PumpedType
<1> QED BY <1>2 DEF Hold, parking

\* flush() and open() leave a gate, and what open() lets go of are keys of the gate.
LEMMA FlushedType ==
    ASSUME NEW Keys, NEW g \in Gate(Keys)
    PROVE  Flushed(g) \in Gate(Keys)
BY EmptySeq DEF Flushed, Gate

\* So does open(), which empties the gate and moves its cursor behind the last place.
LEMMA OpenedType ==
    ASSUME NEW Keys, NEW g \in Gate(Keys)
    PROVE  Opened(g) \in Gate(Keys)
<1>1. Len(g.order) + 1 \in Nat \ {0}
  BY LenProperties DEF Gate
<1> QED BY <1>1, EmptySeq DEF Opened, Gate

\* What open() lets go of, whether queued or parked, was given to the gate.
LEMMA RemainingType ==
    ASSUME NEW Keys, IsFiniteSet(Keys), NEW g \in Gate(Keys)
    PROVE  Remaining(g) \in Seq(Keys)
<1> DEFINE rank == [k \in g.parked |-> CHOOSE n \in DOMAIN g.order : g.order[n] = k]
<1>1. IsFiniteSet(g.parked)
  BY FS_Subset DEF Gate
<1> HIDE DEF rank
<1>2. SortedBy(g.parked, rank) \in Seq(g.parked)
  BY <1>1, SortedByType
<1>3. SortedBy(g.parked, rank) \in Seq(Keys)
  BY <1>2 DEF Gate
<1>4. g.queue \o SortedBy(g.parked, rank) \in Seq(Keys)
  BY <1>3, ConcatProperties DEF Gate
<1> QED BY <1>4 DEF Remaining, rank

\* A gate over some keys is a gate over more keys.
LEMMA GateMonotone ==
    ASSUME NEW K1, NEW K2, K1 \subseteq K2, NEW g \in Gate(K1)
    PROVE  g \in Gate(K2)
BY DEF Gate

\* The gate a resumed run starts with.
LEMMA NewGateType ==
    ASSUME NEW Keys, NEW order \in Seq(Keys)
    PROVE  NewGate(order) \in Gate(Keys)
BY EmptySeq DEF NewGate, Gate
--------------------------------------------------------------------------------
(* Counting. *)

\* The values of f on S.
Values(f, S) == {f[x] : x \in S}

\* A function that differs on different elements has as many values as elements.
LEMMA DistinctImage ==
    ASSUME NEW S, IsFiniteSet(S), NEW f, \A x, y \in S : f[x] = f[y] => x = y
    PROVE  IsFiniteSet(Values(f, S)) /\ Cardinality(Values(f, S)) = Cardinality(S)
<1> DEFINE T == Values(f, S)
           g == [x \in S |-> f[x]]
<1>1. g \in [S -> T]
  BY DEF Values
<1>2. g \in Surjection(S, T)
  BY <1>1 DEF Surjection, Values
<1>3. g \in Injection(S, T)
  BY <1>1 DEF Injection, IsInjective
<1> HIDE DEF g, T
<1>4. IsFiniteSet(T) /\ Cardinality(T) = Cardinality(S)
  BY <1>2, <1>3, FS_Surjection
<1> QED BY <1>4 DEF T

\* A finite set of numbers that has with each number all between lo and it is an interval.
LEMMA InitialSegment ==
    ASSUME NEW lo \in Int, NEW T \in SUBSET Int, IsFiniteSet(T),
           \A s \in T : s >= lo /\ lo..s \subseteq T
    PROVE  Cardinality(T) \in Nat /\ T = lo..(lo + Cardinality(T) - 1)
<1>1. Cardinality(T) \in Nat
  BY FS_CardinalityType
<1> DEFINE hi == lo + Cardinality(T) - 1
<1>2. hi \in Int
  BY <1>1
<1>3. ASSUME NEW s \in T PROVE s <= hi
  <2>1. IsFiniteSet(lo..s) /\ Cardinality(lo..s) = s - lo + 1
    <3>1. s \in Int /\ s >= lo
      OBVIOUS
    <3> QED BY <3>1, FS_Interval
  <2>2. Cardinality(lo..s) <= Cardinality(T)
    BY FS_Subset
  <2> QED BY <1>1, <2>1, <2>2
<1>4. T \subseteq lo..hi
  BY <1>2, <1>3
<1>5. IsFiniteSet(lo..hi) /\ Cardinality(lo..hi) = Cardinality(T)
  <2>1. IsFiniteSet(lo..hi) /\ Cardinality(lo..hi) = IF lo > hi THEN 0 ELSE hi - lo + 1
    BY <1>2, FS_Interval
  <2> QED BY <1>1, <2>1
<1> QED BY <1>1, <1>4, <1>5, FS_Subset

\* s lists every element of S, once, by increasing rank.
Lists(s, S, rank) ==
    /\ s \in Seq(S) /\ Len(s) = Cardinality(S)
    /\ \A n \in DOMAIN s : s[n] \in S
    /\ \A i \in S : \E n \in DOMAIN s : s[n] = i
    /\ \A m, n \in DOMAIN s : m < n => rank[s[m]] < rank[s[n]]

\* Sorting by distinct ranks does.
LEMMA SortedByRank ==
    ASSUME NEW S, IsFiniteSet(S), NEW rank, \A i \in S : rank[i] \in Int,
           \A i, j \in S : rank[i] = rank[j] => i = j
    PROVE  Lists(SortedBy(S, rank), S, rank)
<1> DEFINE Before(i) == {j \in S : rank[j] < rank[i]}
           Place(i)  == Cardinality(Before(i)) + 1
           Pick(n)   == CHOOSE i \in S : (\E j \in S : Place(j) = n) => Place(i) = n
           s         == SortedBy(S, rank)
           K         == Cardinality(S)
<1>1. K \in Nat
  BY FS_CardinalityType
<1>2. s = [n \in 1..K |-> Pick(n)]
  BY DEF SortedBy
<1>3. ASSUME NEW i \in S
      PROVE  IsFiniteSet(Before(i)) /\ Cardinality(Before(i)) \in Nat /\ Cardinality(Before(i)) < K
  <2>1. Before(i) \in SUBSET S /\ i \notin Before(i)
    OBVIOUS
  <2> HIDE DEF Before
  <2>2. IsFiniteSet(Before(i)) /\ Cardinality(Before(i)) \in Nat /\ Cardinality(Before(i)) <= K
    BY <2>1, FS_Subset, FS_CardinalityType
  <2>3. Cardinality(Before(i)) = K => Before(i) = S
    BY <2>1, FS_Subset
  <2> QED BY <1>1, <2>1, <2>2, <2>3
<1>4. ASSUME NEW i \in S, NEW j \in S, rank[i] < rank[j]
      PROVE  Place(i) < Place(j)
  <2>1. Before(i) \in SUBSET Before(j) /\ i \in Before(j) /\ i \notin Before(i)
    BY <1>4
  <2> HIDE DEF Before
  <2>2. /\ Cardinality(Before(i)) <= Cardinality(Before(j))
        /\ Cardinality(Before(j)) = Cardinality(Before(i)) => Before(j) = Before(i)
    BY <1>3, <2>1, FS_Subset
  <2>3. Cardinality(Before(i)) \in Nat /\ Cardinality(Before(j)) \in Nat
    BY <1>3
  <2> QED BY <2>1, <2>2, <2>3
<1>5. ASSUME NEW i \in S PROVE Place(i) \in 1..K
  <2> HIDE DEF Before, K
  <2> QED BY <1>1, <1>3
<1> HIDE DEF Place
<1>6. \A i, j \in S : Place(i) = Place(j) => i = j
  <2> SUFFICES ASSUME NEW i \in S, NEW j \in S, i # j PROVE Place(i) # Place(j)
    OBVIOUS
  <2>1. rank[i] < rank[j] \/ rank[j] < rank[i]
    OBVIOUS
  <2>2. Place(i) \in Int /\ Place(j) \in Int
    BY <1>5
  <2> QED BY <1>4, <2>1, <2>2
<1>7. {Place(i) : i \in S} = 1..K
  <2> DEFINE f == [i \in S |-> Place(i)]
  <2>1. IsFiniteSet(Values(f, S)) /\ Cardinality(Values(f, S)) = K
    <3>1. \A x, y \in S : f[x] = f[y] => x = y
      BY <1>6
    <3> HIDE DEF f
    <3> QED BY <3>1, DistinctImage
  <2>2. Values(f, S) = {Place(i) : i \in S}
    BY DEF Values
  <2>3. {Place(i) : i \in S} \in SUBSET (1..K)
    BY <1>5
  <2>4. IsFiniteSet(1..K) /\ Cardinality(1..K) = K
    BY <1>1, FS_Interval
  <2> HIDE DEF f
  <2> QED BY <2>1, <2>2, <2>3, <2>4, FS_Subset
<1>8. ASSUME NEW n \in 1..K
      PROVE  Pick(n) \in S /\ Place(Pick(n)) = n
  <2>1. PICK i \in S : Place(i) = n
    BY <1>7
  <2> QED BY <2>1
<1> HIDE DEF Pick
<1>9. DOMAIN s = 1..K /\ \A n \in 1..K : s[n] \in S /\ Place(s[n]) = n
  BY <1>2, <1>8
<1>10. s \in Seq(S) /\ Len(s) = K
  <2>1. s \in Seq(S)
    BY SortedByType
  <2> HIDE DEF s
  <2>2. DOMAIN s = 1..Len(s) /\ Len(s) \in Nat
    BY <2>1, LenProperties
  <2> QED BY <1>1, <1>9, <2>1, <2>2
<1> HIDE DEF s
<1>11. /\ \A n \in DOMAIN s : s[n] \in S
       /\ \A i \in S : \E n \in DOMAIN s : s[n] = i
  <2>1. \A i \in S : i = s[Place(i)] /\ Place(i) \in DOMAIN s
    BY <1>5, <1>6, <1>9
  <2> QED BY <1>9, <2>1
<1>12. ASSUME NEW m \in DOMAIN s, NEW n \in DOMAIN s, m < n
       PROVE  rank[s[m]] < rank[s[n]]
  <2>1. s[m] \in S /\ s[n] \in S /\ Place(s[m]) = m /\ Place(s[n]) = n
    BY <1>9
  <2>2. ~(rank[s[n]] < rank[s[m]])
    BY <1>4, <1>9, <1>12, <2>1
  <2>3. rank[s[m]] # rank[s[n]]
    <3>1. m # n
      BY <1>9, <1>12
    <3> QED BY <2>1, <3>1
  <2> QED BY <2>1, <2>2, <2>3
<1> QED BY <1>10, <1>11, <1>12 DEF s, Lists

--------------------------------------------------------------------------------
(* Facts about the operators. *)

\* A run has finitely many instances (maxNodes), so every table over them is finite.
LEMMA InstancesFinite == IsFiniteSet(Instances)
<1>1. IsFiniteSet(1..MaxOrdinal)
  BY FS_Interval, ConstantsAssumption
<1> QED BY <1>1, FS_Product, ConstantsAssumption DEF Instances

\* The elements of a queue are of the queue's type.
LEMMA ElementsOfSeq ==
    ASSUME NEW S, NEW s \in Seq(S)
    PROVE  Elements(s) \subseteq S
BY LenProperties, ElementOfSeq DEF Elements

\* Admitting a batch behind a queue adds the batch and nothing else.
LEMMA ElementsConcat ==
    ASSUME NEW S, NEW s \in Seq(S), NEW t \in Seq(S)
    PROVE  Elements(s \o t) \subseteq Elements(s) \cup Elements(t)
<1> SUFFICES ASSUME NEW n \in DOMAIN (s \o t)
             PROVE  (s \o t)[n] \in Elements(s) \cup Elements(t)
  BY DEF Elements
<1>1. /\ Len(s) \in Nat /\ Len(t) \in Nat
      /\ DOMAIN s = 1..Len(s) /\ DOMAIN t = 1..Len(t)
      /\ DOMAIN (s \o t) = 1..(Len(s) + Len(t))
  BY LenProperties, ConcatProperties
<1>2. n \in 1..(Len(s) + Len(t))
  BY <1>1
<1>3. (s \o t)[n] = IF n <= Len(s) THEN s[n] ELSE t[n - Len(s)]
  BY <1>2, ConcatProperties
<1>4. CASE n <= Len(s)
  <2>1. n \in DOMAIN s
    BY <1>1, <1>2, <1>4
  <2> QED BY <1>3, <1>4, <2>1 DEF Elements
<1>5. CASE ~(n <= Len(s))
  <2>1. n - Len(s) \in DOMAIN t
    BY <1>1, <1>2, <1>5
  <2> QED BY <1>3, <1>5, <2>1 DEF Elements
<1> QED BY <1>4, <1>5

\* Removing an ask from liveNodes removes it for good and adds nothing.
LEMMA WithoutType ==
    ASSUME NEW S, NEW s \in Seq(S), NEW x
    PROVE  /\ Without(s, x) \in Seq(S)
           /\ Elements(Without(s, x)) \subseteq Elements(s) \ {x}
<1> DEFINE kept == {n \in DOMAIN s : s[n] # x}
           at   == SortedBy(kept, [n \in kept |-> n])
<1>1. DOMAIN s = 1..Len(s) /\ Len(s) \in Nat
  BY LenProperties
<1>2. IsFiniteSet(kept)
  <2>1. IsFiniteSet(1..Len(s))
    BY <1>1, FS_Interval
  <2> QED BY <1>1, <2>1, FS_Subset
<1>3. at \in Seq(kept)
  <2> HIDE DEF kept
  <2> QED BY <1>2, SortedByType
<1>4. /\ Len(at) \in Nat /\ DOMAIN at = 1..Len(at)
      /\ \A n \in DOMAIN at : at[n] \in kept
  <2> HIDE DEF at, kept
  <2> QED BY <1>3, LenProperties, ElementOfSeq
<1> HIDE DEF at
<1>5. \A n \in DOMAIN at : s[at[n]] \in Elements(s) \ {x}
  BY <1>4 DEF Elements
<1>6. Elements(s) \subseteq S
  BY ElementsOfSeq
<1>7. Without(s, x) = [n \in DOMAIN at |-> s[at[n]]]
  BY DEF Without, at
<1>8. [n \in 1..Len(at) |-> s[at[n]]] \in Seq(S)
  <2> DEFINE e(n) == s[at[n]]
  <2>1. \A n \in 1..Len(at) : e(n) \in S
    BY <1>4, <1>5, <1>6
  <2> HIDE DEF e
  <2>2. [n \in 1..Len(at) |-> e(n)] \in Seq(S)
    BY <1>4, <2>1, IsASeq
  <2> QED BY <2>2 DEF e
<1> QED BY <1>4, <1>5, <1>7, <1>8 DEF Elements

\* The asks in dispatch can be counted: there are finitely many actors.
LEMMA ActorsFinite ==
    ASSUME NEW A \in SUBSET Actors
    PROVE  IsFiniteSet(A) /\ Cardinality(A) \in Nat
BY FS_Subset, FS_CardinalityType, ConstantsAssumption

\* Pumping moves heads of queues into dispatch; it does not touch what waits for its
\* admission.
LEMMA PumpType ==
    ASSUME NEW as \in [Actors -> Actor], NEW active \in Int, NEW A \in SUBSET Actors,
           NEW bound, Pump(as, active, A, bound)
    PROVE  /\ actors' \in [Actors -> Actor]
           /\ activeAsks' \in Int
           /\ \A a \in Actors : /\ actors'[a].pendingLive = as[a].pendingLive
                               /\ actors'[a].pendingRecorded = as[a].pendingRecorded
<1> DEFINE chosen == Dispatchable(as, active, A, bound)
<1>1. chosen \in SUBSET Actors /\ \A a \in chosen : as[a].liveQueue # <<>>
  BY DEF Dispatchable
<1>2. Cardinality(chosen) \in Nat
  <2> HIDE DEF chosen
  <2> QED BY <1>1, ActorsFinite
<1>3. activeAsks' = active + Cardinality(chosen)
  BY DEF Pump
<1>4. actors' = [a \in Actors |->
                   IF a \in chosen
                   THEN [as[a] EXCEPT !.current = Head(as[a].liveQueue),
                                      !.liveQueue = Tail(as[a].liveQueue)]
                   ELSE as[a]]
  BY DEF Pump
<1> HIDE DEF chosen
<1>5. ASSUME NEW a \in Actors
      PROVE  /\ actors'[a] \in Actor
             /\ actors'[a].pendingLive = as[a].pendingLive
             /\ actors'[a].pendingRecorded = as[a].pendingRecorded
  <2>1. as[a] \in Actor /\ as[a].liveQueue \in Seq(Instances)
    BY DEF Actor
  <2>2. CASE a \in chosen
    <3>1. Head(as[a].liveQueue) \in Instances /\ Tail(as[a].liveQueue) \in Seq(Instances)
      BY <1>1, <2>1, <2>2, HeadTailProperties
    <3>2. actors'[a] = [as[a] EXCEPT !.current = Head(as[a].liveQueue),
                                     !.liveQueue = Tail(as[a].liveQueue)]
      BY <1>4, <2>2
    <3> QED BY <2>1, <3>1, <3>2 DEF Actor
  <2>3. CASE a \notin chosen
    BY <1>4, <2>1, <2>3
  <2> QED BY <2>2, <2>3
<1>6. actors' = [a \in Actors |-> actors'[a]]
  BY <1>4, Zenon
<1>7. actors' \in [Actors -> Actor]
  BY <1>5, <1>6
<1>8. activeAsks' \in Int
  BY <1>2, <1>3
<1> QED BY <1>5, <1>7, <1>8

\* Cached settlements of settled asks are events and answers.
LEMMA CachedTypes ==
    ASSUME TypeOK, NEW ks \in Seq(Terminal)
    PROVE  /\ CachedEvents(ks) \in Seq(Event)
           /\ CachedAnswers(ks) \in Seq(Instances \X Outcomes)
<1>1. DOMAIN ks = 1..Len(ks) /\ Len(ks) \in Nat /\ \A n \in 1..Len(ks) : ks[n] \in Terminal
  BY LenProperties, ElementOfSeq
<1>2. \A n \in 1..Len(ks) :
          ks[n] \in Instances /\ OutcomeOf[rows[ks[n]].status] \in {"ok", "failed"}
  <2> TAKE n \in 1..Len(ks)
  <2>1. ks[n] \in Instances /\ rows[ks[n]] \in Row /\ rows[ks[n]].status # "running"
    BY <1>1 DEF Terminal, Recorded, TypeOK
  <2>2. rows[ks[n]].status \in {"completed", "failed"}
    BY <2>1 DEF Row
  <2> QED BY <2>1, <2>2 DEF OutcomeOf
<1>3. CachedEvents(ks) \in Seq(Event)
  <2> DEFINE e(n) == NodeSettled(ks[n], OutcomeOf[rows[ks[n]].status], TRUE)
  <2>1. \A n \in 1..Len(ks) : e(n) \in Event
    BY <1>2 DEF NodeSettled, Event, Outcomes
  <2> HIDE DEF e
  <2>2. [n \in 1..Len(ks) |-> e(n)] \in Seq(Event)
    BY <1>1, <2>1, IsASeq
  <2> QED BY <1>1, <2>2 DEF CachedEvents, e
<1>4. CachedAnswers(ks) \in Seq(Instances \X Outcomes)
  <2> DEFINE e(n) == <<ks[n], OutcomeOf[rows[ks[n]].status]>>
  <2>1. \A n \in 1..Len(ks) : e(n) \in Instances \X Outcomes
    BY <1>2 DEF Outcomes
  <2> HIDE DEF e
  <2>2. [n \in 1..Len(ks) |-> e(n)] \in Seq(Instances \X Outcomes)
    BY <1>1, <2>1, IsASeq
  <2> QED BY <1>1, <2>2 DEF CachedAnswers, e
<1> QED BY <1>3, <1>4

--------------------------------------------------------------------------------
(* The parts of the handlers. *)

\* As long as settled rows stay as they are, what the gate holds stays settled.
LEMMA TerminalGrows ==
    ASSUME \A j \in Terminal : rows'[j] = rows[j]
    PROVE  Terminal \subseteq Terminal'
BY DEF Terminal, Recorded

\* A handler that leaves the gate alone and settles no row twice keeps its contents
\* settled.
LEMMA GateKept ==
    ASSUME GateHoldsSettled, \A j \in Terminal : rows'[j] = rows[j], UNCHANGED gate
    PROVE  GateHoldsSettled'
BY TerminalGrows, GateMonotone DEF GateHoldsSettled

\* The calls that wait for their admission keep their places and their rows when a
\* handler admits nothing.
LEMMA WaitingKept ==
    ASSUME TypeOK, NewCallsAreNew, RecordedCallsHaveRows,
           \A a \in Actors : /\ actors'[a].pendingLive = actors[a].pendingLive
                             /\ actors'[a].pendingRecorded = actors[a].pendingRecorded,
           \A j \in Instances : rows[j] = NoRow <=> rows'[j] = NoRow,
           \A s \in Sites : ordinals[s] <= ordinals'[s],
           ordinals' \in [Sites -> 0..MaxOrdinal]
    PROVE  NewCallsAreNew' /\ RecordedCallsHaveRows'
<1>1. ASSUME NEW a \in Actors
      PROVE  /\ WaitingNew(actors', a) = WaitingNew(actors, a)
             /\ WaitingNew(actors, a) \subseteq Instances
  <2>1. actors[a].pendingLive \in Seq(Instances \X Hashes)
    BY DEF TypeOK, Actor
  <2>2. \A n \in DOMAIN actors[a].pendingLive : actors[a].pendingLive[n] \in Instances \X Hashes
    BY <2>1, LenProperties, ElementOfSeq
  <2> QED BY <2>2 DEF WaitingNew
<1>2. ASSUME NEW a \in Actors, NEW i \in WaitingNew(actors, a)
      PROVE  /\ rows'[i] = NoRow
             /\ i[2] <= ordinals'[i[1]]
             /\ \A c \in Actors : i \in WaitingNew(actors, c) => c = a
  <2>1. i \in Instances
    BY <1>1, <1>2
  <2>2. i[1] \in Sites /\ i[2] \in Nat /\ ordinals[i[1]] \in Nat /\ ordinals'[i[1]] \in Nat
    BY <2>1, ConstantsAssumption DEF Instances, TypeOK
  <2>3. i[2] <= ordinals[i[1]] /\ ordinals[i[1]] <= ordinals'[i[1]]
    BY <1>2, <2>2 DEF NewCallsAreNew
  <2> QED BY <1>2, <2>1, <2>2, <2>3 DEF NewCallsAreNew
<1>3. NewCallsAreNew'
  BY <1>1, <1>2 DEF NewCallsAreNew
<1>4. RecordedCallsHaveRows'
  BY DEF RecordedCallsHaveRows, Recorded
<1> QED BY <1>3, <1>4

\* A settlement.
LEMMA SettleStep ==
    ASSUME IInv, NEW i \in Elements(live), NEW o \in {"ok", "failed"}, Settle(i, o),
           UNCHANGED <<gate, ordinals>>
    PROVE  /\ rows' \in [Instances -> Row \cup {NoRow}]
           /\ events' \in Seq(Event)
           /\ live' \in Seq(Instances)
           /\ inbox' \in Seq(Instances \X Outcomes)
           /\ turns' \in SUBSET Instances
           /\ actors' \in [Actors -> Actor] /\ activeAsks' \in Int
           /\ LiveIsRunning' /\ NewCallsAreNew' /\ RecordedCallsHaveRows' /\ GateHoldsSettled'
           /\ \A j \in Terminal : rows'[j] = rows[j]
<1> DEFINE a    == rows[i].actor
           mine == actors[a].current = i
           as   == [actors EXCEPT ![a].current = IF mine THEN NoInst ELSE @]
           left == IF mine THEN activeAsks - 1 ELSE activeAsks
<1>1. /\ i \in Instances /\ rows[i] \in Row /\ rows[i].status = "running" /\ a \in Actors
      /\ live \in Seq(Instances)
  BY ElementsOfSeq DEF IInv, TypeOK, LiveIsRunning, Row
<1>2. rows' = [rows EXCEPT ![i] = [rows[i] EXCEPT !.status = RowStatus[o]]]
  BY DEF Settle
<1>3. RowStatus[o] \in {"completed", "failed"}
  BY DEF RowStatus
<1>4. [rows[i] EXCEPT !.status = RowStatus[o]] \in Row
  BY <1>1, <1>3 DEF Row
<1>5. rows' \in [Instances -> Row \cup {NoRow}]
  BY <1>2, <1>4 DEF IInv, TypeOK
<1>6. events' \in Seq(Event)
  <2>1. NodeSettled(i, o, FALSE) \in Event
    BY <1>1 DEF NodeSettled, Event, Outcomes
  <2> QED BY <2>1, AppendProperties DEF IInv, TypeOK, Settle
<1>7. live' \in Seq(Instances) /\ Elements(live') \subseteq Elements(live) \ {i}
  BY <1>1, WithoutType DEF Settle
<1>8. inbox' \in Seq(Instances \X Outcomes)
  <2>1. <<i, o>> \in Instances \X Outcomes
    BY <1>1 DEF Outcomes
  <2> QED BY <2>1, AppendProperties DEF IInv, TypeOK, Settle
<1>9. turns' \in SUBSET Instances
  BY DEF IInv, TypeOK, Settle
<1>10. /\ actors' \in [Actors -> Actor] /\ activeAsks' \in Int
       /\ \A c \in Actors : /\ actors'[c].pendingLive = actors[c].pendingLive
                           /\ actors'[c].pendingRecorded = actors[c].pendingRecorded
  <2>1. /\ as \in [Actors -> Actor]
        /\ \A c \in Actors : /\ as[c].pendingLive = actors[c].pendingLive
                            /\ as[c].pendingRecorded = actors[c].pendingRecorded
    <3> DEFINE then == IF mine THEN NoInst ELSE actors[a].current
               freed == [actors[a] EXCEPT !.current = then]
    <3>1. actors \in [Actors -> Actor] /\ actors[a] \in Actor
      BY <1>1 DEF IInv, TypeOK
    <3>2. then \in Instances \cup {NoInst}
      BY <3>1 DEF Actor
    <3>3. /\ freed \in Actor
          /\ freed.pendingLive = actors[a].pendingLive
          /\ freed.pendingRecorded = actors[a].pendingRecorded
      <4> HIDE DEF then
      <4> QED BY <3>1, <3>2 DEF Actor
    <3>4. as = [actors EXCEPT ![a] = freed]
      OBVIOUS
    <3> HIDE DEF freed, as, a
    <3> QED BY <1>1, <3>1, <3>3, <3>4
  <2>2. left \in Int
    BY DEF IInv, TypeOK
  <2>3. Pump(as, left, Actors, cap)
    BY DEF Settle
  <2> HIDE DEF as, left
  <2> QED BY <2>1, <2>2, <2>3, PumpType
<1>11. \A j \in Terminal : rows'[j] = rows[j]
  BY <1>1, <1>2 DEF Terminal, Recorded, IInv, TypeOK
<1>12. LiveIsRunning'
  BY <1>1, <1>2, <1>7, ElementsOfSeq DEF IInv, TypeOK, LiveIsRunning
<1>13. \A j \in Instances : rows[j] = NoRow <=> rows'[j] = NoRow
  <2>1. rows[i] # NoRow /\ [rows[i] EXCEPT !.status = RowStatus[o]] # NoRow
    BY <1>1, <1>3 DEF NoRow, Row
  <2> QED BY <1>2, <2>1 DEF IInv, TypeOK
<1>14. NewCallsAreNew' /\ RecordedCallsHaveRows'
  <2>1. ordinals' \in [Sites -> 0..MaxOrdinal] /\ \A s \in Sites : ordinals[s] <= ordinals'[s]
    BY ConstantsAssumption DEF IInv, TypeOK
  <2> QED BY <1>10, <1>13, <2>1, WaitingKept DEF IInv
<1> QED BY <1>5, <1>6, <1>7, <1>8, <1>9, <1>10, <1>11, <1>12, <1>14, GateKept DEF IInv

\* A settlement of the run.
LEMMA FinishStep ==
    ASSUME IInv, NEW st \in RunStatuses,
           NEW reason \in {"none"} \cup StopReasons,
           NEW fail \in {"none", "InputHashMismatch", "ScriptError"},
           NEW emitCancelled \in BOOLEAN,
           NEW box \in Seq(Instances \X Outcomes),
           Finish(st, reason, fail, emitCancelled, box),
           ordinals' \in [Sites -> 0..MaxOrdinal],
           \A s \in Sites : ordinals[s] <= ordinals'[s],
           pc' \in [Branches -> Nat],
           asking' \in [Branches -> Instances \cup {NoInst}]
    PROVE  IInv' /\ rows' = rows
<1> DEFINE freed == Remaining(gate)
           dropped == IF emitCancelled
                      THEN [n \in DOMAIN live |-> NodeSettled(live[n], "cancelled", FALSE)]
                      ELSE <<>>
           refused == [n \in DOMAIN live |-> <<live[n], "cancelled">>]
<1> USE DEF IInv
<1>1. rows' = rows
  BY DEF Finish
<1>2. live \in Seq(Instances) /\ DOMAIN live = 1..Len(live) /\ Len(live) \in Nat
      /\ \A n \in 1..Len(live) : live[n] \in Instances
  <2>1. live \in Seq(Instances)
    BY DEF TypeOK
  <2> QED BY <2>1, LenProperties, ElementOfSeq
<1>3. freed \in Seq(Terminal)
  <2>1. IsFiniteSet(Terminal)
    BY InstancesFinite, FS_Subset DEF Terminal, Recorded
  <2> QED BY <2>1, RemainingType DEF GateHoldsSettled
<1>4. CachedEvents(freed) \in Seq(Event) /\ CachedAnswers(freed) \in Seq(Instances \X Outcomes)
  <2> HIDE DEF freed
  <2> QED BY <1>3, CachedTypes
<1>5. dropped \in Seq(Event)
  <2> DEFINE e(n) == NodeSettled(live[n], "cancelled", FALSE)
  <2>1. \A n \in 1..Len(live) : e(n) \in Event
    BY <1>2 DEF NodeSettled, Event, Outcomes
  <2> HIDE DEF e
  <2>2. [n \in 1..Len(live) |-> e(n)] \in Seq(Event)
    BY <1>2, <2>1, IsASeq
  <2> QED BY <1>2, <2>2, EmptySeq DEF e
<1>6. refused \in Seq(Instances \X Outcomes)
  <2> DEFINE e(n) == <<live[n], "cancelled">>
  <2>1. \A n \in 1..Len(live) : e(n) \in Instances \X Outcomes
    BY <1>2 DEF Outcomes
  <2> HIDE DEF e
  <2>2. [n \in 1..Len(live) |-> e(n)] \in Seq(Instances \X Outcomes)
    BY <1>2, <2>1, IsASeq
  <2> QED BY <1>2, <2>2 DEF e
<1>7. events' \in Seq(Event)
  <2>1. <<RunSettledEvent(st)>> \in Seq(Event)
    BY DEF RunSettledEvent, Event
  <2>2. events' = events \o CachedEvents(freed) \o dropped \o <<RunSettledEvent(st)>>
    BY DEF Finish
  <2>3. events \in Seq(Event)
    BY DEF TypeOK
  <2> HIDE DEF freed, dropped
  <2>4. events \o CachedEvents(freed) \in Seq(Event)
    BY <1>4, <2>3, ConcatProperties
  <2>5. events \o CachedEvents(freed) \o dropped \in Seq(Event)
    BY <1>5, <2>4, ConcatProperties
  <2> QED BY <2>1, <2>2, <2>5, ConcatProperties
<1>8. inbox' \in Seq(Instances \X Outcomes)
  <2>1. inbox' = box \o CachedAnswers(freed) \o refused
    BY DEF Finish
  <2> HIDE DEF freed, refused
  <2>2. box \o CachedAnswers(freed) \in Seq(Instances \X Outcomes)
    BY <1>4, ConcatProperties
  <2> QED BY <1>6, <2>1, <2>2, ConcatProperties
<1>9. gate' \in Gate(Terminal) /\ gate' \in Gate(Instances)
  <2>1. gate' = Opened(gate)
    BY DEF Finish
  <2>2. gate' \in Gate(Terminal)
    BY <2>1, OpenedType DEF GateHoldsSettled
  <2>3. Terminal \subseteq Instances
    BY DEF Terminal, Recorded
  <2> QED BY <2>2, <2>3, GateMonotone
<1>10. GateHoldsSettled'
  BY <1>1, <1>9 DEF GateHoldsSettled, Terminal, Recorded
<1>11. live' = <<>> /\ live' \in Seq(Instances) /\ LiveIsRunning'
  <2>1. live' = <<>>
    BY DEF Finish
  <2>2. live' \in Seq(Instances) /\ Elements(live') = {}
    BY <2>1, EmptySeq DEF Elements
  <2> QED BY <2>1, <2>2 DEF LiveIsRunning
<1>12. NewCallsAreNew' /\ RecordedCallsHaveRows'
  <2>1. actors' = actors
    BY DEF Finish
  <2> QED BY <1>1, <2>1, WaitingKept
<1>13. run' \in [status : RunStatuses, caps : Nat \ {0},
                 stopReason : {"none", "user", "model", "provider", "interrupted", "superseded"},
                 failure : {"none", "InputHashMismatch", "ScriptError"}]
  BY ConstantsAssumption DEF Finish, TypeOK
<1>14. /\ up' \in BOOLEAN /\ runSettled' \in BOOLEAN /\ cap' \in Nat \ {0}
       /\ actors' \in [Actors -> Actor] /\ started' \in SUBSET Instances
       /\ tries' \in [Instances -> [repairs : 0..RepairAttempts, nudges : 0..NudgeAttempts]]
       /\ activeAsks' \in Int /\ turns' \in SUBSET Instances
       /\ lives' \in Nat /\ retunes' \in Nat
       /\ rows' \in [Instances -> Row \cup {NoRow}]
  BY DEF Finish, TypeOK, boundVars
<1>15. TypeOK'
  BY <1>7, <1>8, <1>9, <1>11, <1>13, <1>14 DEF TypeOK
<1> QED BY <1>1, <1>10, <1>11, <1>12, <1>15
\* An admission: the recorded asks whose turn has come are re-dispatched or held by the
\* gate, and, once none is left, the new ones get their rows.
LEMMA AdmitStep ==
    ASSUME IInv, NEW a \in Actors, NEW R \in SUBSET Recorded,
           NEW L \in Seq(Instances \X Hashes),
           NEW box \in Seq(Instances \X Outcomes), NEW pumped \in SUBSET Actors,
           Admit(a, R, L, box, pumped),
           ordinals' \in [Sites -> 0..MaxOrdinal],
           \A s \in Sites : ordinals[s] <= ordinals'[s],
           \A n \in DOMAIN L : /\ rows[L[n][1]] = NoRow
                               /\ L[n][1][2] <= ordinals'[L[n][1][1]]
                               /\ \A c \in Actors \ {a} : L[n][1] \notin WaitingNew(actors, c)
    PROVE  /\ rows' \in [Instances -> Row \cup {NoRow}]
           /\ events' \in Seq(Event)
           /\ live' \in Seq(Instances)
           /\ inbox' \in Seq(Instances \X Outcomes)
           /\ gate' \in Gate(Instances)
           /\ actors' \in [Actors -> Actor] /\ activeAsks' \in Int
           /\ LiveIsRunning' /\ NewCallsAreNew' /\ RecordedCallsHaveRows' /\ GateHoldsSettled'
           /\ \A j \in Terminal : rows'[j] = rows[j]
<1> DEFINE A         == actors[a]
           out       == {i \in R :
                          /\ rows[i].actorSeq >= A.nextAdmitSeq
                          /\ \A s \in A.nextAdmitSeq..rows[i].actorSeq :
                                 \E j \in R : rows[j].actorSeq = s}
           next      == A.nextAdmitSeq + Cardinality(out)
           seqOf     == [i \in out |-> rows[i].actorSeq]
           rerun     == {i \in out : rows[i].status = "running"}
           cached    == out \ rerun
           now       == SortedBy({i \in cached : Passes(gate, i)}, seqOf)
           new       == IF next >= A.recordedCount THEN L ELSE <<>>
           newInst   == [n \in DOMAIN new |-> new[n][1]]
           admitted  == SortedBy(rerun, seqOf) \o newInst
           NewRow(n) == [status |-> "running", actor |-> a, actorSeq |-> next + n - 1,
                         hash |-> new[n][2]]
           left      == IF next >= A.recordedCount THEN <<>> ELSE L
           mine      == [A EXCEPT !.nextAdmitSeq = next + Len(new),
                                  !.pendingRecorded = R \ out,
                                  !.pendingLive = left,
                                  !.liveQueue = @ \o admitted]
           as        == [actors EXCEPT ![a] = mine]
<1> USE DEF IInv
<1>1. /\ rows' = [i \in Instances |->
                    IF \E n \in DOMAIN new : new[n][1] = i
                    THEN NewRow(CHOOSE n \in DOMAIN new : new[n][1] = i)
                    ELSE rows[i]]
      /\ live' = live \o admitted
      /\ gate' = Hold(gate, cached)
      /\ events' = events \o CachedEvents(now)
      /\ inbox' = box \o CachedAnswers(now)
  BY DEF Admit
<1>2. Pump(as, activeAsks, pumped, cap)
  BY DEF Admit
<1>3. /\ A \in Actor /\ A.nextAdmitSeq \in Nat /\ A.liveQueue \in Seq(Instances)
      /\ rows \in [Instances -> Row \cup {NoRow}] /\ live \in Seq(Instances)
      /\ R \subseteq Instances /\ \A i \in R : rows[i] \in Row
      /\ actors \in [Actors -> Actor]
  BY DEF TypeOK, Actor, Recorded
<1>4. out \subseteq R /\ rerun \subseteq out /\ cached \subseteq Terminal
  BY DEF Terminal
<1>5. IsFiniteSet(out) /\ Cardinality(out) \in Nat
  <2> HIDE DEF out
  <2> QED BY <1>3, <1>4, InstancesFinite, FS_Subset, FS_CardinalityType
<1>6. next \in Nat
  <2> HIDE DEF out
  <2> QED BY <1>3, <1>5
<1>7. now \in Seq(Terminal)
  <2> DEFINE passing == {i \in cached : Passes(gate, i)}
  <2>1. IsFiniteSet(passing) /\ passing \subseteq Terminal
    <3>1. passing \subseteq out
      OBVIOUS
    <3> HIDE DEF out, cached
    <3> QED BY <1>4, <1>5, <3>1, FS_Subset
  <2> HIDE DEF passing, seqOf
  <2>2. SortedBy(passing, seqOf) \in Seq(passing)
    BY <2>1, SortedByType
  <2>3. now = SortedBy(passing, seqOf)
    BY DEF passing, seqOf
  <2> HIDE DEF now
  <2> QED BY <2>1, <2>2, <2>3
<1>8. SortedBy(rerun, seqOf) \in Seq(rerun) /\ rerun \subseteq Instances
  <2>1. IsFiniteSet(rerun)
    <3> HIDE DEF out
    <3> QED BY <1>5, FS_Subset
  <2>2. rerun \subseteq Instances
    BY <1>3
  <2> HIDE DEF rerun, seqOf
  <2> QED BY <2>1, <2>2, SortedByType
<1>9. /\ new \in Seq(Instances \X Hashes) /\ left \in Seq(Instances \X Hashes)
      /\ Len(new) \in Nat /\ DOMAIN new = 1..Len(new)
      /\ \A n \in DOMAIN new : /\ new[n] \in Instances \X Hashes
                               /\ n \in DOMAIN L /\ new[n] = L[n] /\ next >= A.recordedCount
  <2>1. new \in Seq(Instances \X Hashes) /\ left \in Seq(Instances \X Hashes)
    <3>1. <<>> \in Seq(Instances \X Hashes)
      BY EmptySeq
    <3> DEFINE all == next >= A.recordedCount
    <3>2. new = (IF all THEN L ELSE <<>>) /\ left = (IF all THEN <<>> ELSE L)
      OBVIOUS
    <3> HIDE DEF all, new, left
    <3>3. CASE all
      BY <3>1, <3>2, <3>3
    <3>4. CASE ~all
      BY <3>1, <3>2, <3>4
    <3> QED BY <3>3, <3>4
  <2>2. \A n \in DOMAIN new : n \in DOMAIN L /\ new[n] = L[n] /\ next >= A.recordedCount
    <3> HIDE DEF next
    <3>1. DOMAIN <<>> = {}
      BY EmptySeq
    <3> QED BY <3>1
  <2> HIDE DEF new, left, next, A
  <2>3. Len(new) \in Nat /\ DOMAIN new = 1..Len(new)
    BY <2>1, LenProperties
  <2>4. \A n \in DOMAIN new : new[n] \in Instances \X Hashes
    BY <2>1, <2>3, ElementOfSeq
  <2> QED BY <2>1, <2>2, <2>3, <2>4
<1>10. newInst \in Seq(Instances)
  <2> DEFINE e(n) == new[n][1]
  <2> HIDE DEF new
  <2>1. \A n \in 1..Len(new) : e(n) \in Instances
    BY <1>9
  <2> HIDE DEF e
  <2>2. [n \in 1..Len(new) |-> e(n)] \in Seq(Instances)
    BY <1>9, <2>1, IsASeq
  <2> QED BY <1>9, <2>2 DEF e
<1>11. admitted \in Seq(Instances) /\ Elements(admitted) \subseteq rerun \cup Elements(newInst)
  <2> HIDE DEF rerun, newInst, seqOf
  <2>1. SortedBy(rerun, seqOf) \in Seq(Instances)
    BY <1>8
  <2>2. Elements(SortedBy(rerun, seqOf)) \subseteq rerun
    BY <1>8, ElementsOfSeq
  <2> QED BY <1>10, <2>1, <2>2, ConcatProperties, ElementsConcat
<1>12. \A n \in DOMAIN new : NewRow(n) \in Row
  <2> SUFFICES ASSUME NEW n \in DOMAIN new PROVE NewRow(n) \in Row
    OBVIOUS
  <2> HIDE DEF next, new
  <2>1. n \in Nat /\ n >= 1 /\ next + n - 1 \in Nat /\ new[n][2] \in Hashes
    BY <1>6, <1>9
  <2> QED BY <2>1 DEF Row
<1>13. ASSUME NEW i \in Instances
       PROVE  /\ i \in Elements(newInst) =>
                    rows[i] = NoRow /\ rows'[i] \in Row /\ rows'[i].status = "running"
              /\ i \notin Elements(newInst) => rows'[i] = rows[i]
  <2> HIDE DEF new
  <2>1. i \in Elements(newInst) <=> \E n \in DOMAIN new : new[n][1] = i
    BY DEF Elements
  <2>2. CASE \E n \in DOMAIN new : new[n][1] = i
    <3> DEFINE m == CHOOSE n \in DOMAIN new : new[n][1] = i
    <3>1. m \in DOMAIN new /\ new[m][1] = i
      BY <2>2
    <3>2. rows'[i] = NewRow(m)
      BY <1>1, <2>2
    <3> HIDE DEF m
    <3>3. rows[i] = NoRow
      BY <1>9, <3>1
    <3>4. NewRow(m).status = "running"
      OBVIOUS
    <3> QED BY <1>12, <2>1, <2>2, <3>1, <3>2, <3>3, <3>4
  <2>3. CASE ~\E n \in DOMAIN new : new[n][1] = i
    BY <1>1, <2>1, <2>3
  <2> QED BY <2>2, <2>3
<1> HIDE DEF out, next, rerun, cached, now, new, newInst, admitted, NewRow, left, A
<1>14. rows' \in [Instances -> Row \cup {NoRow}]
  <2>1. rows' = [i \in Instances |-> rows'[i]]
    BY <1>1, Zenon
  <2>2. \A i \in Instances : rows'[i] \in Row \cup {NoRow}
    BY <1>3, <1>13
  <2> QED BY <2>1, <2>2
<1>15. \A j \in Recorded : rows'[j] = rows[j]
  BY <1>13 DEF Recorded
<1>16. \A j \in Terminal : rows'[j] = rows[j]
  BY <1>15 DEF Terminal
<1>17. live' \in Seq(Instances) /\ Elements(live') \subseteq Elements(live) \cup Elements(admitted)
  BY <1>1, <1>3, <1>11, ConcatProperties, ElementsConcat
<1>18. LiveIsRunning'
  <2> SUFFICES ASSUME NEW i \in Elements(live')
               PROVE  rows'[i] # NoRow /\ rows'[i].status = "running"
    BY DEF LiveIsRunning
  <2>1. i \in Instances
    BY <1>17, ElementsOfSeq
  <2>2. CASE i \in Elements(newInst)
    BY <1>13, <2>1, <2>2 DEF NoRow
  <2>3. CASE i \notin Elements(newInst)
    <3>1. rows'[i] = rows[i]
      BY <1>13, <2>1, <2>3
    <3>2. i \in Elements(live) \/ i \in rerun
      BY <1>11, <1>17, <2>3
    <3>3. CASE i \in Elements(live)
      BY <3>1, <3>3 DEF LiveIsRunning
    <3>4. CASE i \in rerun
      BY <1>3, <3>1, <3>4 DEF rerun, NoRow
    <3> QED BY <3>2, <3>3, <3>4
  <2> QED BY <2>2, <2>3
<1>19. gate' \in Gate(Terminal) /\ gate' \in Gate(Terminal') /\ gate' \in Gate(Instances)
  <2>1. Hold(gate, cached) \in Gate(Terminal)
    BY <1>4, HoldType DEF GateHoldsSettled
  <2>2. Terminal \subseteq Terminal' /\ Terminal \subseteq Instances
    <3>1. Terminal \subseteq Instances
      BY DEF Terminal, Recorded
    <3> QED BY <1>16, <3>1, TerminalGrows
  <2> QED BY <1>1, <2>1, <2>2, GateMonotone
<1>20. events' \in Seq(Event) /\ inbox' \in Seq(Instances \X Outcomes)
  <2>1. CachedEvents(now) \in Seq(Event) /\ CachedAnswers(now) \in Seq(Instances \X Outcomes)
    BY <1>7, CachedTypes
  <2>2. events \in Seq(Event)
    BY DEF TypeOK
  <2> QED BY <1>1, <2>1, <2>2, ConcatProperties
<1>21. mine \in Actor /\ mine.pendingLive = left /\ mine.pendingRecorded = R \ out
  <2>1. next + Len(new) \in Nat
    BY <1>6, <1>9
  <2>2. A.liveQueue \o admitted \in Seq(Instances)
    BY <1>3, <1>11, ConcatProperties
  <2>3. R \ out \in SUBSET Instances
    BY <1>3
  <2> QED BY <1>3, <1>9, <2>1, <2>2, <2>3 DEF Actor, A
<1> HIDE DEF mine
<1>22. as \in [Actors -> Actor] /\ as[a] = mine /\ \A c \in Actors \ {a} : as[c] = actors[c]
  BY <1>3, <1>21
<1> HIDE DEF as
<1>23. activeAsks \in Int
  BY DEF TypeOK
<1>24. /\ actors' \in [Actors -> Actor] /\ activeAsks' \in Int
       /\ \A c \in Actors : /\ actors'[c].pendingLive = as[c].pendingLive
                            /\ actors'[c].pendingRecorded = as[c].pendingRecorded
  BY <1>2, <1>22, <1>23, PumpType
<1>25. RecordedCallsHaveRows'
  <2>1. Recorded \subseteq Recorded'
    BY <1>15 DEF Recorded
  <2>2. \A c \in Actors : actors'[c].pendingRecorded \subseteq Recorded
    BY <1>21, <1>22, <1>24 DEF RecordedCallsHaveRows
  <2> QED BY <2>1, <2>2 DEF RecordedCallsHaveRows
<1>26. ASSUME NEW c \in Actors, c # a
       PROVE  WaitingNew(actors', c) = WaitingNew(actors, c)
  <2>1. actors'[c].pendingLive = actors[c].pendingLive
    BY <1>22, <1>24, <1>26
  <2> QED BY <2>1 DEF WaitingNew
<1>27. WaitingNew(actors', a) = {left[n][1] : n \in DOMAIN left}
  <2>1. actors'[a].pendingLive = left
    BY <1>21, <1>22, <1>24
  <2> QED BY <2>1 DEF WaitingNew
<1>28. ASSUME NEW i \in WaitingNew(actors', a)
       PROVE  /\ i \in Instances /\ rows[i] = NoRow /\ i \notin Elements(newInst)
              /\ i[2] <= ordinals'[i[1]]
              /\ \A c \in Actors \ {a} : i \notin WaitingNew(actors, c)
  <2>1. PICK n \in DOMAIN left : i = left[n][1]
    BY <1>27, <1>28
  <2>2. DOMAIN <<>> = {}
    BY EmptySeq
  <2>3. n \in DOMAIN L /\ left[n] = L[n] /\ ~(next >= A.recordedCount)
    BY <2>1, <2>2 DEF left
  <2>4. Elements(newInst) = {}
    BY <2>2, <2>3 DEF new, newInst, Elements
  <2>5. L[n] \in Instances \X Hashes
    BY <2>3, LenProperties, ElementOfSeq
  <2> QED BY <2>1, <2>3, <2>4, <2>5
<1>29. ASSUME NEW c \in Actors, c # a, NEW i \in WaitingNew(actors, c)
       PROVE  /\ i \in Instances /\ rows[i] = NoRow /\ i \notin Elements(newInst)
              /\ i[2] <= ordinals'[i[1]]
              /\ \A d \in Actors : i \in WaitingNew(actors, d) => d = c
  <2>1. actors[c].pendingLive \in Seq(Instances \X Hashes)
    BY <1>3 DEF Actor
  <2>2. i \in Instances
    <3>1. \A n \in DOMAIN actors[c].pendingLive : actors[c].pendingLive[n] \in Instances \X Hashes
      BY <2>1, LenProperties, ElementOfSeq
    <3> QED BY <1>29, <3>1 DEF WaitingNew
  <2>3. i \notin Elements(newInst)
    <3> SUFFICES ASSUME NEW n \in DOMAIN new, i = new[n][1] PROVE FALSE
      BY DEF Elements, newInst
    <3> QED BY <1>9, <1>29
  <2>4. i[1] \in Sites /\ i[2] \in Nat /\ ordinals[i[1]] \in Nat /\ ordinals'[i[1]] \in Nat
    BY <2>2, ConstantsAssumption DEF Instances, TypeOK
  <2>5. i[2] <= ordinals[i[1]] /\ ordinals[i[1]] <= ordinals'[i[1]]
    BY <1>29, <2>4 DEF NewCallsAreNew
  <2> QED BY <1>29, <2>2, <2>3, <2>4, <2>5 DEF NewCallsAreNew
<1>30. NewCallsAreNew'
  <2> SUFFICES ASSUME NEW c \in Actors, NEW i \in WaitingNew(actors', c)
               PROVE  /\ rows'[i] = NoRow
                      /\ i[2] <= ordinals'[i[1]]
                      /\ \A d \in Actors : i \in WaitingNew(actors', d) => d = c
    BY DEF NewCallsAreNew
  <2>1. CASE c = a
    BY <1>13, <1>26, <1>28, <2>1
  <2>2. CASE c # a
    BY <1>13, <1>26, <1>28, <1>29, <2>2
  <2> QED BY <2>1, <2>2
<1> QED BY <1>14, <1>16, <1>17, <1>18, <1>19, <1>20, <1>24, <1>25, <1>30 DEF GateHoldsSettled
\* A call of the script: it takes the next ordinal of its site, which no call of this
\* life has, and is admitted, kept waiting, or found to differ from its row.
LEMMA AskStep ==
    ASSUME IInv, NEW b \in Branches, NEW n \in DOMAIN Prog[b],
           NEW o \in Outcomes \cup {"start"}, NEW box \in Seq(Instances \X Outcomes),
           Ask(b, n, o, box)
    PROVE  IInv' /\ \A j \in Terminal : rows'[j] = rows[j]
<1> DEFINE site == Prog[b][n][1]
           a    == Prog[b][n][2]
           i    == <<site, ordinals[site] + 1>>
           hash == <<b, n, o>>
           A    == actors[a]
<1> USE DEF IInv
<1>1. site \in Sites /\ a \in Actors /\ n \in Nat
  <2>1. Prog[b] \in Seq(Sites \X Actors)
    BY ConstantsAssumption
  <2>2. n \in 1..Len(Prog[b]) /\ Len(Prog[b]) \in Nat /\ Prog[b][n] \in Sites \X Actors
    BY <2>1, LenProperties, ElementOfSeq
  <2> QED BY <2>2
<1> HIDE DEF site, a
<1>2. ordinals[site] \in Nat /\ ordinals[site] < MaxOrdinal /\ MaxOrdinal \in Nat
  <2>1. ordinals[site] < MaxOrdinal
    BY DEF Ask, site
  <2>2. ordinals[site] \in 0..MaxOrdinal /\ MaxOrdinal \in Nat
    BY <1>1, ConstantsAssumption DEF TypeOK
  <2> QED BY <2>1, <2>2
<1>3. /\ ordinals' = [ordinals EXCEPT ![site] = @ + 1]
      /\ pc' = [pc EXCEPT ![b] = n]
  BY DEF Ask, site
<1>4. i \in Instances /\ hash \in Hashes
  BY <1>1, <1>2 DEF Instances, Hashes
<1>5. /\ ordinals' \in [Sites -> 0..MaxOrdinal]
      /\ \A s \in Sites : ordinals[s] <= ordinals'[s]
      /\ i[1] = site /\ i[2] = ordinals'[i[1]]
  <2>1. ordinals \in [Sites -> 0..MaxOrdinal]
    BY DEF TypeOK
  <2> QED BY <1>1, <1>2, <1>3, <2>1, ConstantsAssumption, SMTT(30)
<1>6. pc' \in [Branches -> Nat]
  BY <1>1, <1>3 DEF TypeOK
<1>7. ASSUME NEW c \in Actors
      PROVE  i \notin WaitingNew(actors, c)
  <2> SUFFICES ASSUME i \in WaitingNew(actors, c) PROVE FALSE
    OBVIOUS
  <2>1. i[2] <= ordinals[i[1]]
    BY DEF NewCallsAreNew
  <2> QED BY <1>2, <2>1
<1>8. A \in Actor /\ A.pendingRecorded \subseteq Recorded /\ A.pendingLive \in Seq(Instances \X Hashes)
  BY <1>1 DEF TypeOK, Actor, RecordedCallsHaveRows
<1>9. ASSUME NEW m \in DOMAIN A.pendingLive
      PROVE  LET j == A.pendingLive[m][1]
             IN  /\ rows[j] = NoRow
                 /\ j[2] <= ordinals'[j[1]]
                 /\ \A c \in Actors \ {a} : j \notin WaitingNew(actors, c)
  <2> DEFINE j == A.pendingLive[m][1]
  <2>1. j \in WaitingNew(actors, a)
    BY DEF WaitingNew
  <2>2. j \in Instances
    <3>1. A.pendingLive[m] \in Instances \X Hashes
      BY <1>8, LenProperties, ElementOfSeq
    <3> QED BY <3>1
  <2> HIDE DEF j
  <2>3. j[1] \in Sites /\ j[2] \in Nat /\ ordinals[j[1]] \in Nat /\ ordinals'[j[1]] \in Nat
    BY <1>5, <2>2, ConstantsAssumption DEF Instances, TypeOK
  <2>4. j[2] <= ordinals[j[1]] /\ ordinals[j[1]] <= ordinals'[j[1]]
    BY <1>1, <1>5, <2>1, <2>3 DEF NewCallsAreNew
  <2>5. /\ rows[j] = NoRow
        /\ j[2] <= ordinals'[j[1]]
        /\ \A c \in Actors \ {a} : j \notin WaitingNew(actors, c)
    BY <1>1, <2>1, <2>3, <2>4 DEF NewCallsAreNew
  <2> QED BY <2>5 DEF j
<1>10. \/ /\ rows[i] = NoRow
          /\ asking' = [asking EXCEPT ![b] = i]
          /\ Admit(a, A.pendingRecorded, Append(A.pendingLive, <<i, hash>>), box, Actors)
          /\ UNCHANGED <<run, up, runSettled, cap, started, tries, turns, boundVars>>
       \/ /\ rows[i] # NoRow
          /\ asking' = [asking EXCEPT ![b] = i]
          /\ Admit(a, A.pendingRecorded \cup {i}, A.pendingLive, box, {a})
          /\ UNCHANGED <<run, up, runSettled, cap, started, tries, turns, boundVars>>
       \/ /\ asking' = [asking EXCEPT ![b] = NoInst]
          /\ Finish("errored", "none", "InputHashMismatch", FALSE, box)
  BY DEF Ask, site, a
<1> HIDE DEF i, hash, A
<1>11. ASSUME NEW R \in SUBSET Recorded, NEW L \in Seq(Instances \X Hashes),
              NEW pumped \in SUBSET Actors, Admit(a, R, L, box, pumped),
              \A m \in DOMAIN L :
                  /\ rows[L[m][1]] = NoRow
                  /\ L[m][1][2] <= ordinals'[L[m][1][1]]
                  /\ \A c \in Actors \ {a} : L[m][1] \notin WaitingNew(actors, c),
              asking' = [asking EXCEPT ![b] = i],
              UNCHANGED <<run, up, runSettled, cap, started, tries, turns, boundVars>>
       PROVE  IInv' /\ \A j \in Terminal : rows'[j] = rows[j]
  <2>1. /\ rows' \in [Instances -> Row \cup {NoRow}]
        /\ events' \in Seq(Event)
        /\ live' \in Seq(Instances)
        /\ inbox' \in Seq(Instances \X Outcomes)
        /\ gate' \in Gate(Instances)
        /\ actors' \in [Actors -> Actor] /\ activeAsks' \in Int
        /\ LiveIsRunning' /\ NewCallsAreNew' /\ RecordedCallsHaveRows' /\ GateHoldsSettled'
        /\ \A j \in Terminal : rows'[j] = rows[j]
    BY <1>1, <1>5, <1>11, AdmitStep
  <2>2. asking' \in [Branches -> Instances \cup {NoInst}]
    BY <1>4, <1>11 DEF TypeOK
  <2>3. TypeOK'
    BY <1>5, <1>6, <1>11, <2>1, <2>2 DEF TypeOK, boundVars
  <2> QED BY <2>1, <2>3
<1>12. CASE /\ rows[i] = NoRow
            /\ asking' = [asking EXCEPT ![b] = i]
            /\ Admit(a, A.pendingRecorded, Append(A.pendingLive, <<i, hash>>), box, Actors)
            /\ UNCHANGED <<run, up, runSettled, cap, started, tries, turns, boundVars>>
  <2> DEFINE L == Append(A.pendingLive, <<i, hash>>)
  <2>1. /\ L \in Seq(Instances \X Hashes)
        /\ DOMAIN L = 1..(Len(A.pendingLive) + 1)
        /\ DOMAIN A.pendingLive = 1..Len(A.pendingLive) /\ Len(A.pendingLive) \in Nat
        /\ \A m \in 1..Len(A.pendingLive) : L[m] = A.pendingLive[m]
        /\ L[Len(A.pendingLive) + 1] = <<i, hash>>
    BY <1>4, <1>8, AppendProperties, LenProperties
  <2> HIDE DEF L
  <2>2. ASSUME NEW m \in DOMAIN L
        PROVE  /\ rows[L[m][1]] = NoRow
               /\ L[m][1][2] <= ordinals'[L[m][1][1]]
               /\ \A c \in Actors \ {a} : L[m][1] \notin WaitingNew(actors, c)
    <3>1. CASE m = Len(A.pendingLive) + 1
      <4>1. L[m][1] = i
        BY <2>1, <3>1
      <4>2. i[2] <= ordinals'[i[1]]
        BY <1>2, <1>5 DEF i
      <4> QED BY <1>7, <1>12, <4>1, <4>2
    <3>2. CASE m # Len(A.pendingLive) + 1
      <4>1. m \in DOMAIN A.pendingLive /\ L[m] = A.pendingLive[m]
        BY <2>1, <3>2
      <4> QED BY <1>9, <4>1
    <3> QED BY <3>1, <3>2
  <2>3. Admit(a, A.pendingRecorded, L, box, Actors)
    BY <1>12 DEF L
  <2> QED BY <1>8, <1>11, <1>12, <2>1, <2>2, <2>3
<1>13. CASE /\ rows[i] # NoRow
            /\ asking' = [asking EXCEPT ![b] = i]
            /\ Admit(a, A.pendingRecorded \cup {i}, A.pendingLive, box, {a})
            /\ UNCHANGED <<run, up, runSettled, cap, started, tries, turns, boundVars>>
  <2>1. A.pendingRecorded \cup {i} \in SUBSET Recorded
    BY <1>4, <1>8, <1>13 DEF Recorded
  <2>2. {a} \in SUBSET Actors
    BY <1>1
  <2> QED BY <1>8, <1>9, <1>11, <1>13, <2>1, <2>2
<1>14. CASE /\ asking' = [asking EXCEPT ![b] = NoInst]
            /\ Finish("errored", "none", "InputHashMismatch", FALSE, box)
  <2>1. asking' \in [Branches -> Instances \cup {NoInst}]
    BY <1>14 DEF TypeOK
  <2>2. IInv' /\ rows' = rows
    BY <1>5, <1>6, <1>14, <2>1, FinishStep DEF RunStatuses
  <2> QED BY <2>2
<1> QED BY <1>10, <1>12, <1>13, <1>14
--------------------------------------------------------------------------------
(* The actions. *)

\* A life starts from nothing: what the invariant says of its volatile state holds,
\* whatever the journal carries over.
LEMMA BlankLifeStep ==
    ASSUME NEW count \in [Actors -> Nat], BlankLife(count)
    PROVE  /\ runSettled' \in BOOLEAN
           /\ ordinals' \in [Sites -> 0..MaxOrdinal]
           /\ actors' \in [Actors -> Actor]
           /\ live' \in Seq(Instances)
           /\ started' \in SUBSET Instances
           /\ tries' \in [Instances -> [repairs : 0..RepairAttempts, nudges : 0..NudgeAttempts]]
           /\ activeAsks' \in Int
           /\ pc' \in [Branches -> Nat]
           /\ asking' \in [Branches -> Instances \cup {NoInst}]
           /\ inbox' \in Seq(Instances \X Outcomes)
           /\ turns' \in SUBSET Instances
           /\ LiveIsRunning' /\ NewCallsAreNew' /\ RecordedCallsHaveRows'
<1>1. \A a \in Actors : BlankActors(count)[a] \in Actor
  BY EmptySeq DEF BlankActors, Actor
<1>2. actors' = BlankActors(count) /\ BlankActors(count) \in [Actors -> Actor]
  BY <1>1 DEF BlankLife, BlankActors
<1>3. /\ live' = <<>> /\ live' \in Seq(Instances)
      /\ inbox' \in Seq(Instances \X Outcomes)
  BY EmptySeq DEF BlankLife
<1>4. tries' \in [Instances -> [repairs : 0..RepairAttempts, nudges : 0..NudgeAttempts]]
  BY ConstantsAssumption DEF BlankLife, FullTries
<1>5. ordinals' \in [Sites -> 0..MaxOrdinal]
  BY ConstantsAssumption DEF BlankLife
<1>6. DOMAIN <<>> = {}
  BY EmptySeq
<1>7. LiveIsRunning'
  BY <1>3, <1>6 DEF LiveIsRunning, Elements
<1>8. NewCallsAreNew' /\ RecordedCallsHaveRows'
  <2>1. \A a \in Actors : actors'[a].pendingLive = <<>> /\ actors'[a].pendingRecorded = {}
    BY <1>2 DEF BlankActors
  <2>2. \A a \in Actors : WaitingNew(actors', a) = {}
    BY <1>6, <2>1 DEF WaitingNew
  <2> QED BY <2>1, <2>2 DEF NewCallsAreNew, RecordedCallsHaveRows
<1>9. pc' \in [Branches -> Nat] /\ asking' \in [Branches -> Instances \cup {NoInst}]
  BY DEF BlankLife
<1>10. runSettled' \in BOOLEAN
  BY Zenon DEF BlankLife
<1>11. started' = {} /\ activeAsks' = 0 /\ turns' = {}
  BY DEF BlankLife
<1> QED BY <1>2, <1>3, <1>4, <1>5, <1>7, <1>8, <1>9, <1>10, <1>11

\* Nothing is recorded when a run is created, or known to an engine that died.
LEMMA NothingRecordedType == NothingRecorded \in [Actors -> Nat]
BY DEF NothingRecorded

\* The number of recorded asks of an actor can be counted.
LEMMA RecordedAsksType == RecordedAsks \in [Actors -> Nat]
<1>1. ASSUME NEW a \in Actors
      PROVE  Cardinality({i \in Recorded : rows[i].actor = a}) \in Nat
  <2> DEFINE mine == {i \in Recorded : rows[i].actor = a}
  <2>1. mine \subseteq Instances
    BY DEF Recorded
  <2> HIDE DEF mine
  <2>2. Cardinality(mine) \in Nat
    BY <2>1, InstancesFinite, FS_Subset, FS_CardinalityType
  <2> QED BY <2>2 DEF mine
<1> QED BY <1>1 DEF RecordedAsks

\* The recovered order table names settled asks only.
LEMMA RecoveredOrderType == RecoveredOrder \in Seq(Terminal)
<1> DEFINE logged == {i \in Terminal : \E n \in DOMAIN events : IsSettleOf(i, n)}
           rank   == [i \in logged |-> FirstSettle(i)]
<1>1. logged \subseteq Terminal /\ Terminal \subseteq Instances
  BY DEF Terminal, Recorded
<1>2. RecoveredOrder = SortedBy(logged, rank)
  BY DEF RecoveredOrder
<1> HIDE DEF logged, rank
<1>3. IsFiniteSet(logged)
  BY <1>1, InstancesFinite, FS_Subset
<1>4. SortedBy(logged, rank) \in Seq(logged)
  BY <1>3, SortedByType
<1> QED BY <1>1, <1>2, <1>4

\* The gate of a life with nothing to replay.
LEMMA EmptyGateType == ASSUME NEW Keys PROVE EmptyGate \in Gate(Keys)
BY EmptySeq, NewGateType DEF EmptyGate

\* The submission of a run establishes the invariant.
LEMMA InitStep == Init => IInv
<1> SUFFICES ASSUME Init PROVE IInv
  OBVIOUS
<1>1. \A a \in Actors : actors[a] \in Actor
  BY EmptySeq DEF Init, BlankActors, NothingRecorded, Actor
<1>2. actors \in [Actors -> Actor]
  BY <1>1 DEF Init, BlankActors
<1>3. /\ live = <<>> /\ live \in Seq(Instances)
      /\ inbox \in Seq(Instances \X Outcomes)
  BY EmptySeq DEF Init
<1>4. tries \in [Instances -> [repairs : 0..RepairAttempts, nudges : 0..NudgeAttempts]]
  BY ConstantsAssumption DEF Init, FullTries
<1>5. events \in Seq(Event)
  <2>1. RunStarted \in Event
    BY DEF RunStarted, Event
  <2> QED BY <2>1 DEF Init
<1>6. gate \in Gate(Instances) /\ gate \in Gate(Terminal)
  BY EmptyGateType DEF Init
<1>7. run \in [status : RunStatuses, caps : Nat \ {0},
               stopReason : {"none", "user", "model", "provider", "interrupted", "superseded"},
               failure : {"none", "InputHashMismatch", "ScriptError"}]
  BY ConstantsAssumption DEF Init, RunStatuses
<1>8. rows \in [Instances -> Row \cup {NoRow}]
  BY DEF Init
<1>9. /\ ordinals \in [Sites -> 0..MaxOrdinal]
      /\ pc \in [Branches -> Nat] /\ asking \in [Branches -> Instances \cup {NoInst}]
      /\ up \in BOOLEAN /\ runSettled \in BOOLEAN
      /\ cap \in Nat \ {0} /\ started \in SUBSET Instances /\ activeAsks \in Int
      /\ turns \in SUBSET Instances /\ lives \in Nat /\ retunes \in Nat
  <2>1. ordinals \in [Sites -> 0..MaxOrdinal]
    BY ConstantsAssumption DEF Init
  <2>2. pc \in [Branches -> Nat] /\ asking \in [Branches -> Instances \cup {NoInst}]
    BY DEF Init
  <2>3. up \in BOOLEAN /\ runSettled \in BOOLEAN
    BY Zenon DEF Init
  <2>4. /\ cap = InitialCap /\ started = {} /\ activeAsks = 0 /\ turns = {}
        /\ lives = 1 /\ retunes = 0
    BY DEF Init
  <2> QED BY <2>1, <2>2, <2>3, <2>4, ConstantsAssumption
<1>10. TypeOK
  BY <1>2, <1>3, <1>4, <1>5, <1>6, <1>7, <1>8, <1>9 DEF TypeOK
<1>11. DOMAIN <<>> = {}
  BY EmptySeq
<1>12. LiveIsRunning
  BY <1>3, <1>11 DEF LiveIsRunning, Elements
<1>13. NewCallsAreNew /\ RecordedCallsHaveRows
  <2>1. \A a \in Actors : actors[a].pendingLive = <<>> /\ actors[a].pendingRecorded = {}
    BY DEF Init, BlankActors
  <2>2. \A a \in Actors : WaitingNew(actors, a) = {}
    BY <1>11, <2>1 DEF WaitingNew
  <2> QED BY <2>1, <2>2 DEF NewCallsAreNew, RecordedCallsHaveRows
<1> QED BY <1>6, <1>10, <1>12, <1>13 DEF IInv, GateHoldsSettled

\* What a step of the run may do to the rows: it keeps the invariant and the settled
\* rows.
StepKeeps == IInv' /\ \A j \in Terminal : rows'[j] = rows[j]

\* A step that creates, changes and settles no row, and leaves the waiting calls, the
\* gate and the ordinals as they are, only has to keep its types.
LEMMA QuietStep ==
    ASSUME IInv, UNCHANGED <<rows, ordinals, gate>>, TypeOK',
           Elements(live') \subseteq Elements(live),
           \A a \in Actors : /\ actors'[a].pendingLive = actors[a].pendingLive
                             /\ actors'[a].pendingRecorded = actors[a].pendingRecorded
    PROVE  StepKeeps
<1> USE DEF IInv
<1>1. NewCallsAreNew' /\ RecordedCallsHaveRows'
  <2>1. \A s \in Sites : ordinals[s] \in Nat
    BY ConstantsAssumption DEF TypeOK
  <2>2. ordinals' \in [Sites -> 0..MaxOrdinal] /\ \A s \in Sites : ordinals[s] <= ordinals'[s]
    BY <2>1 DEF TypeOK
  <2> QED BY <2>2, WaitingKept
<1>2. GateHoldsSettled'
  BY GateKept
<1>3. LiveIsRunning'
  BY DEF LiveIsRunning
<1> QED BY <1>1, <1>2, <1>3 DEF StepKeeps

\* The settlement of a live ask, as the driver's reports and a failed dispatch bring it
\* about.
LEMMA SettlementStep ==
    ASSUME IInv, NEW i \in Elements(live), NEW o \in {"ok", "failed"}, Settle(i, o),
           UNCHANGED <<run, up, runSettled, ordinals, cap, started, tries, gate, pc, asking,
                       boundVars>>
    PROVE  StepKeeps
<1>1. /\ rows' \in [Instances -> Row \cup {NoRow}]
      /\ events' \in Seq(Event)
      /\ live' \in Seq(Instances)
      /\ inbox' \in Seq(Instances \X Outcomes)
      /\ turns' \in SUBSET Instances
      /\ actors' \in [Actors -> Actor] /\ activeAsks' \in Int
      /\ LiveIsRunning' /\ NewCallsAreNew' /\ RecordedCallsHaveRows' /\ GateHoldsSettled'
      /\ \A j \in Terminal : rows'[j] = rows[j]
  <2>1. UNCHANGED <<gate, ordinals>>
    OBVIOUS
  <2> QED BY <2>1, SettleStep
<1>2. TypeOK'
  BY <1>1 DEF IInv, TypeOK, boundVars
<1> QED BY <1>1, <1>2 DEF StepKeeps, IInv
\* The script's steps.
LEMMA ScriptStep == ASSUME IInv, Script PROVE StepKeeps
<1> USE DEF IInv
<1>0. inbox \in Seq(Instances \X Outcomes) /\ ordinals \in [Sites -> 0..MaxOrdinal]
  BY DEF TypeOK
<1>1. ASSUME UNCHANGED ordinals
      PROVE  /\ ordinals' \in [Sites -> 0..MaxOrdinal]
             /\ \A s \in Sites : ordinals[s] <= ordinals'[s]
  <2>1. \A s \in Sites : ordinals[s] \in Nat
    BY <1>0, ConstantsAssumption
  <2> QED BY <1>0, <1>1, <2>1
<1>2. ASSUME NEW b \in Branches, StartBranch(b) PROVE StepKeeps
  <2>1. Ask(b, 1, "start", inbox)
    BY <1>2 DEF StartBranch
  <2>2. 1 \in DOMAIN Prog[b]
    <3>1. Prog[b] \in Seq(Sites \X Actors) /\ Prog[b] # <<>>
      BY ConstantsAssumption
    <3>2. Len(Prog[b]) \in Nat /\ Len(Prog[b]) # 0 /\ DOMAIN Prog[b] = 1..Len(Prog[b])
      BY <3>1, LenProperties, EmptySeq
    <3> QED BY <3>2
  <2> QED BY <1>0, <2>1, <2>2, AskStep DEF StepKeeps
<1>3. ASSUME NEW b \in Branches, Continue(b) PROVE StepKeeps
  <2> DEFINE o    == Head(inbox)[2]
             rest == Tail(inbox)
  <2>1. o \in Outcomes /\ rest \in Seq(Instances \X Outcomes)
    <3>1. inbox # <<>>
      BY <1>3 DEF Continue
    <3>2. Head(inbox) \in Instances \X Outcomes /\ Tail(inbox) \in Seq(Instances \X Outcomes)
      BY <1>0, <3>1, HeadTailProperties
    <3> QED BY <3>2
  <2>2. \/ pc[b] < Len(Prog[b]) /\ pc[b] > 0 /\ Ask(b, pc[b] + 1, o, rest)
        \/ /\ pc' = [pc EXCEPT ![b] = @ + 1]
           /\ asking' = [asking EXCEPT ![b] = NoInst]
           /\ inbox' = rest
           /\ UNCHANGED <<journalVars, up, runSettled, ordinals, cap, askVars, gate,
                          turns, boundVars>>
        \/ /\ asking' = [asking EXCEPT ![b] = NoInst]
           /\ Finish("errored", "none", "ScriptError", FALSE, rest)
           /\ UNCHANGED <<ordinals, pc>>
    BY <1>3 DEF Continue
  <2> HIDE DEF o, rest
  <2>3. CASE pc[b] < Len(Prog[b]) /\ pc[b] > 0 /\ Ask(b, pc[b] + 1, o, rest)
    <3>1. Prog[b] \in Seq(Sites \X Actors) /\ pc[b] \in Nat
      BY ConstantsAssumption DEF TypeOK
    <3>2. pc[b] + 1 \in DOMAIN Prog[b]
      BY <2>3, <3>1, LenProperties
    <3> QED BY <2>1, <2>3, <3>2, AskStep DEF StepKeeps
  <2>4. CASE /\ pc' = [pc EXCEPT ![b] = @ + 1]
             /\ asking' = [asking EXCEPT ![b] = NoInst]
             /\ inbox' = rest
             /\ UNCHANGED <<journalVars, up, runSettled, ordinals, cap, askVars, gate,
                            turns, boundVars>>
    <3>1. pc' \in [Branches -> Nat] /\ asking' \in [Branches -> Instances \cup {NoInst}]
      BY <2>4 DEF TypeOK
    <3>2. TypeOK'
      BY <2>1, <2>4, <3>1 DEF TypeOK, journalVars, askVars, boundVars
    <3> QED BY <2>4, <3>2, QuietStep DEF journalVars, askVars
  <2>5. CASE /\ asking' = [asking EXCEPT ![b] = NoInst]
             /\ Finish("errored", "none", "ScriptError", FALSE, rest)
             /\ UNCHANGED <<ordinals, pc>>
    <3>1. pc' \in [Branches -> Nat] /\ asking' \in [Branches -> Instances \cup {NoInst}]
      BY <2>5 DEF TypeOK
    <3>2. IInv' /\ rows' = rows
      BY <1>1, <2>1, <2>5, <3>1, FinishStep DEF RunStatuses
    <3> QED BY <3>2 DEF StepKeeps
  <2> QED BY <2>2, <2>3, <2>4, <2>5
<1>4. CASE ScriptReturns
  <2>1. pc' \in [Branches -> Nat] /\ asking' \in [Branches -> Instances \cup {NoInst}]
    BY <1>4 DEF ScriptReturns, TypeOK
  <2>2. Finish("completed", "none", "none", TRUE, inbox) /\ UNCHANGED ordinals
    BY <1>4 DEF ScriptReturns
  <2>3. IInv' /\ rows' = rows
    BY <1>0, <1>1, <2>1, <2>2, FinishStep DEF RunStatuses
  <2> QED BY <2>3 DEF StepKeeps
<1>5. CASE FlushReplay
  <2>1. gate.queue \in Seq(Terminal)
    BY DEF GateHoldsSettled, Gate
  <2>2. events' \in Seq(Event) /\ inbox' \in Seq(Instances \X Outcomes)
    <3>1. /\ CachedEvents(gate.queue) \in Seq(Event)
          /\ CachedAnswers(gate.queue) \in Seq(Instances \X Outcomes)
      BY <2>1, CachedTypes
    <3>2. events \in Seq(Event)
      BY DEF TypeOK
    <3> QED BY <1>0, <1>5, <3>1, <3>2, ConcatProperties DEF FlushReplay
  <2>3. gate' \in Gate(Terminal) /\ gate' \in Gate(Instances)
    BY <1>5, FlushedType DEF FlushReplay, GateHoldsSettled, TypeOK
  <2>4. TypeOK'
    BY <1>5, <2>2, <2>3 DEF FlushReplay, TypeOK, askVars, boundVars
  <2>5. NewCallsAreNew' /\ RecordedCallsHaveRows'
    BY <1>1, <1>5, WaitingKept DEF FlushReplay, askVars
  <2>6. LiveIsRunning' /\ GateHoldsSettled'
    BY <1>5, <2>3 DEF FlushReplay, askVars, LiveIsRunning, GateHoldsSettled, Terminal, Recorded
  <2>7. rows' = rows
    BY <1>5 DEF FlushReplay
  <2> QED BY <2>4, <2>5, <2>6, <2>7 DEF StepKeeps
<1> QED BY <1>2, <1>3, <1>4, <1>5 DEF Script

\* The driver's steps: sessions, dispatch and reports.
LEMMA DriverStep == ASSUME IInv, Driver PROVE StepKeeps
<1> USE DEF IInv
<1>1. ASSUME NEW a \in Actors, NEW s \in {"ready", "broken"}, SessionCreated(a, s)
      PROVE  StepKeeps
  <2> DEFINE opened == [actors[a] EXCEPT !.session = s]
  <2>1. actors \in [Actors -> Actor] /\ actors[a] \in Actor
    BY DEF TypeOK
  <2>2. /\ opened \in Actor
        /\ opened.pendingLive = actors[a].pendingLive
        /\ opened.pendingRecorded = actors[a].pendingRecorded
    BY <2>1 DEF Actor
  <2>3. actors' = [actors EXCEPT ![a] = opened]
    BY <1>1 DEF SessionCreated
  <2> HIDE DEF opened
  <2>4. /\ actors' \in [Actors -> Actor]
        /\ \A c \in Actors : /\ actors'[c].pendingLive = actors[c].pendingLive
                             /\ actors'[c].pendingRecorded = actors[c].pendingRecorded
    BY <2>1, <2>2, <2>3
  <2>5. TypeOK'
    BY <1>1, <2>4 DEF SessionCreated, TypeOK, journalVars, scriptVars, boundVars
  <2> QED BY <1>1, <2>4, <2>5, QuietStep DEF SessionCreated, journalVars
<1>2. ASSUME NEW a \in Actors, Dispatch(a) PROVE StepKeeps
  <2>1. actors[a].current \in Instances
    BY <1>2, ElementsOfSeq DEF Dispatch, Dispatching, TypeOK
  <2>2. TypeOK'
    BY <1>2, <2>1 DEF Dispatch, TypeOK, journalVars, scriptVars, boundVars
  <2> QED BY <1>2, <2>2, QuietStep DEF Dispatch, journalVars
<1>3. ASSUME NEW a \in Actors, DispatchFails(a) PROVE StepKeeps
  <2>1. actors[a].current \in Elements(live)
    BY <1>3 DEF DispatchFails, Dispatching
  <2> QED BY <1>3, <2>1, SettlementStep DEF DispatchFails
<1>4. ASSUME NEW i \in started, NEW o \in {"ok", "failed"},
             Reported(i), Settle(i, o), UNCHANGED tries, EngineUnchanged
      PROVE  StepKeeps
  BY <1>4, SettlementStep DEF Reported, EngineUnchanged
<1>5. ASSUME NEW i \in started, EngineUnchanged,
             UNCHANGED <<rows, events, actors, live, activeAsks, inbox, turns>>,
             tries' \in [Instances -> [repairs : 0..RepairAttempts, nudges : 0..NudgeAttempts]]
      PROVE  StepKeeps
  <2>1. TypeOK'
    BY <1>5 DEF EngineUnchanged, TypeOK, boundVars
  <2> QED BY <1>5, <2>1, QuietStep DEF EngineUnchanged
<1>6. ASSUME NEW i \in started, SubmitAccepted(i) PROVE StepKeeps
  BY <1>4, <1>6 DEF SubmitAccepted
<1>7. ASSUME NEW i \in started
      PROVE  /\ i \in Instances
             /\ tries[i].repairs \in 0..RepairAttempts /\ tries[i].nudges \in 0..NudgeAttempts
             /\ tries[i] \in [repairs : 0..RepairAttempts, nudges : 0..NudgeAttempts]
  BY DEF TypeOK
<1>8. ASSUME NEW i \in started, SubmitRejected(i) PROVE StepKeeps
  <2>1. CASE /\ RepairsLeft(i)
             /\ tries' = [tries EXCEPT ![i].repairs = @ - 1]
             /\ UNCHANGED <<rows, events, actors, live, activeAsks, inbox, turns>>
    <3> DEFINE fewer == [tries[i] EXCEPT !.repairs = tries[i].repairs - 1]
    <3>1. tries[i].repairs - 1 \in 0..RepairAttempts
      BY <1>7, <2>1, ConstantsAssumption DEF RepairsLeft
    <3>2. fewer \in [repairs : 0..RepairAttempts, nudges : 0..NudgeAttempts]
      BY <1>7, <3>1
    <3>3. tries' = [tries EXCEPT ![i] = fewer]
      BY <2>1
    <3> HIDE DEF fewer
    <3>4. tries' \in [Instances -> [repairs : 0..RepairAttempts, nudges : 0..NudgeAttempts]]
      BY <3>2, <3>3 DEF TypeOK
    <3> QED BY <1>5, <1>8, <2>1, <3>4 DEF SubmitRejected
  <2>2. CASE Settle(i, "failed") /\ UNCHANGED tries
    BY <1>4, <1>8, <2>2 DEF SubmitRejected
  <2> QED BY <1>8, <2>1, <2>2 DEF SubmitRejected
<1>9. ASSUME NEW i \in started, TurnEnded(i) PROVE StepKeeps
  <2>1. CASE /\ tries[i].nudges > 0
             /\ tries' = [tries EXCEPT ![i].nudges = @ - 1]
             /\ UNCHANGED <<rows, events, actors, live, activeAsks, inbox, turns>>
    <3> DEFINE fewer == [tries[i] EXCEPT !.nudges = tries[i].nudges - 1]
    <3>1. tries[i].nudges - 1 \in 0..NudgeAttempts
      BY <1>7, <2>1, ConstantsAssumption
    <3>2. fewer \in [repairs : 0..RepairAttempts, nudges : 0..NudgeAttempts]
      BY <1>7, <3>1
    <3>3. tries' = [tries EXCEPT ![i] = fewer]
      BY <2>1
    <3> HIDE DEF fewer
    <3>4. tries' \in [Instances -> [repairs : 0..RepairAttempts, nudges : 0..NudgeAttempts]]
      BY <3>2, <3>3 DEF TypeOK
    <3> QED BY <1>5, <1>9, <2>1, <3>4 DEF TurnEnded
  <2>2. CASE (Settle(i, "ok") \/ Settle(i, "failed")) /\ UNCHANGED tries
    BY <1>4, <1>9, <2>2 DEF TurnEnded
  <2> QED BY <1>9, <2>1, <2>2 DEF TurnEnded
<1>10. ASSUME NEW i \in started, AskFailed(i) PROVE StepKeeps
  BY <1>4, <1>10 DEF AskFailed
<1> QED BY <1>1, <1>2, <1>3, <1>6, <1>8, <1>9, <1>10 DEF Driver
\* The host's steps: stops, retunes, crashes, reconciliation and resume.
LEMMA HostStep == ASSUME IInv, Host PROVE StepKeeps
<1> USE DEF IInv
<1>1. ASSUME NEW r \in StopReasons, Stop(r) PROVE StepKeeps
  <2>1. /\ ordinals' \in [Sites -> 0..MaxOrdinal]
        /\ \A s \in Sites : ordinals[s] <= ordinals'[s]
    <3>1. ordinals' = ordinals /\ ordinals \in [Sites -> 0..MaxOrdinal]
      BY <1>1 DEF Stop, TypeOK
    <3>2. \A s \in Sites : ordinals[s] \in Nat
      BY <3>1, ConstantsAssumption
    <3> QED BY <3>1, <3>2
  <2>2. pc' \in [Branches -> Nat] /\ asking' \in [Branches -> Instances \cup {NoInst}]
    BY <1>1 DEF Stop, TypeOK
  <2>3. Finish("stopped", r, "none", TRUE, inbox) /\ inbox \in Seq(Instances \X Outcomes)
    BY <1>1 DEF Stop, TypeOK
  <2>4. IInv' /\ rows' = rows
    BY <2>1, <2>2, <2>3, FinishStep DEF RunStatuses
  <2> QED BY <2>4 DEF StepKeeps
<1>2. ASSUME NEW n \in CapChoices, SetMaxConcurrency(n) PROVE StepKeeps
  <2>1. /\ actors' \in [Actors -> Actor] /\ activeAsks' \in Int
        /\ \A c \in Actors : /\ actors'[c].pendingLive = actors[c].pendingLive
                             /\ actors'[c].pendingRecorded = actors[c].pendingRecorded
    <3>1. actors \in [Actors -> Actor] /\ activeAsks \in Int
      BY DEF TypeOK
    <3>2. Pump(actors, activeAsks, Actors, n) \/ UNCHANGED <<actors, activeAsks>>
      BY <1>2 DEF SetMaxConcurrency, Rescan
    <3>3. Actors \in SUBSET Actors
      OBVIOUS
    <3>4. CASE Pump(actors, activeAsks, Actors, n)
      BY <3>1, <3>3, <3>4, PumpType
    <3>5. CASE UNCHANGED <<actors, activeAsks>>
      BY <3>1, <3>5
    <3> QED BY <3>2, <3>4, <3>5
  <2>2. run' \in [status : RunStatuses, caps : Nat \ {0},
                  stopReason : {"none", "user", "model", "provider", "interrupted", "superseded"},
                  failure : {"none", "InputHashMismatch", "ScriptError"}]
    BY <1>2, ConstantsAssumption DEF SetMaxConcurrency, TypeOK
  <2>3. cap' \in Nat \ {0} /\ retunes' \in Nat
    BY <1>2, ConstantsAssumption, SMTT(30) DEF SetMaxConcurrency, TypeOK
  <2>4. TypeOK'
    BY <1>2, <2>1, <2>2, <2>3 DEF SetMaxConcurrency, TypeOK, scriptVars
  <2> QED BY <1>2, <2>1, <2>4, QuietStep DEF SetMaxConcurrency
<1>3. ASSUME NEW count \in [Actors -> Nat], BlankLife(count),
             UNCHANGED run \/ run' \in [status : RunStatuses, caps : Nat \ {0},
                stopReason : {"none", "user", "model", "provider", "interrupted", "superseded"},
                failure : {"none", "InputHashMismatch", "ScriptError"}],
             rows' \in [Instances -> Row \cup {NoRow}], events' \in Seq(Event),
             \A j \in Terminal : rows'[j] = rows[j], gate' \in Gate(Terminal),
             up' \in BOOLEAN, cap' \in Nat \ {0}, lives' \in Nat, retunes' \in Nat
      PROVE  StepKeeps
  <2>1. gate' \in Gate(Terminal') /\ gate' \in Gate(Instances)
    <3>1. Terminal \subseteq Terminal' /\ Terminal \subseteq Instances
      <4>1. Terminal \subseteq Instances
        BY DEF Terminal, Recorded
      <4> QED BY <1>3, <4>1, TerminalGrows
    <3> QED BY <1>3, <3>1, GateMonotone
  <2>2. run' \in [status : RunStatuses, caps : Nat \ {0},
                  stopReason : {"none", "user", "model", "provider", "interrupted", "superseded"},
                  failure : {"none", "InputHashMismatch", "ScriptError"}]
    BY <1>3 DEF TypeOK
  <2>3. TypeOK' /\ LiveIsRunning' /\ NewCallsAreNew' /\ RecordedCallsHaveRows'
    BY <1>3, <2>1, <2>2, BlankLifeStep DEF TypeOK
  <2> QED BY <1>3, <2>1, <2>3 DEF StepKeeps, GateHoldsSettled
<1>4. CASE Crash
  <2>1. up' \in BOOLEAN
    BY <1>4, Zenon DEF Crash
  <2>2. /\ rows' \in [Instances -> Row \cup {NoRow}] /\ events' \in Seq(Event)
        /\ \A j \in Terminal : rows'[j] = rows[j]
        /\ UNCHANGED run /\ cap' \in Nat \ {0} /\ lives' \in Nat /\ retunes' \in Nat
    BY <1>4 DEF Crash, TypeOK, journalVars, boundVars
  <2>3. gate' \in Gate(Terminal) /\ BlankLife(NothingRecorded)
    BY <1>4, EmptyGateType DEF Crash
  <2> QED BY <1>3, <2>1, <2>2, <2>3, NothingRecordedType
<1>5. ASSUME NEW i \in started, NEW o \in {"ok", "failed"}, CrashInSettle(i, o)
      PROVE  StepKeeps
  <2> DEFINE ended == [rows[i] EXCEPT !.status = RowStatus[o]]
  <2>1. i \in Instances /\ rows[i] \in Row /\ rows[i].status = "running"
    <3>1. i \in Elements(live)
      BY <1>5 DEF CrashInSettle, Reported
    <3> QED BY <3>1, ElementsOfSeq DEF TypeOK, LiveIsRunning
  <2>2. ended \in Row
    <3>1. RowStatus[o] \in {"completed", "failed"}
      BY DEF RowStatus
    <3> QED BY <2>1, <3>1 DEF Row
  <2>3. rows' = [rows EXCEPT ![i] = ended]
    BY <1>5 DEF CrashInSettle
  <2> HIDE DEF ended
  <2>4. /\ rows' \in [Instances -> Row \cup {NoRow}]
        /\ \A j \in Terminal : rows'[j] = rows[j]
    BY <2>1, <2>2, <2>3 DEF TypeOK, Terminal, Recorded
  <2>5. up' \in BOOLEAN
    BY <1>5, Zenon DEF CrashInSettle
  <2>6. /\ events' \in Seq(Event) /\ UNCHANGED run
        /\ cap' \in Nat \ {0} /\ lives' \in Nat /\ retunes' \in Nat
    BY <1>5 DEF CrashInSettle, TypeOK, boundVars
  <2>7. gate' \in Gate(Terminal) /\ BlankLife(NothingRecorded)
    BY <1>5, EmptyGateType DEF CrashInSettle
  <2> QED BY <1>3, <2>4, <2>5, <2>6, <2>7, NothingRecordedType
<1>6. CASE Reconcile
  <2>1. run' \in [status : RunStatuses, caps : Nat \ {0},
                  stopReason : {"none", "user", "model", "provider", "interrupted", "superseded"},
                  failure : {"none", "InputHashMismatch", "ScriptError"}]
    BY <1>6 DEF Reconcile, TypeOK, RunStatuses
  <2>2. TypeOK'
    BY <1>6, <2>1 DEF Reconcile, TypeOK, askVars, scriptVars, boundVars
  <2> QED BY <1>6, <2>2, QuietStep DEF Reconcile, askVars
<1>7. CASE Resume
  <2>1. up' \in BOOLEAN
    BY <1>7, Zenon DEF Resume
  <2>2. run' \in [status : RunStatuses, caps : Nat \ {0},
                  stopReason : {"none", "user", "model", "provider", "interrupted", "superseded"},
                  failure : {"none", "InputHashMismatch", "ScriptError"}]
    BY <1>7 DEF Resume, TypeOK, RunStatuses
  <2>3. events' \in Seq(Event)
    <3>1. RunStarted \in Event
      BY DEF RunStarted, Event
    <3> QED BY <1>7, <3>1, AppendProperties DEF Resume, TypeOK
  <2>4. /\ rows' \in [Instances -> Row \cup {NoRow}]
        /\ \A j \in Terminal : rows'[j] = rows[j]
        /\ cap' \in Nat \ {0} /\ lives' \in Nat /\ retunes' \in Nat
    BY <1>7 DEF Resume, TypeOK, RestoredCap
  <2>5. gate' \in Gate(Terminal)
    BY <1>7, RecoveredOrderType, NewGateType DEF Resume
  <2>6. BlankLife(RecordedAsks)
    BY <1>7 DEF Resume
  <2> QED BY <1>3, <2>1, <2>2, <2>3, <2>4, <2>5, <2>6, RecordedAsksType
<1> QED BY <1>1, <1>2, <1>4, <1>5, <1>6, <1>7 DEF Host

\* Nothing happens: the invariant stays and so do the settled rows.
LEMMA IdleStep == ASSUME IInv, UNCHANGED vars PROVE StepKeeps
<1>1. TypeOK'
  BY DEF IInv, TypeOK, vars
<1> QED BY <1>1, QuietStep DEF vars, IInv

\* The invariant is inductive, and no step of the run changes a settled row.
LEMMA NextStep == ASSUME IInv, [Next]_vars PROVE StepKeeps
BY ScriptStep, DriverStep, HostStep, IdleStep DEF Next, Over

--------------------------------------------------------------------------------
(* The theorems. *)

\* The strengthened invariant holds in every state of every run: in particular every
\* live ask has its running row, a call that waits to be journalled has no row yet, and
\* the gate of replay-order.ts never holds an ask that has no final answer.
THEOREM EngineInvariant == Spec => []IInv
<1>1. IInv /\ [Next]_vars => IInv'
  BY NextStep DEF StepKeeps
<1> QED BY InitStep, <1>1, PTL DEF Spec

\* Type correctness (engine.ts, scheduler.ts): every counter, queue, row and event keeps
\* its type through every interleaving of reports, stops, retunes, crashes and resumes.
THEOREM TypeCorrect == Spec => []TypeOK
<1>1. IInv => TypeOK
  BY DEF IInv
<1> QED BY EngineInvariant, <1>1, PTL

\* A settled row is never written again: not by the admission of a call that happens to
\* take its ordinal, by a late report, by an abort, by a torn settlement or by a resume.
THEOREM SettledRowsStay == Spec => SettledRowsAreFinal
<1>1. IInv /\ [Next]_vars => [\A i \in Terminal : rows'[i] = rows[i]]_vars
  BY NextStep DEF StepKeeps
<1> QED BY EngineInvariant, <1>1, PTL DEF Spec, SettledRowsAreFinal
================================================================================
