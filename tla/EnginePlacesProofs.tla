---------------------------- MODULE EnginePlacesProofs ----------------------------
(***************************************************************************)
(* No call of the script is lost and none is answered twice: while the run *)
(* is live, a call that the script awaits is in exactly one place of the   *)
(* engine, and settling the run answers every call but those whose         *)
(* admission is still held back.  And the bound on the asks in dispatch is *)
(* used and kept.                                                          *)
(***************************************************************************)
EXTENDS EngineOrderProofs, WellFoundedInduction

--------------------------------------------------------------------------------
(* The inductive invariant. *)

\* The asks a gate holds, those on their way to the script, and those a batch names.
Kept(g)      == g.parked \cup Elements(g.queue)
Answers(box) == {box[m][1] : m \in DOMAIN box}

\* The places of call i for subagent a: waiting in R or L, in flight, held, or answered.
CallIsAt(i, a, R, L, rw, lv, g, box) ==
    \/ i \in Names(L)
    \/ i \in RowsOf(rw, a)
       /\ (i \in R \/ i \in Elements(lv) \/ i \in Kept(g) \/ i \in Answers(box))

\* The subagent a branch waits for.
AskedActor(b) == Prog[b][pc[b]][2]

\* Every awaited call is somewhere.
CallsAreSomewhere(as, rw, lv, g, box) ==
    \A b \in Branches : asking[b] # NoInst =>
        /\ pc[b] \in DOMAIN Prog[b]
        /\ CallIsAt(asking[b], AskedActor(b), as[AskedActor(b)].pendingRecorded,
                    as[AskedActor(b)].pendingLive, rw, lv, g, box)

\* The ordinal of call i was given out, of the counters os.
WasAsked(os, i) == i[2] <= os[i[1]]

\* A call belongs to one branch, and its ordinal was given out in this life.
CallsDiffer ==
    /\ \A b, c \in Branches : asking[b] # NoInst /\ asking[b] = asking[c] => b = c
    /\ \A b \in Branches : asking[b] # NoInst => WasAsked(ordinals, asking[b])

\* What waits for its admission this life has not reached; what it has reached, and what
\* waits, was asked in this life.
WaitingIsUnreached(rw, as) ==
    \A a \in Actors : \A i \in as[a].pendingRecorded : as[a].nextAdmitSeq <= rw[i].actorSeq
ReachedWasAsked(rw, as) ==
    \A a \in Actors : \A i \in as[a].pendingRecorded \cup Reached(rw, as, a) : WasAsked(ordinals, i)

\* What is held or on its way has its answer, and this life has reached it.
IsAnswered(rw, as, i) ==
    \E a \in Actors : i \in Reached(rw, as, a) /\ rw[i].status # "running"
AnsweredAreReached(rw, as, g, box) ==
    \A i \in Kept(g) \cup Answers(box) : IsAnswered(rw, as, i)

\* What is in flight this life has reached.
LiveAreReached(rw, as, lv) ==
    \A i \in Elements(lv) : \E a \in Actors : i \in Reached(rw, as, a)

\* The gate holds an ask once, where the recorded order has a place for it, and not when
\* it is on its way already.
GateIsSound(g) == /\ g.parked \cap Elements(g.queue) = {}
                  /\ g.parked \subseteq Elements(g.order)
HeldOrOnItsWay(g, box) == Kept(g) \cap Answers(box) = {}

CallsHavePlaces ==
    /\ CallsAreSomewhere(actors, rows, live, gate, inbox) /\ CallsDiffer
    /\ WaitingIsUnreached(rows, actors) /\ ReachedWasAsked(rows, actors)
    /\ LiveAreReached(rows, actors, live) /\ AnsweredAreReached(rows, actors, gate, inbox)
    /\ GateIsSound(gate) /\ HeldOrOnItsWay(gate, inbox)

PlacesInv == LogInv /\ (Running => CallsHavePlaces) /\ SettlementAnswersAll
--------------------------------------------------------------------------------
(* The gate. *)

\* A part of a sequence has the elements at its places.
LEMMA SubSeqElements ==
    ASSUME NEW s, NEW m \in Nat, NEW n \in Int
    PROVE  Elements(SubSeq(s, m, n)) = {s[k] : k \in m..n}
<1> DEFINE t == SubSeq(s, m, n)
           S == {s[k] : k \in m..n}
<1>1. /\ t \in Seq(S)
      /\ Len(t) = IF m <= n THEN n - m + 1 ELSE 0
      /\ \A k \in 1..(n - m + 1) : t[k] = s[m + k - 1]
  BY SubSeqProperties
<1>2. DOMAIN t = 1..Len(t)
  BY <1>1, LenProperties
<1> HIDE DEF t
<1>3. ASSUME NEW k \in DOMAIN t PROVE t[k] \in {s[j] : j \in m..n}
  <2>1. m <= n /\ k \in 1..(n - m + 1)
    BY <1>1, <1>2
  <2>2. m + k - 1 \in m..n /\ t[k] = s[m + k - 1]
    BY <1>1, <2>1
  <2> QED BY <2>2
<1>4. ASSUME NEW j \in m..n PROVE \E k \in DOMAIN t : t[k] = s[j]
  <2>1. /\ m <= n /\ j - m + 1 \in 1..(n - m + 1) /\ Len(t) = n - m + 1
        /\ m + (j - m + 1) - 1 = j
    BY <1>1
  <2> QED BY <1>1, <1>2, <2>1
<1> QED BY <1>3, <1>4 DEF Elements, t

\* pump() moves parked asks to the queue: it lets go of none and duplicates none.
LEMMA PumpedKeeps ==
    ASSUME NEW Keys, NEW g \in Gate(Keys)
    PROVE  /\ Kept(Pumped(g)) = Kept(g) /\ Pumped(g).order = g.order
           /\ GateIsSound(g) => GateIsSound(Pumped(g))
<1> DEFINE from   == g.cursor
           last   == Len(g.order)
           passed == {n \in from..last : \A m \in from..n : g.order[m] \in g.parked}
           stop   == from + Cardinality(passed)
           gone   == {g.order[m] : m \in passed}
           queued == SubSeq(g.order, from, stop - 1)
<1>1. /\ from \in Nat /\ last \in Nat /\ DOMAIN g.order = 1..last
      /\ g.queue \in Seq(Keys) /\ g.parked \in SUBSET Keys
  <2>1. g.order \in Seq(Keys)
    BY DEF Gate
  <2> QED BY <2>1, LenProperties DEF Gate
<1>2. passed = from..(stop - 1) /\ stop \in Int
  <2>1. IsFiniteSet(from..last)
    <3> HIDE DEF from, last
    <3> QED BY <1>1, FS_Interval
  <2>2. passed \subseteq from..last /\ passed \in SUBSET Int
    OBVIOUS
  <2>3. ASSUME NEW s \in passed PROVE s >= from /\ from..s \subseteq passed
    <3>1. s \in from..last /\ \A m \in from..s : g.order[m] \in g.parked
      OBVIOUS
    <3>2. ASSUME NEW r \in from..s PROVE r \in passed
      <4>1. r \in from..last /\ \A m \in from..r : m \in from..s
        BY <1>1, <3>1
      <4> QED BY <3>1, <4>1
    <3> QED BY <1>1, <3>1, <3>2
  <2> HIDE DEF passed, from, last
  <2>4. IsFiniteSet(passed)
    BY <2>1, <2>2, FS_Subset
  <2>5. Cardinality(passed) \in Nat /\ passed = from..(from + Cardinality(passed) - 1)
    BY <1>1, <2>2, <2>3, <2>4, InitialSegment
  <2> QED BY <1>1, <2>5
<1>3. \A m \in passed : g.order[m] \in g.parked
  <2> TAKE m \in passed
  <2>1. m \in from..last /\ \A k \in from..m : g.order[k] \in g.parked
    OBVIOUS
  <2>2. m \in from..m
    BY <1>1, <2>1
  <2> QED BY <2>1, <2>2
<1>4. Pumped(g) = [g EXCEPT !.cursor = stop, !.queue = @ \o queued, !.parked = @ \ gone]
  BY DEF Pumped
<1>5. gone \subseteq g.parked
  BY <1>3
<1>6. Elements(queued) = gone /\ queued \in Seq(Keys)
  <2>1. \A m \in from..(stop - 1) : g.order[m] \in Keys
    BY <1>1, <1>2, <1>3
  <2> HIDE DEF from, stop
  <2>2. Elements(queued) = {g.order[m] : m \in from..(stop - 1)}
    <3>1. stop - 1 \in Int /\ from \in Nat
      BY <1>1, <1>2
    <3> QED BY ONLY <2>1, <3>1, SubSeqElements
  <2>3. queued \in Seq(Keys)
    <3>1. stop - 1 \in Int /\ from \in Int
      BY <1>1, <1>2
    <3> QED BY <2>1, <3>1, SubSeqProperties
  <2> QED BY <1>2, <2>2, <2>3
<1> HIDE DEF from, last, passed, stop, gone, queued
<1>7. /\ Pumped(g).parked = g.parked \ gone /\ Pumped(g).queue = g.queue \o queued
      /\ Pumped(g).order = g.order
  BY <1>4 DEF Gate
<1>8. Elements(Pumped(g).queue) = Elements(g.queue) \cup gone
  BY <1>1, <1>6, <1>7, ElementsOfConcat
<1>9. Kept(Pumped(g)) = Kept(g)
  BY <1>5, <1>7, <1>8 DEF Kept
<1>10. GateIsSound(g) => GateIsSound(Pumped(g))
  BY <1>7, <1>8 DEF GateIsSound
<1> QED BY <1>7, <1>9, <1>10

\* hold() keeps what it held and takes what may not pass yet.
LEMMA HoldKeeps ==
    ASSUME NEW Keys, NEW g \in Gate(Keys), NEW K \in SUBSET Keys, K \cap Kept(g) = {},
           GateIsSound(g)
    PROVE  /\ Kept(Hold(g, K)) = Kept(g) \cup {k \in K : ~Passes(g, k)}
           /\ GateIsSound(Hold(g, K))
<1> DEFINE waiting == {k \in K : ~Passes(g, k)}
           parking == [g EXCEPT !.parked = @ \cup waiting]
<1>1. /\ parking \in Gate(Keys) /\ parking.parked = g.parked \cup waiting
      /\ parking.queue = g.queue /\ parking.order = g.order
  BY DEF Gate
<1>2. Hold(g, K) = IF waiting = {} THEN g ELSE Pumped(parking)
  BY DEF Hold
<1>3. waiting \subseteq Elements(g.order)
  BY DEF Passes, Elements
<1>4. waiting \cap Elements(g.queue) = {}
  BY DEF Kept
<1> HIDE DEF parking, waiting
<1>5. Kept(parking) = Kept(g) \cup waiting /\ GateIsSound(parking)
  BY <1>1, <1>3, <1>4 DEF Kept, GateIsSound
<1>6. Kept(Pumped(parking)) = Kept(parking) /\ GateIsSound(Pumped(parking))
  BY <1>1, <1>5, PumpedKeeps
<1>7. CASE waiting = {}
  BY <1>2, <1>7 DEF waiting
<1>8. CASE waiting # {}
  BY <1>2, <1>5, <1>6, <1>8 DEF waiting
<1> QED BY <1>7, <1>8

\* open() lets go of everything that is held.
LEMMA RemainingIsKept ==
    ASSUME NEW Keys, IsFiniteSet(Keys), NEW g \in Gate(Keys), GateIsSound(g)
    PROVE  Remaining(g) \in Seq(Keys) /\ Elements(Remaining(g)) = Kept(g)
<1> DEFINE rank   == [k \in g.parked |-> CHOOSE n \in DOMAIN g.order : g.order[n] = k]
           sorted == SortedBy(g.parked, rank)
<1>1. /\ g.parked \subseteq Keys /\ IsFiniteSet(g.parked) /\ g.queue \in Seq(Keys)
      /\ DOMAIN g.order \subseteq Int
  <2>1. g.parked \subseteq Keys /\ g.queue \in Seq(Keys) /\ g.order \in Seq(Keys)
    BY DEF Gate
  <2>2. IsFiniteSet(g.parked)
    BY <2>1, FS_Subset
  <2> QED BY <2>1, <2>2, LenProperties
<1>2. \A k \in g.parked : rank[k] \in DOMAIN g.order /\ g.order[rank[k]] = k
  BY DEF GateIsSound, Elements
<1> HIDE DEF rank
<1>3. \A k \in g.parked : rank[k] \in Int
  BY <1>1, <1>2
<1>4. \A j, k \in g.parked : rank[j] = rank[k] => j = k
  BY <1>2
<1>5. Lists(sorted, g.parked, rank)
  BY <1>1, <1>3, <1>4, SortedByRank
<1> HIDE DEF sorted
<1>6. sorted \in Seq(g.parked) /\ Elements(sorted) = g.parked
  BY <1>5 DEF Lists, Elements
<1>7. sorted \in Seq(Keys)
  BY <1>1, <1>6
<1>8. Remaining(g) = g.queue \o sorted
  BY DEF Remaining, rank, sorted
<1> QED BY <1>1, <1>6, <1>7, <1>8, ElementsOfConcat, ConcatProperties DEF Kept

\* The answers that a list of settled asks brings.
LEMMA CachedAnswersOf ==
    ASSUME NEW ks
    PROVE  Answers(CachedAnswers(ks)) = Elements(ks)
BY DEF Answers, CachedAnswers, Elements

\* Two batches of answers, one behind the other.
LEMMA AnswersConcat ==
    ASSUME NEW S, NEW s \in Seq(S), NEW t \in Seq(S)
    PROVE  Answers(s \o t) = Answers(s) \cup Answers(t)
<1>1. Elements(s \o t) = Elements(s) \cup Elements(t)
  BY ElementsOfConcat
<1>2. \A box : Answers(box) = {x[1] : x \in Elements(box)}
  BY DEF Answers, Elements
<1> QED BY <1>1, <1>2
--------------------------------------------------------------------------------
(* An admission. *)

\* What an admission does to the subagents, to what is in flight and to the rows.
AfterAdmission(a, R, L) ==
    /\ actors'[a].nextAdmitSeq = Behind(a, R) + Len(New(a, R, L))
    /\ actors'[a].pendingRecorded = R \ Leaving(a, R)
    /\ actors'[a].pendingLive = Left(a, R, L)
    /\ \A d \in Actors \ {a} : /\ actors'[d].nextAdmitSeq = actors[d].nextAdmitSeq
                               /\ actors'[d].pendingRecorded = actors[d].pendingRecorded
                               /\ actors'[d].pendingLive = actors[d].pendingLive
    /\ Elements(live') = Elements(live) \cup Rerun(a, R) \cup Names(New(a, R, L))
    /\ Elements(live') \subseteq Elements(live) \cup Admitted(actors', a)
    /\ RowsOf(rows', a) = RowsOf(rows, a) \cup Names(New(a, R, L))
    /\ \A d \in Actors \ {a} : RowsOf(rows', d) = RowsOf(rows, d)
    /\ \A i \in Rows(rows) : rows'[i] = rows[i]

\* An admission moves calls as the definitions above say.
LEMMA AdmissionMoves ==
    ASSUME OrderInv, TypeOK', Running, NEW a \in Actors, NEW R \in SUBSET Recorded,
           NEW L \in Seq(Instances \X Hashes), NEW box, NEW pumped \in SUBSET Actors,
           Admit(a, R, L, box, pumped), CallsOf(rows, a, R, L),
           \A n \in DOMAIN L : rows[L[n][1]] = NoRow
    PROVE  AfterAdmission(a, R, L)
<1> DEFINE new == New(a, R, L)
           as  == AdmittedActors(a, R, L)
           q   == actors[a].liveQueue \o Batch(a, R, L)
<1>1. /\ \A i \in R : rows[i].actor = a
      /\ \A m, n \in DOMAIN L : L[m][1] = L[n][1] => m = n
  BY DEF CallsOf
<1>2. /\ actors \in [Actors -> Actor] /\ actors[a] \in Actor
      /\ actors[a].liveQueue \in Seq(Instances) /\ live \in Seq(Instances)
  BY DEF OrderInv, IInv, TypeOK, Actor
<1>3. /\ live' = live \o Batch(a, R, L)
      /\ Pump(as, activeAsks, pumped, cap)
      /\ new \in Seq(Instances \X Hashes)
      /\ \A n \in DOMAIN new : /\ n \in DOMAIN L /\ new[n] = L[n]
                               /\ Behind(a, R) >= actors[a].recordedCount
      /\ \A m, n \in DOMAIN new : new[m][1] = new[n][1] => m = n
      /\ WritesRows(a, new, Behind(a, R))
  <2>1. AdmissionParts(a, R, L, box, pumped)
    BY <1>1, AdmitParts
  <2> QED BY <2>1 DEF AdmissionParts
<1>4. /\ Batch(a, R, L) \in Seq(Instances)
      /\ Elements(Batch(a, R, L)) = Rerun(a, R) \cup Names(new)
      /\ \A n \in DOMAIN new : /\ rows[new[n][1]] = NoRow /\ AskedOf(new[n][2], a)
                               /\ Behind(a, R) = Cardinality(RowsOf(rows, a))
  <2>1. /\ new \in Seq(Instances \X Hashes) /\ WritesRows(a, new, Behind(a, R))
        /\ \A n \in DOMAIN new : /\ n \in DOMAIN L /\ new[n] = L[n]
                                 /\ Behind(a, R) >= actors[a].recordedCount
        /\ \A m, n \in DOMAIN new : new[m][1] = new[n][1] => m = n
    BY <1>3
  <2>2. /\ OrderInv /\ Running /\ TypeOK' /\ a \in Actors /\ R \in SUBSET Recorded
        /\ L \in Seq(Instances \X Hashes) /\ CallsOf(rows, a, R, L)
        /\ \A n \in DOMAIN L : rows[L[n][1]] = NoRow
    OBVIOUS
  <2> QED BY ONLY <2>1, <2>2, BatchInOrder
<1>5. Behind(a, R) \in Nat
  BY <1>1, LeavingNumbers
<1>6. Elements(live') = Elements(live) \cup Rerun(a, R) \cup Names(new)
  BY <1>2, <1>3, <1>4, ElementsOfConcat
<1>7. /\ as \in [Actors -> Actor] /\ as[a].nextAdmitSeq = Behind(a, R) + Len(new)
      /\ as[a].pendingLive = Left(a, R, L) /\ as[a].pendingRecorded = R \ Leaving(a, R)
      /\ as[a].current = actors[a].current /\ as[a].liveQueue = q
      /\ \A c \in Actors \ {a} : as[c] = actors[c]
  <2>1. New(a, R, L) \in Seq(Instances \X Hashes)
    BY <1>3
  <2>2. HandedOver(a, R, L, as)
    BY <1>2, <1>4, <1>5, <2>1, AdmittedSubagents
  <2> QED BY <2>2 DEF HandedOver
<1>8. \A c \in Actors : SamePlaces(as, c)
  <2> HIDE DEF as
  <2>1. as \in [Actors -> Actor] /\ Pump(as, activeAsks, pumped, cap) /\ pumped \in SUBSET Actors
    BY <1>3, <1>7
  <2> QED BY ONLY <2>1, PumpPlaces, Zenon
<1>9. /\ RowsOf(rows', a) = RowsOf(rows, a) \cup Names(new)
      /\ \A d \in Actors \ {a} : RowsOf(rows', d) = RowsOf(rows, d)
      /\ \A i \in Rows(rows) : rows'[i] = rows[i]
  <2> HIDE DEF new
  <2> QED BY <1>3, <1>4, <1>5, NewRowsAreBehind, SMTT(20)
<1>10. Elements(live') \subseteq Elements(live) \cup Admitted(actors', a)
  <2>1. as[a].liveQueue = q
    BY <1>7
  <2>2. Elements(q) = Elements(actors[a].liveQueue) \cup Elements(Batch(a, R, L))
    BY <1>2, <1>4, ElementsOfConcat
  <2>3. Admitted(actors', a) = Admitted(as, a)
    BY <1>8 DEF SamePlaces
  <2> HIDE DEF as, q
  <2>4. Elements(q) \subseteq Admitted(as, a)
    BY <2>1 DEF Admitted
  <2> QED BY <1>4, <1>6, <2>2, <2>3, <2>4
<1> HIDE DEF as
<1>11. /\ actors'[a].nextAdmitSeq = Behind(a, R) + Len(new)
       /\ actors'[a].pendingRecorded = R \ Leaving(a, R)
       /\ actors'[a].pendingLive = Left(a, R, L)
       /\ \A d \in Actors \ {a} : /\ actors'[d].nextAdmitSeq = actors[d].nextAdmitSeq
                                  /\ actors'[d].pendingRecorded = actors[d].pendingRecorded
                                  /\ actors'[d].pendingLive = actors[d].pendingLive
  BY <1>7, <1>8 DEF SamePlaces
<1> QED BY <1>6, <1>9, <1>10, <1>11 DEF AfterAdmission

\* A subagent's rows that the admission has not reached are still waiting, and none of
\* them is when new calls were admitted.
LEMMA LeftBehind ==
    ASSUME OrderInv, Running, NEW a \in Actors, NEW R \in SUBSET Recorded,
           NEW L \in Seq(Instances \X Hashes), \A i \in R : rows[i].actor = a
    PROVE  /\ \A i \in R \ Leaving(a, R) :
                  actors[a].nextAdmitSeq <= rows[i].actorSeq
                      => Behind(a, R) + Len(New(a, R, L)) <= rows[i].actorSeq
           /\ \A i \in RowsOf(rows, a) :
                  rows[i].actorSeq < Behind(a, R) + Len(New(a, R, L))
                      => i \in Reached(rows, actors, a) \cup R
<1> DEFINE N == actors[a].nextAdmitSeq
           B == Behind(a, R)
           M == Len(New(a, R, L))
<1>1. TypeOK /\ Numbered(rows)
  BY DEF OrderInv, IInv
<1>2. /\ B \in Nat /\ N \in Nat /\ N <= B
      /\ \A s \in N..(B - 1) : \E i \in Leaving(a, R) : rows[i].actorSeq = s
      /\ B >= actors[a].recordedCount => Cardinality(RowsOf(rows, a)) = B
  BY LeavingNumbers
<1>3. \A i \in RowsOf(rows, a) : /\ rows[i].actorSeq \in Nat /\ rows[i].actor = a
                                 /\ i \in Rows(rows)
                                 /\ rows[i].actorSeq < Cardinality(RowsOf(rows, a))
  BY <1>1, RowFacts DEF RowsOf, Numbered, NumbersAreDense
<1>4. M \in Nat /\ (M = 0 \/ B >= actors[a].recordedCount)
  <2>1. CASE B >= actors[a].recordedCount
    <3>1. New(a, R, L) = L
      BY <2>1 DEF New
    <3> QED BY <2>1, <3>1, LenProperties
  <2>2. CASE ~(B >= actors[a].recordedCount)
    <3>1. New(a, R, L) = <<>>
      BY <2>2 DEF New
    <3>2. Len(<<>>) = 0
      BY EmptySeq
    <3> QED BY <3>1, <3>2
  <2> QED BY <2>1, <2>2
<1>5. R \subseteq RowsOf(rows, a) /\ Leaving(a, R) \subseteq R
  BY <1>1, RowFacts DEF RowsOf, Leaving
<1> HIDE DEF N, B, M
<1>6. ASSUME NEW i \in RowsOf(rows, a), N <= rows[i].actorSeq, rows[i].actorSeq < B
      PROVE  i \in Leaving(a, R)
  <2>1. rows[i].actorSeq \in N..(B - 1)
    BY <1>2, <1>3, <1>6
  <2>2. PICK j \in Leaving(a, R) : rows[j].actorSeq = rows[i].actorSeq
    BY <1>2, <2>1
  <2>3. j \in Rows(rows) /\ rows[j].actor = a /\ i \in Rows(rows) /\ rows[i].actor = a
    BY <1>3, <1>5, <2>2
  <2>4. i = j
    BY <1>1, <2>2, <2>3 DEF Numbered, NumbersDiffer
  <2> QED BY <2>2, <2>4
<1>7. ASSUME NEW i \in RowsOf(rows, a), B <= rows[i].actorSeq
      PROVE  M = 0
  <2>1. rows[i].actorSeq \in Nat /\ rows[i].actorSeq < Cardinality(RowsOf(rows, a))
    BY <1>3
  <2>2. Cardinality(RowsOf(rows, a)) # B
    BY <1>2, <1>7, <2>1
  <2> QED BY <1>2, <1>4, <2>2
<1>8. ASSUME NEW i \in R \ Leaving(a, R), N <= rows[i].actorSeq
      PROVE  B + M <= rows[i].actorSeq
  <2>1. rows[i].actorSeq \in Nat /\ i \in RowsOf(rows, a)
    BY <1>3, <1>5
  <2>2. B <= rows[i].actorSeq
    BY <1>2, <1>6, <1>8, <2>1
  <2>3. M = 0
    BY <1>7, <2>1, <2>2
  <2> QED BY <1>2, <2>1, <2>2, <2>3
<1>9. ASSUME NEW i \in RowsOf(rows, a), rows[i].actorSeq < B + M
      PROVE  i \in Reached(rows, actors, a) \cup R
  <2>1. rows[i].actorSeq \in Nat
    BY <1>3
  <2>2. CASE rows[i].actorSeq < N
    BY <2>2 DEF Reached, N
  <2>3. CASE N <= rows[i].actorSeq /\ rows[i].actorSeq < B
    BY <1>5, <1>6, <2>3
  <2>4. CASE B <= rows[i].actorSeq
    <3>1. M = 0
      BY <1>7, <2>4
    <3> QED BY <1>2, <1>9, <2>1, <2>4, <3>1
  <2>5. \/ rows[i].actorSeq < N \/ B <= rows[i].actorSeq
        \/ N <= rows[i].actorSeq /\ rows[i].actorSeq < B
    BY ONLY <1>2, <2>1
  <2> QED BY <2>2, <2>3, <2>4, <2>5
<1> QED BY <1>8, <1>9 DEF N, B, M

\* What an admission answers at once: the settled asks that the gate lets through.
LEMMA PassingElements ==
    ASSUME OrderInv, Running, NEW a \in Actors, NEW R \in SUBSET Recorded,
           \A i \in R : rows[i].actor = a
    PROVE  Elements(PassingNow(a, R)) = {i \in Cached(a, R) : Passes(gate, i)}
<1> DEFINE passing == {i \in Cached(a, R) : Passes(gate, i)}
           seqOf   == SeqOf(a, R)
<1>1. TypeOK /\ Numbered(rows) /\ IsFiniteSet(Leaving(a, R))
  BY LeavingNumbers DEF OrderInv, IInv
<1>2. passing \subseteq Leaving(a, R)
  BY DEF Cached
<1>3. \A i \in Leaving(a, R) : /\ i \in Rows(rows) /\ rows[i].actor = a
                               /\ rows[i].actorSeq \in Nat /\ seqOf[i] = rows[i].actorSeq
  BY <1>1, RowFacts DEF Leaving, SeqOf
<1>4. \A i, j \in passing : seqOf[i] = seqOf[j] => i = j
  BY <1>1, <1>2, <1>3 DEF Numbered, NumbersDiffer
<1>5. \A i \in passing : seqOf[i] \in Int
  BY <1>2, <1>3
<1>6. PassingNow(a, R) = SortedBy(passing, seqOf)
  BY DEF PassingNow
<1> HIDE DEF passing, seqOf
<1>7. IsFiniteSet(passing)
  BY <1>1, <1>2, FS_Subset
<1>8. Lists(SortedBy(passing, seqOf), passing, seqOf)
  BY <1>4, <1>5, <1>7, SortedByRank
<1>9. Elements(PassingNow(a, R)) = passing
  BY <1>6, <1>8 DEF Lists, Elements
<1> QED BY <1>9 DEF passing

\* The calls of a subagent keep a place, wherever the admission moves them.
Moves(i, d, R, L, box) ==
    CallIsAt(i, d, R, L, rows, live, gate, box)
        => CallIsAt(i, d, actors'[d].pendingRecorded, actors'[d].pendingLive,
                    rows', live', gate', inbox')

\* An admission leaves every call it is about in one place.
LEMMA AdmitPlaces ==
    ASSUME OrderInv, TypeOK', Running, NEW a \in Actors, NEW R \in SUBSET Recorded,
           NEW L \in Seq(Instances \X Hashes), NEW box \in Seq(Instances \X Outcomes),
           NEW pumped \in SUBSET Actors, Admit(a, R, L, box, pumped), CallsOf(rows, a, R, L),
           \A n \in DOMAIN L : rows[L[n][1]] = NoRow,
           WaitingIsUnreached(rows, actors),
           \A i \in R : actors[a].nextAdmitSeq <= rows[i].actorSeq,
           AnsweredAreReached(rows, actors, gate, box), GateIsSound(gate),
           HeldOrOnItsWay(gate, box)
    PROVE  /\ \A i : Moves(i, a, R, L, box)
           /\ \A d \in Actors \ {a} : \A i :
                  Moves(i, d, actors[d].pendingRecorded, actors[d].pendingLive, box)
           /\ WaitingIsUnreached(rows', actors')
           /\ AnsweredAreReached(rows', actors', gate', inbox') /\ GateIsSound(gate')
           /\ HeldOrOnItsWay(gate', inbox')
           /\ actors'[a].pendingRecorded \cup Reached(rows', actors', a)
                  \subseteq R \cup Names(L) \cup Reached(rows, actors, a)
           /\ \A d \in Actors \ {a} :
                  /\ actors'[d].pendingRecorded = actors[d].pendingRecorded
                  /\ Reached(rows', actors', d) = Reached(rows, actors, d)
           /\ Reached(rows, actors, a) \subseteq Reached(rows', actors', a)
           /\ Elements(live') \subseteq Elements(live) \cup Admitted(actors', a)
<1> DEFINE new     == New(a, R, L)
           cached  == Cached(a, R)
           passing == {i \in cached : Passes(gate, i)}
           waiting == {i \in cached : ~Passes(gate, i)}
           N       == actors[a].nextAdmitSeq
           B       == Behind(a, R)
<1>1. /\ TypeOK /\ RecordedCallsHaveRows /\ GateHoldsSettled /\ Numbered(rows)
      /\ \A i \in R : rows[i].actor = a
      /\ \A m, n \in DOMAIN L : L[m][1] = L[n][1] => m = n
  BY DEF OrderInv, IInv, CallsOf
<1>2. AfterAdmission(a, R, L)
  BY AdmissionMoves
<1>3. /\ gate' = Hold(gate, cached)
      /\ inbox' = box \o CachedAnswers(PassingNow(a, R))
  BY Zenon DEF Admit, Leaving, SeqOf, Rerun, Cached, PassingNow
<1>4. /\ Leaving(a, R) \subseteq R /\ Rerun(a, R) \subseteq Leaving(a, R)
      /\ cached = Leaving(a, R) \ Rerun(a, R)
      /\ \A i \in cached : rows[i].status # "running"
  BY DEF Leaving, Rerun, Cached
<1>5. /\ B \in Nat /\ N \in Nat /\ N <= B
      /\ \A i \in Leaving(a, R) : N <= rows[i].actorSeq /\ rows[i].actorSeq < B
  BY <1>1, LeavingNumbers
<1>6. R \subseteq RowsOf(rows, a) /\ cached \in SUBSET Terminal
      /\ \A i \in R : i \in Rows(rows) /\ rows[i].actorSeq \in Nat
  BY <1>1, <1>4, RowFacts DEF RowsOf, Terminal
<1>7. Len(new) \in Nat
  <2>1. new = L \/ new = <<>>
    BY DEF New
  <2> HIDE DEF new
  <2> QED BY <2>1, LenProperties, EmptySeq
<1>8. cached \cap (Kept(gate) \cup Answers(box)) = {}
  <2> SUFFICES ASSUME NEW i \in cached, i \in Kept(gate) \cup Answers(box) PROVE FALSE
    OBVIOUS
  <2>1. PICK d \in Actors : i \in Reached(rows, actors, d)
    BY DEF AnsweredAreReached, IsAnswered
  <2>2. i \in R /\ rows[i].actor = d /\ rows[i].actorSeq < actors[d].nextAdmitSeq
    BY <1>4, <2>1 DEF Reached, RowsOf
  <2>3. d = a
    BY <1>1, <2>2
  <2>4. rows[i].actorSeq < N /\ N <= rows[i].actorSeq /\ rows[i].actorSeq \in Nat
    BY <1>6, <2>2, <2>3
  <2> QED BY <1>5, <2>4
<1>9. Elements(PassingNow(a, R)) = passing
  BY <1>1, PassingElements
<1>10. /\ Kept(gate') = Kept(gate) \cup waiting /\ GateIsSound(gate')
  <2> HIDE DEF cached
  <2>1. gate \in Gate(Terminal) /\ cached \cap Kept(gate) = {}
    BY <1>1, <1>8 DEF GateHoldsSettled
  <2> QED BY <1>3, <1>6, <2>1, HoldKeeps
<1>11. Answers(inbox') = Answers(box) \cup passing
  <2>1. Answers(CachedAnswers(PassingNow(a, R))) = passing
    BY <1>9, CachedAnswersOf
  <2>2. CachedAnswers(PassingNow(a, R)) \in Seq(Instances \X Outcomes)
    BY <1>1, PassingNowType, CachedTypes
  <2> QED BY <1>3, <2>1, <2>2, AnswersConcat
<1>12. Names(new) \cup Names(Left(a, R, L)) = Names(L)
  <2>1. Names(<<>>) = {}
    BY EmptySeq DEF Names
  <2> QED BY <2>1 DEF New, Left
<1>13. /\ actors'[a].nextAdmitSeq = B + Len(new)
       /\ actors'[a].pendingRecorded = R \ Leaving(a, R)
       /\ actors'[a].pendingLive = Left(a, R, L)
       /\ Elements(live') = Elements(live) \cup Rerun(a, R) \cup Names(new)
       /\ RowsOf(rows', a) = RowsOf(rows, a) \cup Names(new)
  BY <1>2 DEF AfterAdmission
<1>14. /\ \A d \in Actors \ {a} : /\ actors'[d].nextAdmitSeq = actors[d].nextAdmitSeq
                                  /\ actors'[d].pendingRecorded = actors[d].pendingRecorded
                                  /\ actors'[d].pendingLive = actors[d].pendingLive
                                  /\ RowsOf(rows', d) = RowsOf(rows, d)
       /\ \A i \in Rows(rows) : rows'[i] = rows[i]
  BY <1>2 DEF AfterAdmission
<1> HIDE DEF new, N, B
<1>15. \A i : Moves(i, a, R, L, box)
  <2> SUFFICES ASSUME NEW i, CallIsAt(i, a, R, L, rows, live, gate, box)
               PROVE  CallIsAt(i, a, R \ Leaving(a, R), Left(a, R, L), rows', live', gate', inbox')
    BY <1>13 DEF Moves
  <2>1. CASE i \in Names(L)
    BY <1>12, <1>13, <2>1 DEF CallIsAt
  <2>2. CASE i \in RowsOf(rows, a) /\ i \in R
    BY <1>4, <1>10, <1>11, <1>13, <2>2 DEF CallIsAt
  <2>3. CASE i \in RowsOf(rows, a) /\ (i \in Elements(live) \/ i \in Kept(gate) \/ i \in Answers(box))
    BY <1>10, <1>11, <1>13, <2>3 DEF CallIsAt
  <2> QED BY <2>1, <2>2, <2>3 DEF CallIsAt
<1>16. ASSUME NEW d \in Actors \ {a}, NEW i
       PROVE  Moves(i, d, actors[d].pendingRecorded, actors[d].pendingLive, box)
  <2> HIDE DEF cached
  <2>1. Kept(gate) \subseteq Kept(gate') /\ Answers(box) \subseteq Answers(inbox')
        /\ Elements(live) \subseteq Elements(live')
    BY <1>10, <1>11, <1>13
  <2> QED BY <1>14, <2>1 DEF Moves, CallIsAt
<1>17. \A d \in Actors \ {a} : Reached(rows', actors', d) = Reached(rows, actors, d)
  <2> TAKE d \in Actors \ {a}
  <2>1. \A i \in RowsOf(rows, d) : rows'[i] = rows[i]
    BY <1>14 DEF RowsOf
  <2> QED BY <1>14, <2>1 DEF Reached
<1>18. \A i \in Reached(rows, actors, a) \cup Leaving(a, R) :
           i \in Reached(rows', actors', a) /\ rows'[i] = rows[i]
  <2> TAKE i \in Reached(rows, actors, a) \cup Leaving(a, R)
  <2>1. i \in RowsOf(rows, a) /\ i \in Rows(rows) /\ rows[i].actorSeq \in Nat
    BY <1>1, <1>4, <1>6, RowFacts DEF Reached, RowsOf
  <2>2. rows[i].actorSeq < B
    BY <1>5, <2>1 DEF Reached, N
  <2>3. rows[i].actorSeq < B + Len(new)
    BY ONLY <1>5, <1>7, <2>1, <2>2
  <2> QED BY <1>13, <1>14, <2>1, <2>3 DEF Reached
<1>19. WaitingIsUnreached(rows', actors')
  <2>1. ASSUME NEW i \in R \ Leaving(a, R) PROVE actors'[a].nextAdmitSeq <= rows'[i].actorSeq
    <3>1. B + Len(new) <= rows[i].actorSeq
      BY <1>1, LeftBehind DEF B, new
    <3> QED BY <1>6, <1>13, <1>14, <3>1
  <2>2. ASSUME NEW d \in Actors \ {a}, NEW i \in actors[d].pendingRecorded
        PROVE  actors'[d].nextAdmitSeq <= rows'[i].actorSeq
    <3>1. i \in Rows(rows)
      BY <1>1, RowFacts DEF RecordedCallsHaveRows
    <3> QED BY <1>14, <3>1 DEF WaitingIsUnreached
  <2> QED BY <1>13, <1>14, <2>1, <2>2 DEF WaitingIsUnreached
<1>20. AnsweredAreReached(rows', actors', gate', inbox')
  <2> SUFFICES ASSUME NEW i \in Kept(gate) \cup Answers(box) \cup cached
               PROVE  IsAnswered(rows', actors', i)
    BY <1>10, <1>11 DEF AnsweredAreReached
  <2>1. CASE i \in cached
    BY <1>4, <1>18, <2>1 DEF IsAnswered
  <2>2. CASE i \in Kept(gate) \cup Answers(box)
    <3>1. PICK d \in Actors : i \in Reached(rows, actors, d) /\ rows[i].status # "running"
      BY <2>2 DEF AnsweredAreReached, IsAnswered
    <3>2. i \in Rows(rows)
      BY <3>1 DEF Reached, RowsOf
    <3> QED BY <1>14, <1>17, <1>18, <3>1, <3>2 DEF IsAnswered
  <2> QED BY <2>1, <2>2
<1>21. HeldOrOnItsWay(gate', inbox')
  BY <1>8, <1>10, <1>11 DEF HeldOrOnItsWay
<1>22. actors'[a].pendingRecorded \cup Reached(rows', actors', a)
           \subseteq R \cup Names(L) \cup Reached(rows, actors, a)
  <2> SUFFICES ASSUME NEW i \in Reached(rows', actors', a)
               PROVE  i \in R \cup Names(L) \cup Reached(rows, actors, a)
    BY <1>13
  <2>1. CASE i \in Names(new)
    BY <1>12, <2>1
  <2>2. CASE i \in RowsOf(rows, a)
    <3>1. rows[i].actorSeq < B + Len(new)
      BY <1>13, <1>14, <2>2 DEF Reached, RowsOf
    <3> QED BY <1>1, <2>2, <3>1, LeftBehind DEF B, new
  <2> QED BY <1>13, <2>1, <2>2 DEF Reached
<1>23. Elements(live') \subseteq Elements(live) \cup Admitted(actors', a)
  BY <1>2 DEF AfterAdmission
<1> QED BY <1>10, <1>14, <1>15, <1>16, <1>17, <1>18, <1>19, <1>20, <1>21, <1>22, <1>23
--------------------------------------------------------------------------------
(* The script's calls. *)

\* What was asked in this life stays asked, and is told from what comes next.
LEMMA AskedStays ==
    ASSUME NEW j \in Instances, \A s \in Sites : ordinals[s] <= ordinals'[s],
           ordinals \in [Sites -> 0..MaxOrdinal], ordinals' \in [Sites -> 0..MaxOrdinal],
           WasAsked(ordinals, j)
    PROVE  WasAsked(ordinals', j)
<1>1. j[1] \in Sites /\ j[2] \in Nat
  BY DEF Instances
<1>2. MaxOrdinal \in Nat
  BY ConstantsAssumption
<1>3. ordinals[j[1]] \in Nat /\ ordinals'[j[1]] \in Nat
  BY <1>1, <1>2
<1>4. j[2] <= ordinals[j[1]] /\ ordinals[j[1]] <= ordinals'[j[1]]
  BY <1>1 DEF WasAsked
<1>5. j[2] <= ordinals'[j[1]]
  BY ONLY <1>1, <1>3, <1>4
<1> QED BY <1>5 DEF WasAsked

\* The answers that reach no other branch than b: taking one of b's from the box leaves
\* the others theirs.
OnlyFor(b, box) ==
    /\ Answers(box) \subseteq Answers(inbox)
    /\ \A c \in Branches \ {b} :
           asking[c] # NoInst /\ asking[c] \in Answers(inbox) => asking[c] \in Answers(box)

\* A call that is admitted, or that waits for its admission, is in its place.
Placing(b, n, a, i, R, L, box, pumped) ==
    /\ a = Prog[b][n][2] /\ OnlyFor(b, box)
    /\ Admit(a, R, L, box, pumped) /\ CallsOf(rows, a, R, L)
    /\ \A m \in DOMAIN L : rows[L[m][1]] = NoRow
    /\ \A j \in R : actors[a].nextAdmitSeq <= rows[j].actorSeq
    /\ actors[a].pendingRecorded \subseteq R /\ WaitingNew(actors, a) \subseteq Names(L)
    /\ R \cup Names(L) \subseteq actors[a].pendingRecorded \cup WaitingNew(actors, a) \cup {i}
    /\ i \in R \cup Names(L) /\ i # NoInst
    /\ pc' = [pc EXCEPT ![b] = n] /\ asking' = [asking EXCEPT ![b] = i]
    /\ ~WasAsked(ordinals, i) /\ WasAsked(ordinals', i)
    /\ \A s \in Sites : ordinals[s] <= ordinals'[s]
    /\ UNCHANGED <<up, runSettled>>

\* The call a branch makes gets a place, and every other call keeps its own.
LEMMA CallPlaced ==
    ASSUME PlacesInv, LogInv', Running, NEW b \in Branches, NEW n \in DOMAIN Prog[b],
           NEW a \in Actors, NEW i \in Instances, NEW R \in SUBSET Recorded,
           NEW L \in Seq(Instances \X Hashes), NEW box \in Seq(Instances \X Outcomes),
           NEW pumped \in SUBSET Actors, Placing(b, n, a, i, R, L, box, pumped)
    PROVE  PlacesInv'
<1> USE DEF Placing
<1>1. /\ OrderInv /\ TypeOK' /\ TypeOK /\ NewCallsAreNew /\ RecordedCallsHaveRows /\ LiveIsRunning
      /\ CallsHavePlaces /\ \A j \in R : rows[j].actor = a
  BY DEF PlacesInv, LogInv, OrderInv, IInv, CallsOf
<1>2. /\ pc \in [Branches -> Nat] /\ asking \in [Branches -> Instances \cup {NoInst}]
      /\ ordinals \in [Sites -> 0..MaxOrdinal] /\ ordinals' \in [Sites -> 0..MaxOrdinal]
  BY <1>1 DEF TypeOK
<1>3. AnsweredAreReached(rows, actors, gate, box) /\ HeldOrOnItsWay(gate, box)
  BY <1>1 DEF CallsHavePlaces, AnsweredAreReached, HeldOrOnItsWay, OnlyFor
<1>4. /\ \A j : Moves(j, a, R, L, box)
      /\ \A d \in Actors \ {a} : \A j :
             Moves(j, d, actors[d].pendingRecorded, actors[d].pendingLive, box)
      /\ WaitingIsUnreached(rows', actors')
      /\ AnsweredAreReached(rows', actors', gate', inbox') /\ GateIsSound(gate')
      /\ HeldOrOnItsWay(gate', inbox')
      /\ actors'[a].pendingRecorded \cup Reached(rows', actors', a)
             \subseteq R \cup Names(L) \cup Reached(rows, actors, a)
      /\ \A d \in Actors \ {a} :
             /\ actors'[d].pendingRecorded = actors[d].pendingRecorded
             /\ Reached(rows', actors', d) = Reached(rows, actors, d)
      /\ Reached(rows, actors, a) \subseteq Reached(rows', actors', a)
      /\ Elements(live') \subseteq Elements(live) \cup Admitted(actors', a)
  <2>1. WaitingIsUnreached(rows, actors) /\ GateIsSound(gate)
    BY <1>1 DEF CallsHavePlaces
  <2>2. /\ OrderInv /\ TypeOK' /\ Running /\ a \in Actors /\ R \in SUBSET Recorded
        /\ L \in Seq(Instances \X Hashes) /\ box \in Seq(Instances \X Outcomes)
        /\ pumped \in SUBSET Actors /\ Admit(a, R, L, box, pumped) /\ CallsOf(rows, a, R, L)
        /\ \A m \in DOMAIN L : rows[L[m][1]] = NoRow
        /\ \A j \in R : actors[a].nextAdmitSeq <= rows[j].actorSeq
    BY <1>1
  <2> QED BY ONLY <1>3, <2>1, <2>2, AdmitPlaces
<1>5. /\ pc'[b] = n /\ asking'[b] = i
      /\ \A c \in Branches \ {b} : pc'[c] = pc[c] /\ asking'[c] = asking[c]
  BY <1>2
<1>6. \A j \in Instances : WasAsked(ordinals, j) => WasAsked(ordinals', j)
  BY <1>2, AskedStays
<1>7. \A c \in Branches : asking[c] # NoInst =>
          asking[c] \in Instances /\ WasAsked(ordinals, asking[c]) /\ asking[c] # i
  BY <1>1, <1>2 DEF CallsHavePlaces, CallsDiffer
<1>8. CallsDiffer'
  <2>1. \A c, d \in Branches : asking'[c] # NoInst /\ asking'[c] = asking'[d] => c = d
    BY <1>1, <1>5, <1>7 DEF CallsHavePlaces, CallsDiffer
  <2>2. \A c \in Branches : asking'[c] # NoInst => WasAsked(ordinals', asking'[c])
    BY <1>5, <1>6, <1>7
  <2> QED BY <2>1, <2>2 DEF CallsDiffer
<1>9. \A c \in Branches : AskedActor(c)' = IF c = b THEN a ELSE AskedActor(c)
  BY <1>5 DEF AskedActor
<1>10. ASSUME NEW c \in Branches, asking'[c] # NoInst
       PROVE  LET d == AskedActor(c)'
              IN  /\ pc'[c] \in DOMAIN Prog[c]
                  /\ CallIsAt(asking'[c], d, actors'[d].pendingRecorded, actors'[d].pendingLive,
                              rows', live', gate', inbox')
  <2>1. CASE c = b
    <3>1. CallIsAt(i, a, R, L, rows, live, gate, box)
      <4>1. CASE i \in Names(L)
        BY <4>1 DEF CallIsAt
      <4>2. CASE i \in R
        <5>1. i \in RowsOf(rows, a)
          BY <1>1, <4>2, RowFacts DEF RowsOf
        <5> QED BY <4>2, <5>1 DEF CallIsAt
      <4> QED BY <4>1, <4>2
    <3>2. Moves(i, a, R, L, box)
      BY <1>4
    <3> QED BY <1>5, <1>9, <2>1, <3>1, <3>2 DEF Moves
  <2>2. CASE c # b
    <3> DEFINE d == AskedActor(c)
               j == asking[c]
    <3>1. j # NoInst /\ pc[c] \in DOMAIN Prog[c] /\ pc'[c] = pc[c] /\ asking'[c] = j
      BY <1>1, <1>5, <1>10, <2>2 DEF CallsHavePlaces, CallsAreSomewhere
    <3>2. d \in Actors
      <4>1. Prog[c] \in Seq(Sites \X Actors)
        BY ConstantsAssumption
      <4>2. Prog[c][pc[c]] \in Sites \X Actors
        BY <3>1, <4>1, LenProperties, ElementOfSeq
      <4> QED BY <4>2 DEF AskedActor
    <3>3. CallIsAt(j, d, actors[d].pendingRecorded, actors[d].pendingLive, rows, live, gate, inbox)
      BY <1>1, <3>1 DEF CallsHavePlaces, CallsAreSomewhere
    <3>4. j \in Answers(inbox) => j \in Answers(box)
      BY <2>2, <3>1 DEF OnlyFor
    <3>5. AskedActor(c)' = d
      BY <1>9, <2>2
    <3> HIDE DEF d, j
    <3>6. CallIsAt(j, d, actors[d].pendingRecorded, actors[d].pendingLive, rows, live, gate, box)
      BY <3>3, <3>4 DEF CallIsAt
    <3>7. CASE d = a
      <4>1. Names(actors[a].pendingLive) \subseteq Names(L)
        BY DEF WaitingNew, Names
      <4>2. CallIsAt(j, a, R, L, rows, live, gate, box)
        BY <3>6, <3>7, <4>1 DEF CallIsAt
      <4>3. Moves(j, a, R, L, box)
        BY <1>4
      <4> QED BY <3>1, <3>5, <3>7, <4>2, <4>3 DEF Moves
    <3>8. CASE d # a
      <4>1. Moves(j, d, actors[d].pendingRecorded, actors[d].pendingLive, box)
        BY <1>4, <3>2, <3>8
      <4> QED BY <3>1, <3>5, <3>6, <4>1 DEF Moves
    <3> QED BY <3>7, <3>8
  <2> QED BY <2>1, <2>2
<1>11. CallsAreSomewhere(actors, rows, live, gate, inbox)'
  BY <1>10 DEF CallsAreSomewhere
<1>12. ReachedWasAsked(rows, actors)'
  <2>1. \A d \in Actors : \A j \in actors[d].pendingRecorded \cup Reached(rows, actors, d) :
            j \in Instances /\ WasAsked(ordinals', j)
    <3>1. \A d \in Actors : \A j \in actors[d].pendingRecorded \cup Reached(rows, actors, d) :
              j \in Instances /\ WasAsked(ordinals, j)
      BY <1>1 DEF CallsHavePlaces, ReachedWasAsked, RecordedCallsHaveRows, Recorded, Reached,
                  RowsOf, Rows
    <3> QED BY <1>6, <3>1
  <2>2. \A j \in WaitingNew(actors, a) : WasAsked(ordinals', j)
    <3>1. \A j \in WaitingNew(actors, a) : j \in Names(L) /\ WasAsked(ordinals, j)
      BY <1>1 DEF NewCallsAreNew, WasAsked
    <3>2. Names(L) \subseteq Instances
      BY LenProperties, ElementOfSeq DEF Names
    <3> QED BY <1>6, <3>1, <3>2
  <2>3. \A j \in R \cup Names(L) : WasAsked(ordinals', j)
    BY <2>1, <2>2
  <2>4. \A d \in Actors : \A j \in actors'[d].pendingRecorded \cup Reached(rows', actors', d) :
            WasAsked(ordinals', j)
    <3> SUFFICES ASSUME NEW d \in Actors,
                        NEW j \in actors'[d].pendingRecorded \cup Reached(rows', actors', d)
                 PROVE  WasAsked(ordinals', j)
      OBVIOUS
    <3>1. CASE d = a
      <4>1. j \in R \cup Names(L) \cup Reached(rows, actors, a)
        BY <1>4, <3>1
      <4> QED BY <2>1, <2>3, <4>1
    <3>2. CASE d # a
      BY <1>4, <2>1, <3>2
    <3> QED BY <3>1, <3>2
  <2> QED BY <2>4 DEF ReachedWasAsked
<1>13. LiveAreReached(rows', actors', live')
  <2>1. AdmittedAreLive(rows', actors', live')
    BY DEF LogInv, OrderInv, Placed, Running
  <2>2. Admitted(actors', a) \subseteq Reached(rows', actors', a)
    BY <2>1 DEF AdmittedAreLive, IsMine, Reached
  <2>3. \A d \in Actors : Reached(rows, actors, d) \subseteq Reached(rows', actors', d)
    BY <1>4
  <2>4. LiveAreReached(rows, actors, live)
    BY <1>1 DEF CallsHavePlaces
  <2> QED BY <1>4, <2>2, <2>3, <2>4 DEF LiveAreReached
<1>14. CallsHavePlaces'
  BY <1>4, <1>8, <1>11, <1>12, <1>13 DEF CallsHavePlaces
<1>15. SettlementAnswersAll'
  BY DEF SettlementAnswersAll, Running
<1> QED BY <1>14, <1>15 DEF PlacesInv

\* The end of a life answers the calls in flight and those the gate held.
LEMMA FinishAnswers ==
    ASSUME OrderInv, GateIsSound(gate), NEW st, NEW reason, NEW fail, NEW emit,
           NEW box \in Seq(Instances \X Outcomes), Finish(st, reason, fail, emit, box)
    PROVE  Answers(inbox') = Answers(box) \cup Kept(gate) \cup Elements(live)
<1> DEFINE freed   == Remaining(gate)
           dropped == [n \in DOMAIN live |-> <<live[n], "cancelled">>]
<1>1. inbox' = (box \o CachedAnswers(freed)) \o dropped
  BY DEF Finish
<1>2. TypeOK /\ gate \in Gate(Terminal) /\ live \in Seq(Instances)
  BY DEF OrderInv, IInv, TypeOK, GateHoldsSettled
<1>3. freed \in Seq(Terminal) /\ Elements(freed) = Kept(gate)
  <2>1. IsFiniteSet(Terminal)
    BY InstancesFinite, FS_Subset DEF Terminal, Recorded
  <2> QED BY <1>2, <2>1, RemainingIsKept
<1> HIDE DEF freed
<1>4. /\ CachedAnswers(freed) \in Seq(Instances \X Outcomes)
      /\ Answers(CachedAnswers(freed)) = Kept(gate)
  BY <1>2, <1>3, CachedTypes, CachedAnswersOf
<1>5. dropped \in Seq(Instances \X Outcomes) /\ Answers(dropped) = Elements(live)
  <2> DEFINE e(n) == <<live[n], "cancelled">>
  <2>1. /\ DOMAIN live = 1..Len(live) /\ Len(live) \in Nat
        /\ \A n \in 1..Len(live) : live[n] \in Instances
    BY <1>2, LenProperties, ElementOfSeq
  <2>2. \A n \in 1..Len(live) : e(n) \in Instances \X Outcomes
    BY <2>1 DEF Outcomes
  <2>3. Answers(dropped) = Elements(live)
    BY DEF Answers, Elements
  <2>4. dropped = [n \in 1..Len(live) |-> e(n)]
    BY <2>1
  <2> HIDE DEF e, dropped
  <2>5. dropped \in Seq(Instances \X Outcomes)
    BY <2>1, <2>2, <2>4, IsASeq
  <2> QED BY <2>3, <2>5
<1> HIDE DEF dropped
<1>6. /\ box \o CachedAnswers(freed) \in Seq(Instances \X Outcomes)
      /\ Answers(box \o CachedAnswers(freed)) = Answers(box) \cup Kept(gate)
  BY <1>4, AnswersConcat, ConcatProperties
<1>7. Answers(inbox') = Answers(box \o CachedAnswers(freed)) \cup Answers(dropped)
  <2> DEFINE x == box \o CachedAnswers(freed)
  <2>1. x \in Seq(Instances \X Outcomes) /\ dropped \in Seq(Instances \X Outcomes)
    BY <1>5, <1>6
  <2>2. inbox' = x \o dropped
    BY <1>1
  <2> HIDE DEF x
  <2>3. Answers(x \o dropped) = Answers(x) \cup Answers(dropped)
    BY ONLY <2>1, AnswersConcat
  <2> QED BY <2>2, <2>3 DEF x
<1> QED BY <1>5, <1>6, <1>7

\* Settlement answers all, in terms of the calls that wait for their admission.
IsWaiting(as, i) ==
    \E a \in Actors : i \in as[a].pendingRecorded \/ i \in Names(as[a].pendingLive)
AllAnswered(as, asks, box) ==
    \A b \in Branches : asks[b] # NoInst /\ ~IsWaiting(as, asks[b]) => asks[b] \in Answers(box)

\* The property in these terms.
LEMMA SettlementForm ==
    /\ SettlementAnswersAll <=> (up /\ runSettled => AllAnswered(actors, asking, inbox))
    /\ SettlementAnswersAll' <=> (up' /\ runSettled' => AllAnswered(actors', asking', inbox'))
BY DEF SettlementAnswersAll, AllAnswered, IsWaiting, Held, Names, Answers

\* So a settled run has answered every call but those held back.
LEMMA FinishPlaces ==
    ASSUME PlacesInv, LogInv', Running, NEW st, NEW reason, NEW fail, NEW emit,
           NEW box \in Seq(Instances \X Outcomes), Finish(st, reason, fail, emit, box),
           \A c \in Branches : asking'[c] # NoInst =>
               /\ asking'[c] = asking[c]
               /\ asking[c] \in Answers(inbox) => asking[c] \in Answers(box)
    PROVE  PlacesInv'
<1>1. OrderInv /\ TypeOK /\ CallsHavePlaces
  BY DEF PlacesInv, LogInv, OrderInv, IInv
<1>2. Answers(inbox') = Answers(box) \cup Kept(gate) \cup Elements(live)
  BY <1>1, FinishAnswers DEF CallsHavePlaces
<1>3. UNCHANGED actors /\ ~Running'
  BY DEF Finish, Running
<1>4. ASSUME NEW c \in Branches, asking'[c] # NoInst, ~IsWaiting(actors', asking'[c])
      PROVE  asking'[c] \in Answers(inbox')
  <2> DEFINE d == AskedActor(c)
             i == asking[c]
  <2>1. i # NoInst /\ i = asking'[c] /\ pc[c] \in DOMAIN Prog[c]
    BY <1>1, <1>4 DEF CallsHavePlaces, CallsAreSomewhere
  <2>2. d \in Actors
    <3>1. Prog[c] \in Seq(Sites \X Actors)
      BY ConstantsAssumption
    <3>2. Prog[c][pc[c]] \in Sites \X Actors
      BY <2>1, <3>1, LenProperties, ElementOfSeq
    <3> QED BY <3>2 DEF AskedActor
  <2>3. CallIsAt(i, d, actors[d].pendingRecorded, actors[d].pendingLive, rows, live, gate, inbox)
    BY <1>1, <2>1 DEF CallsHavePlaces, CallsAreSomewhere
  <2>4. i \in Answers(inbox) => i \in Answers(box)
    BY <1>4, <2>1
  <2>5. ~IsWaiting(actors, i)
    BY <1>3, <1>4, <2>1
  <2> HIDE DEF d, i
  <2>6. ~(i \in actors[d].pendingRecorded) /\ ~(i \in Names(actors[d].pendingLive))
    BY <2>2, <2>5 DEF IsWaiting
  <2>7. i \in Answers(box) \cup Kept(gate) \cup Elements(live)
    BY <2>3, <2>4, <2>6 DEF CallIsAt
  <2> QED BY <1>2, <2>1, <2>7
<1>5. AllAnswered(actors', asking', inbox')
  BY <1>4 DEF AllAnswered
<1> QED BY <1>3, <1>5, SettlementForm DEF PlacesInv

\* A call of the script.
LEMMA AskPlaces ==
    ASSUME PlacesInv, LogInv', Running, NEW b \in Branches, NEW n \in DOMAIN Prog[b],
           NEW o \in Outcomes \cup {"start"}, NEW box \in Seq(Instances \X Outcomes),
           OnlyFor(b, box), Ask(b, n, o, box)
    PROVE  PlacesInv'
<1> DEFINE site == Prog[b][n][1]
           a    == Prog[b][n][2]
           i    == <<site, ordinals[site] + 1>>
           hash == <<b, n, o>>
           A    == actors[a]
<1>1. site \in Sites /\ a \in Actors /\ n \in Nat
  <2>1. Prog[b] \in Seq(Sites \X Actors)
    BY ConstantsAssumption
  <2>2. n \in 1..Len(Prog[b]) /\ Len(Prog[b]) \in Nat /\ Prog[b][n] \in Sites \X Actors
    BY <2>1, LenProperties, ElementOfSeq
  <2> QED BY <2>2
<1>2. AskedOf(hash, a) /\ \A c : AskedOf(hash, c) => c = a
  BY DEF AskedOf
<1>3. \/ /\ rows[i] = NoRow
         /\ Admit(a, A.pendingRecorded, Append(A.pendingLive, <<i, hash>>), box, Actors)
         /\ UNCHANGED <<up, runSettled>> /\ asking' = [asking EXCEPT ![b] = i]
      \/ /\ rows[i] # NoRow /\ rows[i].hash = hash
         /\ Admit(a, A.pendingRecorded \cup {i}, A.pendingLive, box, {a})
         /\ UNCHANGED <<up, runSettled>> /\ asking' = [asking EXCEPT ![b] = i]
      \/ /\ Finish("errored", "none", "InputHashMismatch", FALSE, box)
         /\ asking' = [asking EXCEPT ![b] = NoInst]
  BY DEF Ask
<1>4. /\ ordinals[site] < MaxOrdinal /\ pc' = [pc EXCEPT ![b] = n]
      /\ ordinals' = [ordinals EXCEPT ![site] = @ + 1] /\ a = Prog[b][n][2]
  BY DEF Ask
<1> HIDE DEF site, a
<1>5. /\ TypeOK /\ NewCallsAreNew /\ RecordedCallsHaveRows /\ Numbered(rows)
      /\ Placed(rows, actors, live, started) /\ CallsHavePlaces
      /\ ordinals \in [Sites -> 0..MaxOrdinal] /\ asking \in [Branches -> Instances \cup {NoInst}]
  BY DEF PlacesInv, LogInv, OrderInv, IInv, TypeOK
<1>6. /\ MaxOrdinal \in Nat /\ \A s \in Sites : ordinals[s] \in Nat
  BY <1>5, ConstantsAssumption
<1>7. i \in Instances /\ hash \in Hashes /\ i[1] = site /\ i[2] = ordinals[site] + 1 /\ i # NoInst
  <2>1. i \in Instances /\ hash \in Hashes
    BY <1>1, <1>4, <1>6 DEF Instances, Hashes
  <2> QED BY <2>1, NoInstIsNone
<1>8. /\ ~WasAsked(ordinals, i) /\ WasAsked(ordinals', i)
      /\ \A s \in Sites : ordinals[s] <= ordinals'[s]
  <2>1. ordinals'[site] = ordinals[site] + 1 /\ \A s \in Sites \ {site} : ordinals'[s] = ordinals[s]
    BY <1>1, <1>4, <1>5
  <2>2. ordinals[site] \in Nat
    BY <1>1, <1>6
  <2>3. ~(ordinals[site] + 1 <= ordinals[site]) /\ ordinals[site] + 1 <= ordinals'[site]
    BY ONLY <2>1, <2>2
  <2>4. \A s \in Sites : ordinals[s] <= ordinals'[s]
    BY <1>6, <2>1
  <2> QED BY <1>7, <2>3, <2>4 DEF WasAsked
<1>9. i \notin WaitingNew(actors, a)
  BY <1>1, <1>5, <1>8 DEF NewCallsAreNew, WasAsked
<1>10. /\ A.pendingRecorded \in SUBSET Recorded /\ A.pendingLive \in Seq(Instances \X Hashes)
       /\ CallsOf(rows, a, A.pendingRecorded, A.pendingLive)
       /\ \A m \in DOMAIN A.pendingLive : rows[A.pendingLive[m][1]] = NoRow
       /\ \A j \in A.pendingRecorded : A.nextAdmitSeq <= rows[j].actorSeq
       /\ Names(A.pendingLive) = WaitingNew(actors, a)
  <2>1. A.pendingLive \in Seq(Instances \X Hashes)
    BY <1>1, <1>5 DEF TypeOK, Actor
  <2>2. A.pendingRecorded \in SUBSET Recorded
    BY <1>1, <1>5 DEF RecordedCallsHaveRows
  <2>3. CallsOf(rows, a, A.pendingRecorded, A.pendingLive)
    BY <1>1, <1>5 DEF Placed, WaitingIsSound
  <2>4. \A m \in DOMAIN A.pendingLive : A.pendingLive[m][1] \in WaitingNew(actors, a)
    BY DEF WaitingNew
  <2>5. \A j \in A.pendingRecorded : A.nextAdmitSeq <= rows[j].actorSeq
    BY <1>1, <1>5 DEF CallsHavePlaces, WaitingIsUnreached
  <2>6. Names(A.pendingLive) = WaitingNew(actors, a)
    BY DEF Names, WaitingNew
  <2> QED BY <1>1, <1>5, <2>1, <2>2, <2>3, <2>4, <2>5, <2>6 DEF NewCallsAreNew
<1>11. /\ PlacesInv /\ LogInv' /\ Running /\ b \in Branches /\ n \in DOMAIN Prog[b]
       /\ a \in Actors /\ a = Prog[b][n][2] /\ i \in Instances
       /\ box \in Seq(Instances \X Outcomes) /\ OnlyFor(b, box) /\ i # NoInst
       /\ pc' = [pc EXCEPT ![b] = n] /\ ~WasAsked(ordinals, i) /\ WasAsked(ordinals', i)
       /\ \A s \in Sites : ordinals[s] <= ordinals'[s]
  BY <1>1, <1>4, <1>7, <1>8
<1> HIDE DEF i, hash, A
<1>12. CASE /\ rows[i] = NoRow
            /\ Admit(a, A.pendingRecorded, Append(A.pendingLive, <<i, hash>>), box, Actors)
            /\ UNCHANGED <<up, runSettled>> /\ asking' = [asking EXCEPT ![b] = i]
  <2> DEFINE L == Append(A.pendingLive, <<i, hash>>)
             K == Len(A.pendingLive)
  <2>1. /\ L \in Seq(Instances \X Hashes)
        /\ DOMAIN L = 1..(K + 1) /\ DOMAIN A.pendingLive = 1..K /\ K \in Nat
        /\ \A m \in 1..K : L[m] = A.pendingLive[m]
        /\ L[K + 1] = <<i, hash>>
    BY <1>7, <1>10, AppendProperties, LenProperties
  <2>2. Admit(a, A.pendingRecorded, L, box, Actors)
    BY <1>12 DEF L
  <2> HIDE DEF L, K
  <2>3. \A m \in DOMAIN L : \/ m = K + 1 /\ L[m][1] = i /\ L[m][2] = hash
                            \/ m \in DOMAIN A.pendingLive /\ L[m] = A.pendingLive[m]
    BY <2>1
  <2>4. \A m \in DOMAIN A.pendingLive : A.pendingLive[m][1] # i
    BY <1>9 DEF WaitingNew, A
  <2>5. \A m \in DOMAIN L : rows[L[m][1]] = NoRow
    BY <1>10, <1>12, <2>3
  <2>6. CallsOf(rows, a, A.pendingRecorded, L)
    <3>1. \A m \in DOMAIN L : AskedOf(L[m][2], a)
      BY <1>2, <1>10, <2>3 DEF CallsOf
    <3>2. \A l, m \in DOMAIN L : L[l][1] = L[m][1] => l = m
      BY <1>10, <2>3, <2>4 DEF CallsOf
    <3> QED BY <1>10, <3>1, <3>2 DEF CallsOf
  <2>7. Names(L) = WaitingNew(actors, a) \cup {i}
    <3>1. K + 1 \in DOMAIN L /\ L[K + 1][1] = i
      BY <2>1
    <3>2. \A m \in DOMAIN A.pendingLive : m \in DOMAIN L /\ L[m] = A.pendingLive[m]
      BY <2>1
    <3> QED BY <2>3, <3>1, <3>2 DEF Names, WaitingNew, A
  <2>8. /\ actors[a].pendingRecorded \subseteq A.pendingRecorded
        /\ A.pendingRecorded \cup Names(L)
               \subseteq actors[a].pendingRecorded \cup WaitingNew(actors, a) \cup {i}
        /\ WaitingNew(actors, a) \subseteq Names(L)
        /\ i \in A.pendingRecorded \cup Names(L)
        /\ Actors \in SUBSET Actors
    BY <2>7 DEF A
  <2>9. /\ A.pendingRecorded \in SUBSET Recorded
        /\ \A j \in A.pendingRecorded : actors[a].nextAdmitSeq <= rows[j].actorSeq
        /\ asking' = [asking EXCEPT ![b] = i] /\ UNCHANGED <<up, runSettled>>
    BY <1>10, <1>12 DEF A
  <2>10. Placing(b, n, a, i, A.pendingRecorded, L, box, Actors)
    BY ONLY <1>11, <2>2, <2>5, <2>6, <2>8, <2>9 DEF Placing
  <2> QED BY <1>11, <2>1, <2>8, <2>9, <2>10, CallPlaced
<1>13. CASE /\ rows[i] # NoRow /\ rows[i].hash = hash
            /\ Admit(a, A.pendingRecorded \cup {i}, A.pendingLive, box, {a})
            /\ UNCHANGED <<up, runSettled>> /\ asking' = [asking EXCEPT ![b] = i]
  <2> DEFINE R == A.pendingRecorded \cup {i}
             L == A.pendingLive
  <2>1. i \in Recorded /\ i \in Rows(rows) /\ rows[i].actorSeq \in Nat
    BY <1>5, <1>7, <1>13, RowFacts DEF Recorded, Rows
  <2>2. rows[i].actor = a
    BY <1>2, <1>5, <1>13, <2>1 DEF Numbered, RowsNameTheirActor
  <2>3. CallsOf(rows, a, R, L)
    BY <1>10, <2>2 DEF CallsOf
  <2>4. A.nextAdmitSeq <= rows[i].actorSeq
    <3>1. SUFFICES ASSUME ~(A.nextAdmitSeq <= rows[i].actorSeq) PROVE FALSE
      OBVIOUS
    <3>2. actors[a].nextAdmitSeq \in Nat
      BY <1>1, <1>5 DEF TypeOK, Actor
    <3>3. rows[i].actorSeq < actors[a].nextAdmitSeq
      BY <2>1, <3>1, <3>2 DEF A
    <3>4. i \in Reached(rows, actors, a)
      BY <2>1, <2>2, <3>3 DEF Reached, RowsOf
    <3> QED BY <1>1, <1>5, <1>8, <3>4 DEF CallsHavePlaces, ReachedWasAsked
  <2>5. \A j \in R : actors[a].nextAdmitSeq <= rows[j].actorSeq
    BY <1>10, <2>4 DEF A
  <2>6. R \in SUBSET Recorded /\ L \in Seq(Instances \X Hashes) /\ {a} \in SUBSET Actors
    BY <1>1, <1>10, <2>1
  <2>7. /\ Admit(a, R, L, box, {a}) /\ asking' = [asking EXCEPT ![b] = i]
        /\ UNCHANGED <<up, runSettled>>
    BY <1>13
  <2>8. /\ actors[a].pendingRecorded \subseteq R /\ WaitingNew(actors, a) \subseteq Names(L)
        /\ R \cup Names(L)
               \subseteq actors[a].pendingRecorded \cup WaitingNew(actors, a) \cup {i}
        /\ i \in R \cup Names(L)
    BY <1>10 DEF A
  <2>9. \A m \in DOMAIN L : rows[L[m][1]] = NoRow
    BY <1>10
  <2> HIDE DEF R, L
  <2>10. Placing(b, n, a, i, R, L, box, {a})
    BY ONLY <1>11, <2>3, <2>5, <2>7, <2>8, <2>9 DEF Placing
  <2> QED BY <1>11, <2>6, <2>10, CallPlaced
<1>14. CASE /\ Finish("errored", "none", "InputHashMismatch", FALSE, box)
            /\ asking' = [asking EXCEPT ![b] = NoInst]
  <2>1. \A c \in Branches : asking'[c] # NoInst =>
            /\ asking'[c] = asking[c]
            /\ asking[c] \in Answers(inbox) => asking[c] \in Answers(box)
    BY <1>5, <1>14 DEF OnlyFor
  <2> QED BY <1>14, <2>1, FinishPlaces
<1> QED BY <1>3, <1>12, <1>13, <1>14 DEF i, hash, A
--------------------------------------------------------------------------------
(* The actions. *)

\* A settlement moves its ask from flight to the script's box and no other ask.
LEMMA SettlePlaces ==
    ASSUME PlacesInv, LogInv', Running, NEW a \in Actors, NEW i \in Reached(rows, actors, a),
           actors[a].current = i, i \in Elements(live), NEW o \in {"ok", "failed"}, Settle(i, o),
           UNCHANGED <<up, runSettled, ordinals, gate, pc, asking>>
    PROVE  PlacesInv'
<1>1. /\ OrderInv /\ TypeOK /\ LiveIsRunning /\ RecordedCallsHaveRows /\ CallsHavePlaces
      /\ actors \in [Actors -> Actor] /\ actors[a] \in Actor /\ live \in Seq(Instances)
      /\ inbox \in Seq(Instances \X Outcomes)
  BY DEF PlacesInv, LogInv, OrderInv, IInv, TypeOK
<1>2. i \in Recorded /\ i \in Instances /\ rows[i].actor = a
  BY <1>1, RowFacts DEF Reached, RowsOf
<1> DEFINE as == [actors EXCEPT ![a] = [actors[a] EXCEPT !.current = NoInst]]
<1>3. /\ rows' = [rows EXCEPT ![i].status = RowStatus[o]]
      /\ live' = Without(live, i) /\ turns' = turns \ {i} /\ inbox' = Append(inbox, <<i, o>>)
      /\ Pump(as, activeAsks - 1, Actors, cap)
  BY <1>2 DEF Settle
<1>4. as \in [Actors -> Actor] /\ \A d \in Actors :
          /\ as[d].nextAdmitSeq = actors[d].nextAdmitSeq
          /\ as[d].pendingRecorded = actors[d].pendingRecorded
          /\ as[d].pendingLive = actors[d].pendingLive
  BY <1>1 DEF Actor
<1>5. \A d \in Actors : /\ actors'[d].nextAdmitSeq = actors[d].nextAdmitSeq
                        /\ actors'[d].pendingRecorded = actors[d].pendingRecorded
                        /\ actors'[d].pendingLive = actors[d].pendingLive
  <2>1. \A d \in Actors : SamePlaces(as, d)
    <3> HIDE DEF as
    <3> QED BY <1>3, <1>4, PumpPlaces
  <2> QED BY <1>4, <2>1 DEF SamePlaces
<1> HIDE DEF as
<1>6. Elements(live') = Elements(live) \ {i}
  BY <1>1, <1>3, WithoutElements
<1>7. /\ SameAsks(rows, rows') /\ rows'[i].status # "running"
      /\ \A j \in Instances \ {i} : rows'[j] = rows[j]
  BY <1>1, <1>3, SettledInOrder
<1>8. Answers(inbox') = Answers(inbox) \cup {i}
  <2> DEFINE x == <<i, o>>
  <2>1. x \in Instances \X Outcomes /\ x[1] = i /\ inbox' = Append(inbox, x)
    BY <1>2, <1>3 DEF Outcomes
  <2> HIDE DEF x
  <2>2. <<x>> \in Seq(Instances \X Outcomes) /\ Answers(<<x>>) = {i}
    BY <2>1 DEF Answers
  <2>3. inbox' = inbox \o <<x>>
    BY <1>1, <2>1, AppendIsConcat
  <2> DEFINE t == <<x>>
  <2>4. t \in Seq(Instances \X Outcomes) /\ Answers(t) = {i} /\ inbox' = inbox \o t
    BY <2>2, <2>3
  <2> HIDE DEF t
  <2>5. Answers(inbox \o t) = Answers(inbox) \cup Answers(t)
    BY <1>1, <2>4, AnswersConcat
  <2> QED BY <2>4, <2>5
<1>9. i \notin Kept(gate)
  <2> SUFFICES ASSUME i \in Kept(gate) PROVE FALSE
    OBVIOUS
  <2>1. rows[i].status # "running"
    BY <1>1 DEF CallsHavePlaces, AnsweredAreReached, IsAnswered
  <2> QED BY <1>1, <2>1 DEF LiveIsRunning
<1>10. \A d \in Actors : /\ RowsOf(rows', d) = RowsOf(rows, d)
                         /\ Reached(rows', actors', d) = Reached(rows, actors, d)
  <2>1. \A d \in Actors : RowsOf(rows', d) = RowsOf(rows, d)
    BY <1>7, NumbersKept
  <2>2. \A d \in Actors : \A j \in RowsOf(rows, d) : rows'[j].actorSeq = rows[j].actorSeq
    BY <1>7 DEF SameAsks, RowsOf
  <2> QED BY <1>5, <2>1, <2>2 DEF Reached
<1>11. CallsAreSomewhere(actors, rows, live, gate, inbox)'
  <2> SUFFICES ASSUME NEW b \in Branches, asking[b] # NoInst
               PROVE  LET d == AskedActor(b)
                      IN  /\ pc[b] \in DOMAIN Prog[b]
                          /\ CallIsAt(asking[b], d, actors'[d].pendingRecorded,
                                      actors'[d].pendingLive, rows', live', gate, inbox')
    BY DEF CallsAreSomewhere, AskedActor
  <2> DEFINE d == AskedActor(b)
             j == asking[b]
  <2>1. /\ pc[b] \in DOMAIN Prog[b]
        /\ CallIsAt(j, d, actors[d].pendingRecorded, actors[d].pendingLive, rows, live, gate, inbox)
    BY <1>1 DEF CallsHavePlaces, CallsAreSomewhere
  <2>2. d \in Actors
    <3>1. Prog[b] \in Seq(Sites \X Actors)
      BY ConstantsAssumption
    <3>2. Prog[b][pc[b]] \in Sites \X Actors
      BY <2>1, <3>1, LenProperties, ElementOfSeq
    <3> QED BY <3>2 DEF AskedActor
  <2> HIDE DEF d, j
  <2>3. CallIsAt(j, d, actors'[d].pendingRecorded, actors'[d].pendingLive, rows', live', gate, inbox')
    BY <1>5, <1>6, <1>8, <1>10, <2>1, <2>2 DEF CallIsAt
  <2> QED BY <2>1, <2>3 DEF d, j
<1>12. WaitingIsUnreached(rows, actors)'
  <2>1. \A d \in Actors : \A j \in actors[d].pendingRecorded : rows'[j].actorSeq = rows[j].actorSeq
    BY <1>1, <1>7, RowFacts DEF SameAsks, RecordedCallsHaveRows
  <2> QED BY <1>1, <1>5, <2>1 DEF CallsHavePlaces, WaitingIsUnreached
<1>13. ReachedWasAsked(rows, actors)'
  BY <1>1, <1>5, <1>10 DEF CallsHavePlaces, ReachedWasAsked, WasAsked
<1>14. AnsweredAreReached(rows, actors, gate, inbox)'
  <2> SUFFICES ASSUME NEW j \in Kept(gate) \cup Answers(inbox) \cup {i}
               PROVE  \E d \in Actors : j \in Reached(rows, actors, d) /\ rows'[j].status # "running"
    BY <1>8, <1>10 DEF AnsweredAreReached, IsAnswered
  <2>1. CASE j = i
    BY <1>7, <2>1
  <2>2. CASE j # i
    <3>1. PICK d \in Actors : j \in Reached(rows, actors, d) /\ rows[j].status # "running"
      BY <1>1, <2>2 DEF CallsHavePlaces, AnsweredAreReached, IsAnswered
    <3>2. rows'[j] = rows[j]
      BY <1>7, <2>2, <3>1 DEF Reached, RowsOf, Rows
    <3> QED BY <3>1, <3>2
  <2> QED BY <2>1, <2>2
<1>15. HeldOrOnItsWay(gate, inbox)'
  BY <1>1, <1>8, <1>9 DEF CallsHavePlaces, HeldOrOnItsWay
<1>16. CallsDiffer' /\ GateIsSound(gate)'
  BY <1>1 DEF CallsHavePlaces, CallsDiffer
<1>17. LiveAreReached(rows, actors, live)'
  BY <1>1, <1>6, <1>10 DEF CallsHavePlaces, LiveAreReached
<1>18. CallsHavePlaces'
  BY <1>11, <1>12, <1>13, <1>14, <1>15, <1>16, <1>17 DEF CallsHavePlaces
<1> QED BY <1>18 DEF PlacesInv, SettlementAnswersAll, Running

\* A step that admits, settles and asks nothing: what the gate and the box hold goes
\* nowhere but to the script.
LEMMA PassedOn ==
    ASSUME PlacesInv, LogInv', Running, UNCHANGED <<rows, live, ordinals, up, runSettled>>,
           \A a \in Actors : SamePlaces(actors, a),
           Kept(gate') \subseteq Kept(gate),
           Answers(inbox') \subseteq Answers(inbox) \cup Kept(gate),
           GateIsSound(gate'), HeldOrOnItsWay(gate', inbox'),
           \A c \in Branches : asking'[c] # NoInst =>
               /\ asking'[c] = asking[c] /\ pc'[c] = pc[c]
               /\ asking[c] \in Kept(gate) \cup Answers(inbox)
                      => asking[c] \in Kept(gate') \cup Answers(inbox')
    PROVE  PlacesInv'
<1>1. CallsHavePlaces
  BY DEF PlacesInv
<1>2. \A d \in Actors : /\ actors'[d].nextAdmitSeq = actors[d].nextAdmitSeq
                        /\ actors'[d].pendingRecorded = actors[d].pendingRecorded
                        /\ actors'[d].pendingLive = actors[d].pendingLive
                        /\ Reached(rows', actors', d) = Reached(rows, actors, d)
  BY DEF SamePlaces, Reached
<1>3. CallsAreSomewhere(actors, rows, live, gate, inbox)'
  <2> SUFFICES ASSUME NEW b \in Branches, asking'[b] # NoInst
               PROVE  LET d == AskedActor(b)'
                      IN  /\ pc'[b] \in DOMAIN Prog[b]
                          /\ CallIsAt(asking'[b], d, actors'[d].pendingRecorded,
                                      actors'[d].pendingLive, rows', live', gate', inbox')
    BY DEF CallsAreSomewhere
  <2> DEFINE d == AskedActor(b)
             j == asking[b]
  <2>1. /\ pc[b] \in DOMAIN Prog[b] /\ j # NoInst
        /\ CallIsAt(j, d, actors[d].pendingRecorded, actors[d].pendingLive, rows, live, gate, inbox)
    BY <1>1 DEF CallsHavePlaces, CallsAreSomewhere
  <2>2. d \in Actors
    <3>1. Prog[b] \in Seq(Sites \X Actors)
      BY ConstantsAssumption
    <3>2. Prog[b][pc[b]] \in Sites \X Actors
      BY <2>1, <3>1, LenProperties, ElementOfSeq
    <3> QED BY <3>2 DEF AskedActor
  <2>3. AskedActor(b)' = d /\ asking'[b] = j /\ pc'[b] = pc[b]
    BY DEF AskedActor
  <2>4. j \in Kept(gate) \cup Answers(inbox) => j \in Kept(gate') \cup Answers(inbox')
    OBVIOUS
  <2> HIDE DEF d, j
  <2>5. CallIsAt(j, d, actors'[d].pendingRecorded, actors'[d].pendingLive, rows', live', gate', inbox')
    BY <1>2, <2>1, <2>2, <2>4 DEF CallIsAt, RowsOf, Rows
  <2> QED BY <2>1, <2>3, <2>5
<1>4. CallsDiffer'
  <2>1. \A b, c \in Branches : asking'[b] # NoInst /\ asking'[b] = asking'[c] => b = c
    BY <1>1 DEF CallsHavePlaces, CallsDiffer
  <2>2. \A b \in Branches : asking'[b] # NoInst => WasAsked(ordinals', asking'[b])
    BY <1>1 DEF CallsHavePlaces, CallsDiffer
  <2> QED BY <2>1, <2>2 DEF CallsDiffer
<1>5. WaitingIsUnreached(rows, actors)' /\ ReachedWasAsked(rows, actors)'
  BY <1>1, <1>2 DEF CallsHavePlaces, WaitingIsUnreached, ReachedWasAsked
<1>6. AnsweredAreReached(rows, actors, gate, inbox)' /\ LiveAreReached(rows, actors, live)'
  BY <1>1, <1>2 DEF CallsHavePlaces, AnsweredAreReached, IsAnswered, LiveAreReached
<1>7. CallsHavePlaces'
  BY <1>3, <1>4, <1>5, <1>6 DEF CallsHavePlaces
<1> QED BY <1>7 DEF PlacesInv, SettlementAnswersAll, Running

\* A step that touches neither the journal's rows, nor the gate, nor the script.
LEMMA KeptPlaces ==
    ASSUME PlacesInv, LogInv',
           UNCHANGED <<rows, live, ordinals, up, runSettled, gate, pc, asking, inbox>>,
           \A a \in Actors : SamePlaces(actors, a)
    PROVE  PlacesInv'
<1>1. CASE Running
  <2>1. GateIsSound(gate') /\ HeldOrOnItsWay(gate', inbox')
    BY <1>1 DEF PlacesInv, CallsHavePlaces
  <2> QED BY <1>1, <2>1, PassedOn
<1>2. CASE ~Running
  <2>1. \A i : IsWaiting(actors', i) <=> IsWaiting(actors, i)
    BY DEF IsWaiting, SamePlaces
  <2>2. AllAnswered(actors, asking, inbox) => AllAnswered(actors', asking', inbox')
    BY <2>1 DEF AllAnswered
  <2> QED BY <1>2, <2>2, SettlementForm DEF PlacesInv, Running
<1> QED BY <1>1, <1>2

\* The microtask hands what the gate let go of to the script.
LEMMA FlushPlaces ==
    ASSUME PlacesInv, LogInv', FlushReplay
    PROVE  PlacesInv'
<1>1. /\ up /\ gate.queue # <<>> /\ gate' = Flushed(gate)
      /\ inbox' = inbox \o CachedAnswers(gate.queue)
      /\ UNCHANGED <<rows, live, ordinals, up, runSettled, actors, pc, asking>>
  BY DEF FlushReplay, askVars
<1>2. Running
  BY <1>1 DEF PlacesInv, LogInv, Running
<1>3. /\ TypeOK /\ gate \in Gate(Terminal) /\ CallsHavePlaces
      /\ inbox \in Seq(Instances \X Outcomes)
  BY <1>2 DEF PlacesInv, LogInv, OrderInv, IInv, TypeOK, GateHoldsSettled
<1>4. gate.queue \in Seq(Terminal)
  BY <1>3 DEF Gate
<1>5. gate'.queue = <<>> /\ gate'.parked = gate.parked /\ gate'.order = gate.order
  BY <1>1, <1>3 DEF Flushed, Gate
<1>6. Elements(<<>>) = {}
  BY EmptySeq DEF Elements
<1>7. Answers(inbox') = Answers(inbox) \cup Elements(gate.queue)
  <2> DEFINE t == CachedAnswers(gate.queue)
  <2>1. t \in Seq(Instances \X Outcomes) /\ Answers(t) = Elements(gate.queue) /\ inbox' = inbox \o t
    BY <1>1, <1>3, <1>4, CachedTypes, CachedAnswersOf
  <2> HIDE DEF t
  <2>2. Answers(inbox \o t) = Answers(inbox) \cup Answers(t)
    BY <1>3, <2>1, AnswersConcat
  <2> QED BY <2>1, <2>2
<1>8. Kept(gate') = gate.parked /\ GateIsSound(gate')
  BY <1>3, <1>5, <1>6 DEF Kept, CallsHavePlaces, GateIsSound
<1>9. HeldOrOnItsWay(gate', inbox')
  BY <1>3, <1>7, <1>8 DEF CallsHavePlaces, GateIsSound, HeldOrOnItsWay, Kept
<1>10. \A i \in Kept(gate) \cup Answers(inbox) : i \in Kept(gate') \cup Answers(inbox')
  BY <1>7, <1>8 DEF Kept
<1>11. Kept(gate') \subseteq Kept(gate) /\ Answers(inbox') \subseteq Answers(inbox) \cup Kept(gate)
  BY <1>7, <1>8 DEF Kept
<1>12. \A a \in Actors : SamePlaces(actors, a)
  BY <1>1, SameActors
<1> QED BY <1>1, <1>2, <1>8, <1>9, <1>10, <1>11, <1>12, PassedOn

\* Taking the first answer from the box.
LEMMA TailAnswers ==
    ASSUME NEW S, NEW s \in Seq(S), s # <<>>
    PROVE  Answers(s) = {Head(s)[1]} \cup Answers(Tail(s))
<1>1. /\ Tail(s) \in Seq(S) /\ Head(s) \in S /\ s = <<Head(s)>> \o Tail(s)
  BY HeadTailProperties
<1> DEFINE h == Head(s)
           t == Tail(s)
           u == <<h>>
<1>2. u \in Seq(S) /\ Answers(u) = {h[1]} /\ s = u \o t /\ t \in Seq(S)
  BY <1>1 DEF Answers
<1> HIDE DEF u, h, t
<1>3. Answers(u \o t) = Answers(u) \cup Answers(t)
  BY <1>2, AnswersConcat
<1> QED BY <1>2, <1>3 DEF h, t

\* An answer that reaches its branch takes no other branch's.
LEMMA TakenForOne ==
    ASSUME PlacesInv, NEW b \in Branches, Continue(b)
    PROVE  /\ OnlyFor(b, Tail(inbox)) /\ Tail(inbox) \in Seq(Instances \X Outcomes)
           /\ Head(inbox)[2] \in Outcomes
<1>1. /\ Running /\ inbox # <<>> /\ asking[b] = Head(inbox)[1]
  BY DEF Continue
<1>2. /\ inbox \in Seq(Instances \X Outcomes) /\ CallsHavePlaces
  BY <1>1 DEF PlacesInv, LogInv, OrderInv, IInv, TypeOK
<1>3. Tail(inbox) \in Seq(Instances \X Outcomes) /\ Head(inbox) \in Instances \X Outcomes
  BY <1>1, <1>2, HeadTailProperties
<1>4. Answers(inbox) = {asking[b]} \cup Answers(Tail(inbox))
  BY <1>1, <1>2, TailAnswers
<1>5. \A c \in Branches \ {b} : asking[c] # NoInst => asking[c] # asking[b]
  BY <1>2 DEF CallsHavePlaces, CallsDiffer
<1> QED BY <1>3, <1>4, <1>5 DEF OnlyFor

\* The script's steps.
LEMMA ScriptPlaces == ASSUME PlacesInv, LogInv', Script PROVE PlacesInv'
<1>0. inbox \in Seq(Instances \X Outcomes) /\ pc \in [Branches -> Nat]
      /\ asking \in [Branches -> Instances \cup {NoInst}]
  BY DEF PlacesInv, LogInv, OrderInv, IInv, TypeOK
<1>1. ASSUME NEW b \in Branches, StartBranch(b) PROVE PlacesInv'
  <2>1. Running /\ Ask(b, 1, "start", inbox)
    BY <1>1 DEF StartBranch
  <2>2. 1 \in DOMAIN Prog[b]
    <3>1. Prog[b] \in Seq(Sites \X Actors) /\ Prog[b] # <<>>
      BY ConstantsAssumption
    <3>2. Len(Prog[b]) \in Nat /\ Len(Prog[b]) # 0 /\ DOMAIN Prog[b] = 1..Len(Prog[b])
      BY <3>1, LenProperties, EmptySeq
    <3> QED BY <3>2
  <2>3. OnlyFor(b, inbox)
    BY DEF OnlyFor
  <2> QED BY <1>0, <2>1, <2>2, <2>3, AskPlaces
<1>2. ASSUME NEW b \in Branches, Continue(b) PROVE PlacesInv'
  <2> DEFINE o    == Head(inbox)[2]
             rest == Tail(inbox)
  <2>1. Running /\ o \in Outcomes /\ OnlyFor(b, rest) /\ rest \in Seq(Instances \X Outcomes)
    BY <1>2, TakenForOne DEF Continue
  <2>2. \/ pc[b] < Len(Prog[b]) /\ pc[b] > 0 /\ Ask(b, pc[b] + 1, o, rest)
        \/ /\ pc' = [pc EXCEPT ![b] = @ + 1] /\ asking' = [asking EXCEPT ![b] = NoInst]
           /\ inbox' = rest
           /\ UNCHANGED <<rows, live, ordinals, up, runSettled, actors, gate>>
        \/ /\ Finish("errored", "none", "ScriptError", FALSE, rest)
           /\ asking' = [asking EXCEPT ![b] = NoInst]
    BY <1>2 DEF Continue, journalVars, askVars
  <2> HIDE DEF o, rest
  <2>3. CASE pc[b] < Len(Prog[b]) /\ pc[b] > 0 /\ Ask(b, pc[b] + 1, o, rest)
    <3>1. Prog[b] \in Seq(Sites \X Actors) /\ pc[b] \in Nat
      BY <1>0, ConstantsAssumption
    <3>2. pc[b] + 1 \in DOMAIN Prog[b]
      BY <2>3, <3>1, LenProperties
    <3> QED BY <2>1, <2>3, <3>2, AskPlaces
  <2>4. CASE /\ pc' = [pc EXCEPT ![b] = @ + 1] /\ asking' = [asking EXCEPT ![b] = NoInst]
             /\ inbox' = rest
             /\ UNCHANGED <<rows, live, ordinals, up, runSettled, actors, gate>>
    <3>1. \A c \in Branches : asking'[c] # NoInst =>
              c # b /\ asking'[c] = asking[c] /\ pc'[c] = pc[c]
      BY <1>0, <2>4
    <3>2. \A c \in Branches : asking'[c] # NoInst =>
              (asking[c] \in Kept(gate) \cup Answers(inbox)
                   => asking[c] \in Kept(gate') \cup Answers(inbox'))
      BY <2>1, <2>4, <3>1 DEF OnlyFor
    <3>3. GateIsSound(gate') /\ HeldOrOnItsWay(gate', inbox')
      BY <2>1, <2>4 DEF PlacesInv, CallsHavePlaces, HeldOrOnItsWay, OnlyFor
    <3>4. /\ Kept(gate') \subseteq Kept(gate)
          /\ Answers(inbox') \subseteq Answers(inbox) \cup Kept(gate)
      BY <2>1, <2>4 DEF OnlyFor
    <3>5. \A a \in Actors : SamePlaces(actors, a)
      BY <2>4, SameActors
    <3> QED BY <2>1, <2>4, <3>1, <3>2, <3>3, <3>4, <3>5, PassedOn
  <2>5. CASE /\ Finish("errored", "none", "ScriptError", FALSE, rest)
             /\ asking' = [asking EXCEPT ![b] = NoInst]
    <3>1. \A c \in Branches : asking'[c] # NoInst =>
              /\ asking'[c] = asking[c]
              /\ asking[c] \in Answers(inbox) => asking[c] \in Answers(rest)
      BY <1>0, <2>1, <2>5 DEF OnlyFor
    <3> QED BY <2>1, <2>5, <3>1, FinishPlaces
  <2> QED BY <2>2, <2>3, <2>4, <2>5
<1>3. CASE ScriptReturns
  <2>1. /\ Running /\ Finish("completed", "none", "none", TRUE, inbox) /\ UNCHANGED asking
    BY <1>3 DEF ScriptReturns
  <2> QED BY <1>0, <2>1, FinishPlaces
<1>4. CASE FlushReplay
  BY <1>4, FlushPlaces
<1> QED BY <1>1, <1>2, <1>3, <1>4 DEF Script

\* The settlement of an ask that was put to the model.
LEMMA ReportPlaces ==
    ASSUME PlacesInv, LogInv', NEW i \in started, i \in Elements(live), NEW o \in {"ok", "failed"},
           Settle(i, o), UNCHANGED <<up, runSettled, ordinals, gate, pc, asking>>
    PROVE  PlacesInv'
<1>1. Running /\ \E a \in Actors : i \in Reached(rows, actors, a) /\ actors[a].current = i
  BY StartedPlace DEF PlacesInv, LogInv
<1> QED BY <1>1, SettlePlaces

\* The driver's steps: sessions, dispatch and reports.
LEMMA DriverPlaces == ASSUME PlacesInv, LogInv', Driver PROVE PlacesInv'
<1>1. ASSUME NEW a \in Actors, NEW s \in {"ready", "broken"}, SessionCreated(a, s)
      PROVE  PlacesInv'
  <2> DEFINE opened == [actors[a] EXCEPT !.session = s]
  <2>1. actors \in [Actors -> Actor] /\ actors[a] \in Actor
    BY DEF PlacesInv, LogInv, OrderInv, IInv, TypeOK
  <2>2. /\ opened.pendingLive = actors[a].pendingLive
        /\ opened.pendingRecorded = actors[a].pendingRecorded
        /\ opened.nextAdmitSeq = actors[a].nextAdmitSeq
        /\ opened.recordedCount = actors[a].recordedCount
        /\ opened.liveQueue = actors[a].liveQueue /\ opened.current = actors[a].current
    BY <2>1 DEF Actor
  <2>3. actors' = [actors EXCEPT ![a] = opened]
    BY <1>1 DEF SessionCreated
  <2> HIDE DEF opened
  <2>4. \A c \in Actors : SamePlaces(actors, c)
    BY <2>1, <2>2, <2>3 DEF SamePlaces, Admitted, InOrder
  <2> QED BY <1>1, <2>4, KeptPlaces DEF SessionCreated, journalVars, scriptVars
<1>2. ASSUME NEW a \in Actors, Dispatch(a) PROVE PlacesInv'
  BY <1>2, KeptPlaces, SameActors DEF Dispatch, journalVars, scriptVars
<1>3. ASSUME NEW a \in Actors, DispatchFails(a) PROVE PlacesInv'
  <2> DEFINE i == actors[a].current
  <2>1. OrderInv /\ Running /\ i \in Elements(live)
    BY <1>3 DEF DispatchFails, Dispatching, PlacesInv, LogInv
  <2>2. i \in Instances
    BY <2>1, ElementsOfSeq DEF OrderInv, IInv, TypeOK
  <2>3. i \in Admitted(actors, a)
    BY <2>2, NoInstIsNone DEF Admitted
  <2>4. i \in Reached(rows, actors, a)
    BY <2>1, <2>3 DEF OrderInv, Placed, AdmittedAreLive, IsMine, Reached
  <2>5. /\ Settle(i, "failed") /\ actors[a].current = i
        /\ UNCHANGED <<up, runSettled, ordinals, gate, pc, asking>>
    BY <1>3 DEF DispatchFails
  <2> HIDE DEF i
  <2> QED BY <2>1, <2>4, <2>5, SettlePlaces
<1>4. ASSUME NEW i \in started, Reported(i), EngineUnchanged,
             \/ Settle(i, "ok") \/ Settle(i, "failed")
             \/ UNCHANGED <<rows, events, actors, live, activeAsks, inbox, turns>>
      PROVE  PlacesInv'
  <2>1. i \in Elements(live) /\ UNCHANGED <<up, runSettled, ordinals, gate, pc, asking>>
    BY <1>4 DEF Reported, EngineUnchanged
  <2>2. CASE Settle(i, "ok") \/ Settle(i, "failed")
    BY <2>1, <2>2, ReportPlaces
  <2>3. CASE UNCHANGED <<rows, events, actors, live, activeAsks, inbox, turns>>
    BY <2>1, <2>3, KeptPlaces, SameActors
  <2> QED BY <1>4, <2>2, <2>3
<1>5. ASSUME NEW i \in started,
             SubmitAccepted(i) \/ SubmitRejected(i) \/ TurnEnded(i) \/ AskFailed(i)
      PROVE  PlacesInv'
  BY <1>4, <1>5 DEF SubmitAccepted, SubmitRejected, TurnEnded, AskFailed
<1> QED BY <1>1, <1>2, <1>3, <1>5 DEF Driver

\* A life that has asked nothing: no call has a place because there is none.
LEMMA BlankHasPlaces ==
    ASSUME OrderInv', NEW count, actors' = BlankActors(count),
           live' = <<>>, inbox' = <<>>, asking' = [b \in Branches |-> NoInst],
           gate'.parked = {}, gate'.queue = <<>>
    PROVE  CallsHavePlaces'
<1>1. Elements(<<>>) = {} /\ Answers(<<>>) = {}
  BY EmptySeq DEF Elements, Answers
<1>2. \A a \in Actors : actors'[a].pendingRecorded = {} /\ actors'[a].nextAdmitSeq = 0
  BY DEF BlankActors
<1>3. \A a \in Actors : Reached(rows', actors', a) = {}
  <2> SUFFICES ASSUME NEW a \in Actors, NEW i \in Reached(rows', actors', a) PROVE FALSE
    OBVIOUS
  <2>1. rows'[i] \in Row /\ rows'[i].actorSeq < 0
    BY <1>2 DEF Reached, RowsOf, Rows, OrderInv, IInv, TypeOK
  <2> QED BY <2>1 DEF Row
<1>4. \A b \in Branches : asking'[b] = NoInst
  OBVIOUS
<1>5. CallsAreSomewhere(actors, rows, live, gate, inbox)' /\ CallsDiffer'
  BY <1>4 DEF CallsAreSomewhere, CallsDiffer
<1>6. WaitingIsUnreached(rows, actors)' /\ ReachedWasAsked(rows, actors)'
  BY <1>2, <1>3 DEF WaitingIsUnreached, ReachedWasAsked
<1>7. LiveAreReached(rows, actors, live)'
  BY <1>1 DEF LiveAreReached
<1>8. Kept(gate') = {} /\ Answers(inbox') = {} /\ GateIsSound(gate')
  BY <1>1 DEF Kept, GateIsSound
<1>9. AnsweredAreReached(rows, actors, gate, inbox)' /\ HeldOrOnItsWay(gate, inbox)'
  BY <1>8 DEF AnsweredAreReached, HeldOrOnItsWay
<1> QED BY <1>5, <1>6, <1>7, <1>8, <1>9 DEF CallsHavePlaces

\* The host's steps: stops, retunes, crashes, reconciliation and resume.
LEMMA HostPlaces == ASSUME PlacesInv, LogInv', Host PROVE PlacesInv'
<1>1. ASSUME NEW r \in StopReasons, Stop(r) PROVE PlacesInv'
  <2>1. /\ Running /\ Finish("stopped", r, "none", TRUE, inbox) /\ UNCHANGED asking
        /\ inbox \in Seq(Instances \X Outcomes)
    BY <1>1 DEF Stop, PlacesInv, LogInv, OrderInv, IInv, TypeOK
  <2> QED BY <2>1, FinishPlaces
<1>2. ASSUME NEW n \in CapChoices, SetMaxConcurrency(n) PROVE PlacesInv'
  <2>1. actors \in [Actors -> Actor] /\ Actors \in SUBSET Actors
    BY DEF PlacesInv, LogInv, OrderInv, IInv, TypeOK
  <2>2. \/ Pump(actors, activeAsks, Actors, n)
        \/ UNCHANGED <<actors, activeAsks>>
    BY <1>2 DEF SetMaxConcurrency, Rescan
  <2>3. \A a \in Actors : SamePlaces(actors, a)
    BY <2>1, <2>2, PumpPlaces, SameActors
  <2> QED BY <1>2, <2>3, KeptPlaces DEF SetMaxConcurrency, scriptVars
<1>3. ASSUME up' = FALSE PROVE PlacesInv'
  BY <1>3 DEF PlacesInv, Running, SettlementAnswersAll
<1>4. CASE Crash
  BY <1>3, <1>4 DEF Crash
<1>5. ASSUME NEW i \in started, NEW o \in {"ok", "failed"}, CrashInSettle(i, o)
      PROVE  PlacesInv'
  BY <1>3, <1>5 DEF CrashInSettle
<1>6. CASE Reconcile
  BY <1>6, KeptPlaces, SameActors DEF Reconcile, askVars, scriptVars
<1>7. CASE Resume
  <2>1. /\ up' = TRUE /\ runSettled' = FALSE /\ actors' = BlankActors(RecordedAsks)
        /\ live' = <<>> /\ inbox' = <<>> /\ asking' = [b \in Branches |-> NoInst]
        /\ gate' = NewGate(RecoveredOrder)
    BY <1>7, Zenon DEF Resume, BlankLife
  <2>2. gate'.parked = {} /\ gate'.queue = <<>>
    BY <2>1 DEF NewGate
  <2>3. CallsHavePlaces'
    BY <2>1, <2>2, BlankHasPlaces DEF LogInv
  <2> QED BY <2>1, <2>3 DEF PlacesInv, SettlementAnswersAll
<1> QED BY <1>1, <1>2, <1>4, <1>5, <1>6, <1>7 DEF Host

\* The invariant is inductive.
LEMMA PlacesStep == ASSUME PlacesInv, [Next]_vars PROVE PlacesInv'
<1>1. LogInv'
  BY LogStep DEF PlacesInv
<1>2. CASE UNCHANGED vars
  BY <1>1, <1>2, KeptPlaces, SameActors DEF vars
<1> QED BY <1>1, <1>2, ScriptPlaces, DriverPlaces, HostPlaces DEF Next, Over

\* The first life has asked nothing.
LEMMA InitPlaces == Init => PlacesInv
<1> SUFFICES ASSUME Init PROVE PlacesInv
  OBVIOUS
<1>1. LogInv /\ OrderInv
  BY InitLog, InitOrder
<1>2. /\ actors = BlankActors(NothingRecorded) /\ live = <<>> /\ inbox = <<>>
      /\ asking = [b \in Branches |-> NoInst] /\ gate = EmptyGate /\ runSettled = FALSE
      /\ rows = [i \in Instances |-> NoRow]
  BY DEF Init
<1>3. Elements(<<>>) = {} /\ Answers(<<>>) = {}
  BY EmptySeq DEF Elements, Answers
<1>4. \A a \in Actors : actors[a].pendingRecorded = {} /\ Reached(rows, actors, a) = {}
  BY <1>2 DEF BlankActors, Reached, RowsOf, Rows
<1>5. Kept(gate) = {} /\ GateIsSound(gate) /\ Answers(inbox) = {}
  BY <1>2, <1>3 DEF Kept, GateIsSound, EmptyGate, NewGate
<1>6. CallsHavePlaces
  BY <1>2, <1>3, <1>4, <1>5
     DEF CallsHavePlaces, CallsAreSomewhere, CallsDiffer, WaitingIsUnreached, ReachedWasAsked,
         LiveAreReached, AnsweredAreReached, HeldOrOnItsWay
<1> QED BY <1>1, <1>2, <1>6 DEF PlacesInv, SettlementAnswersAll
--------------------------------------------------------------------------------
(* The theorems. *)

\* The places that EveryCallIsInOnePlace counts, for call i of subagent a.
IsAtPlace(i, a, n) ==
    \/ n = 1 /\ i \in actors[a].pendingRecorded
    \/ n = 2 /\ \E m \in DOMAIN actors[a].pendingLive : actors[a].pendingLive[m][1] = i
    \/ n = 3 /\ i \in Elements(live)
             /\ i \in Elements(actors[a].liveQueue) \cup {actors[a].current}
    \/ n = 4 /\ i \in gate.parked \cup Elements(gate.queue)
    \/ n = 5 /\ \E m \in DOMAIN inbox : inbox[m][1] = i

\* The same with the sets the invariant speaks of.
LEMMA PlaceForm ==
    ASSUME NEW i, NEW a, NEW n
    PROVE  IsAtPlace(i, a, n) <=>
               \/ n = 1 /\ i \in actors[a].pendingRecorded
               \/ n = 2 /\ i \in Names(actors[a].pendingLive)
               \/ n = 3 /\ i \in Elements(live)
                        /\ i \in Elements(actors[a].liveQueue) \cup {actors[a].current}
               \/ n = 4 /\ i \in Kept(gate)
               \/ n = 5 /\ i \in Answers(inbox)
BY DEF IsAtPlace, Names, Kept, Answers

\* A call that is somewhere is there only: what waits for its admission as a new call has
\* no row, what waits as a recorded one this life has not reached, what is in flight has
\* no answer, and what the gate holds is not on its way.
LEMMA OnePlace ==
    ASSUME PlacesInv, Running, NEW a \in Actors, NEW i \in Instances,
           CallIsAt(i, a, actors[a].pendingRecorded, actors[a].pendingLive, rows, live, gate, inbox)
    PROVE  Cardinality({n \in 1..5 : IsAtPlace(i, a, n)}) = 1
<1> DEFINE P == {n \in 1..5 : IsAtPlace(i, a, n)}
<1>1. /\ TypeOK /\ LiveIsRunning /\ NewCallsAreNew /\ RecordedCallsHaveRows /\ CallsHavePlaces
      /\ Placed(rows, actors, live, started)
  BY DEF PlacesInv, LogInv, OrderInv, IInv
<1>2. ASSUME NEW d \in Actors, i \in Reached(rows, actors, d), i \in RowsOf(rows, a)
      PROVE  i \in Reached(rows, actors, a)
  BY <1>2 DEF Reached, RowsOf
<1>3. i \in Elements(live) => i \in Rows(rows) /\ rows[i].status = "running"
  BY <1>1 DEF LiveIsRunning, Rows
<1>4. i \in Kept(gate) \cup Answers(inbox) => i \in Rows(rows) /\ rows[i].status # "running"
  BY <1>1 DEF CallsHavePlaces, AnsweredAreReached, IsAnswered, Reached, RowsOf
<1>5. \E n \in 1..5 : IsAtPlace(i, a, n)
  <2>1. CASE i \in Names(actors[a].pendingLive)
    BY <2>1, PlaceForm
  <2>2. CASE i \in actors[a].pendingRecorded
    BY <2>2, PlaceForm
  <2>3. CASE i \in RowsOf(rows, a) /\ i \in Elements(live)
    <3>1. i \in Reached(rows, actors, a)
      BY <1>1, <1>2, <2>3 DEF CallsHavePlaces, LiveAreReached
    <3>2. i \in Admitted(actors, a)
      BY <1>1, <1>3, <2>3, <3>1 DEF Placed, ReachedArePlaced
    <3> QED BY <2>3, <3>2, PlaceForm DEF Admitted
  <2>4. CASE i \in Kept(gate)
    BY <2>4, PlaceForm
  <2>5. CASE i \in Answers(inbox)
    BY <2>5, PlaceForm
  <2> QED BY <2>1, <2>2, <2>3, <2>4, <2>5 DEF CallIsAt
<1>6. i \in Names(actors[a].pendingLive) => i \notin Rows(rows)
  BY <1>1 DEF NewCallsAreNew, WaitingNew, Names, Rows
<1>7. i \in actors[a].pendingRecorded =>
          i \in RowsOf(rows, a) /\ i \notin Reached(rows, actors, a)
  <2> SUFFICES ASSUME i \in actors[a].pendingRecorded
               PROVE  i \in RowsOf(rows, a) /\ ~(rows[i].actorSeq < actors[a].nextAdmitSeq)
    BY DEF Reached
  <2>1. rows[i].actor = a /\ i \in Recorded
    BY <1>1 DEF Placed, WaitingIsSound, CallsOf, RecordedCallsHaveRows
  <2>2. i \in RowsOf(rows, a) /\ rows[i].actorSeq \in Nat /\ actors[a].nextAdmitSeq \in Nat
    BY <1>1, <2>1, RowFacts DEF TypeOK, Actor
  <2>3. actors[a].nextAdmitSeq <= rows[i].actorSeq
    BY <1>1 DEF CallsHavePlaces, WaitingIsUnreached
  <2> QED BY <2>2, <2>3
<1>8. i \in Elements(live) \cup Kept(gate) \cup Answers(inbox) /\ i \in RowsOf(rows, a) =>
          i \in Reached(rows, actors, a)
  BY <1>1, <1>2 DEF CallsHavePlaces, LiveAreReached, AnsweredAreReached, IsAnswered
<1>9. ~(i \in Kept(gate) /\ i \in Answers(inbox))
  BY <1>1 DEF CallsHavePlaces, HeldOrOnItsWay
<1>10. \A m, n \in 1..5 : IsAtPlace(i, a, m) /\ IsAtPlace(i, a, n) => m = n
  BY <1>3, <1>4, <1>6, <1>7, <1>8, <1>9, PlaceForm DEF RowsOf
<1>11. PICK n \in 1..5 : P = {n}
  BY <1>5, <1>10
<1> QED BY <1>11, FS_Singleton

\* No call is lost and none is answered twice (scheduler-submit.ts, replay-order.ts,
\* engine-settlement.ts): a call that the script awaits waits for its admission, or is
\* queued or in dispatch, or is held by the gate, or its answer is on its way, and of
\* these exactly one, whatever the script, its replay and the driver do.
THEOREM CallsInOnePlace == Spec => []EveryCallIsInOnePlace
<1>1. PlacesInv /\ [Next]_vars => PlacesInv'
  BY PlacesStep
<1>2. PlacesInv => EveryCallIsInOnePlace
  <2> SUFFICES ASSUME PlacesInv, Running, NEW b \in Branches, asking[b] # NoInst
               PROVE  LET i == asking[b]
                          a == Prog[b][pc[b]][2]
                      IN  Cardinality({n \in 1..5 : IsAtPlace(i, a, n)}) = 1
    BY DEF EveryCallIsInOnePlace, IsAtPlace
  <2> DEFINE i == asking[b]
             a == AskedActor(b)
  <2>1. TypeOK /\ CallsHavePlaces
    BY DEF PlacesInv, LogInv, OrderInv, IInv
  <2>2. /\ pc[b] \in DOMAIN Prog[b] /\ i \in Instances
        /\ CallIsAt(i, a, actors[a].pendingRecorded, actors[a].pendingLive, rows, live, gate, inbox)
    BY <2>1 DEF CallsHavePlaces, CallsAreSomewhere, TypeOK
  <2>3. a \in Actors
    <3>1. Prog[b] \in Seq(Sites \X Actors)
      BY ConstantsAssumption
    <3>2. Prog[b][pc[b]] \in Sites \X Actors
      BY <2>2, <3>1, LenProperties, ElementOfSeq
    <3> QED BY <3>2 DEF AskedActor
  <2>4. a = Prog[b][pc[b]][2]
    BY DEF AskedActor
  <2> HIDE DEF i, a
  <2>5. Cardinality({n \in 1..5 : IsAtPlace(i, a, n)}) = 1
    BY <2>2, <2>3, OnePlace
  <2> QED BY <2>4, <2>5 DEF i
<1> QED BY InitPlaces, <1>1, <1>2, PTL DEF Spec

\* Settling the run answers every call (engine-settlement.ts, finishRun): the asks in
\* flight are rejected and those the gate held are released, and only a call whose
\* admission the hold rule keeps back stays without an answer.
THEOREM SettlementAnswersEveryCall == Spec => []SettlementAnswersAll
<1>1. PlacesInv /\ [Next]_vars => PlacesInv'
  BY PlacesStep
<1>2. PlacesInv => SettlementAnswersAll
  BY DEF PlacesInv
<1> QED BY InitPlaces, <1>1, <1>2, PTL DEF Spec
--------------------------------------------------------------------------------
(* The bound on the asks in dispatch. *)

\* The subagents with an ask in dispatch; and that none has an ask queued and none in
\* dispatch beside a free slot.
Busy(as) == {a \in Actors : as[a].current # NoInst}
SlotsUsed(as, active, bound) ==
    active < bound => \A a \in Actors : as[a].current # NoInst \/ as[a].liveQueue = <<>>

\* The counter counts, the bound in use is that of the run's row, and no slot is left free.
SlotsKept(as, active, bound, r) ==
    active = Cardinality(Busy(as)) /\ bound = r.caps /\ SlotsUsed(as, active, bound)
BoundInv == OrderInv /\ (Running => SlotsKept(actors, activeAsks, cap, run))

\* What a step keeps of it, and what it may let in.
BoundKept ==
    /\ Running' => SlotsKept(actors', activeAsks', cap', run')
    /\ Running /\ Running' /\ ~(Busy(actors') \subseteq Busy(actors))
           => Cardinality(Busy(actors')) <= run'.caps

\* A set of numbers that is not empty has a smallest.
LEMMA SmallestNat ==
    ASSUME NEW T \in SUBSET Nat, T # {}
    PROVE  \E m \in T : \A n \in T : m <= n
<1>1. \E m \in T : \A n \in T : ~(<<n, m>> \in OpToRel(<, Nat))
  BY NatLessThanWellFounded, WFMin
<1>2. PICK m \in T : \A n \in T : ~(<<n, m>> \in OpToRel(<, Nat))
  BY <1>1
<1>3. \A n \in T : m <= n
  <2> TAKE n \in T
  <2>1. ~(n < m)
    BY <1>2 DEF OpToRel
  <2> QED BY <2>1
<1> QED BY <1>3

\* Of the subagents that are ready the bound lets through as many as there are slots, the
\* oldest first: all of them if a slot is left.
LEMMA DispatchableFits ==
    ASSUME NEW as, NEW active \in Nat, NEW A \in SUBSET Actors, NEW bound \in Nat
    PROVE  LET ready  == {a \in A : as[a].current = NoInst /\ as[a].liveQueue # <<>>}
               chosen == Dispatchable(as, active, A, bound)
           IN  /\ chosen \subseteq ready /\ IsFiniteSet(chosen) /\ Cardinality(chosen) \in Nat
               /\ chosen # {} => active + Cardinality(chosen) <= bound
               /\ active + Cardinality(chosen) < bound => chosen = ready
<1> DEFINE ready    == {a \in A : as[a].current = NoInst /\ as[a].liveQueue # <<>>}
           older(a) == {b \in ready : ActorOrder[b] < ActorOrder[a]}
           chosen   == {a \in ready : active + Cardinality(older(a)) < bound}
<1>1. Dispatchable(as, active, A, bound) = chosen
  BY DEF Dispatchable
<1>2. /\ \A a \in ready : ActorOrder[a] \in Nat
      /\ \A a, b \in ready : ActorOrder[a] = ActorOrder[b] => a = b
  BY ConstantsAssumption
<1>3. IsFiniteSet(ready)
  <2>1. ready \in SUBSET Actors
    OBVIOUS
  <2> QED BY <2>1, ConstantsAssumption, FS_Subset
<1>4. /\ IsFiniteSet(chosen) /\ Cardinality(chosen) \in Nat
      /\ \A a \in ready : IsFiniteSet(older(a)) /\ Cardinality(older(a)) \in Nat
  <2>1. chosen \in SUBSET ready /\ \A a \in ready : older(a) \in SUBSET ready
    OBVIOUS
  <2> HIDE DEF chosen, older, ready
  <2> QED BY <1>3, <2>1, FS_Subset, FS_CardinalityType
<1>5. \A a, b \in ready : ActorOrder[a] < ActorOrder[b] => Cardinality(older(a)) < Cardinality(older(b))
  <2> TAKE a, b \in ready
  <2> HAVE ActorOrder[a] < ActorOrder[b]
  <2>1. older(a) \in SUBSET older(b) /\ a \in older(b) /\ a \notin older(a)
    <3>1. ActorOrder[a] \in Nat /\ ActorOrder[b] \in Nat
      BY <1>2
    <3>2. \A c \in ready : ActorOrder[c] < ActorOrder[a] => ActorOrder[c] < ActorOrder[b]
      <4> TAKE c \in ready
      <4>1. ActorOrder[c] \in Nat /\ ActorOrder[a] < ActorOrder[b]
        BY <1>2
      <4> QED BY ONLY <3>1, <4>1
    <3>3. ~(ActorOrder[a] < ActorOrder[a])
      BY <3>1
    <3> HIDE DEF ready
    <3> QED BY <3>2, <3>3
  <2>2. IsFiniteSet(older(b)) /\ Cardinality(older(a)) \in Nat /\ Cardinality(older(b)) \in Nat
    BY <1>4
  <2> HIDE DEF older
  <2>3. /\ Cardinality(older(a)) <= Cardinality(older(b))
        /\ Cardinality(older(b)) = Cardinality(older(a)) => older(b) = older(a)
    BY <2>1, <2>2, FS_Subset
  <2> QED BY <2>1, <2>2, <2>3
<1>6. ASSUME chosen # {} PROVE active + Cardinality(chosen) <= bound
  <2> DEFINE places == 0..(bound - active - 1)
             place  == [a \in chosen |-> Cardinality(older(a))]
  <2>1. \A a \in chosen : a \in ready /\ active + Cardinality(older(a)) < bound
    OBVIOUS
  <2>2. \A a \in chosen : Cardinality(older(a)) \in places
    <3> TAKE a \in chosen
    <3> DEFINE k == Cardinality(older(a))
    <3>1. k \in Nat /\ active + k < bound /\ active \in Nat /\ bound \in Nat
      BY <1>4, <2>1
    <3> HIDE DEF k
    <3>2. k \in 0..(bound - active - 1)
      BY ONLY <3>1
    <3> QED BY <3>2 DEF k
  <2>3. \A a, b \in chosen : Cardinality(older(a)) = Cardinality(older(b)) => a = b
    <3> TAKE a, b \in chosen
    <3> HAVE Cardinality(older(a)) = Cardinality(older(b))
    <3>1. a \in ready /\ b \in ready
      BY <2>1
    <3> HIDE DEF older, chosen, ready
    <3>2. ~(ActorOrder[a] < ActorOrder[b]) /\ ~(ActorOrder[b] < ActorOrder[a])
      BY <1>4, <1>5, <3>1
    <3> QED BY <1>2, <3>1, <3>2
  <2>4. active < bound
    <3>1. PICK a \in chosen : TRUE
      BY <1>6
    <3>2. active + Cardinality(older(a)) < bound /\ Cardinality(older(a)) \in Nat
      BY <1>4, <2>1, <3>1
    <3> QED BY <3>2
  <2> HIDE DEF older, chosen, ready
  <2>5. IsFiniteSet(places) /\ Cardinality(places) = bound - active
    BY <2>4, FS_Interval
  <2> HIDE DEF places
  <2>6. place \in Injection(chosen, places)
    BY <2>2, <2>3 DEF Injection, IsInjective
  <2>7. Cardinality(chosen) <= Cardinality(places)
    BY <2>5, <2>6, FS_Injection
  <2> QED BY <1>4, <2>5, <2>7
<1>7. ASSUME active + Cardinality(chosen) < bound PROVE chosen = ready
  <2> SUFFICES ASSUME chosen # ready PROVE FALSE
    OBVIOUS
  <2> DEFINE late  == {ActorOrder[a] : a \in ready \ chosen}
  <2>1. late \in SUBSET Nat /\ late # {}
    BY <1>2, ZenonT(30)
  <2>2. PICK m \in late : \A n \in late : m <= n
    BY <2>1, SmallestNat
  <2>3. PICK a \in ready \ chosen : m = ActorOrder[a]
    BY <2>2
  <2>4. older(a) \in SUBSET chosen
    <3> SUFFICES ASSUME NEW b \in older(a), b \notin chosen PROVE FALSE
      OBVIOUS
    <3>1. b \in ready \ chosen /\ ActorOrder[b] < ActorOrder[a]
      OBVIOUS
    <3> HIDE DEF chosen, older, ready
    <3>2. ActorOrder[b] \in late
      BY <3>1
    <3> QED BY <1>2, <2>2, <2>3, <3>1, <3>2
  <2>5. ~(active + Cardinality(older(a)) < bound)
    BY <2>3
  <2>6. a \in ready
    BY <2>3
  <2> HIDE DEF chosen, older, ready
  <2>7. Cardinality(older(a)) <= Cardinality(chosen) /\ Cardinality(older(a)) \in Nat
    BY <1>4, <2>4, <2>6, FS_Subset
  <2> QED BY <1>4, <1>7, <2>5, <2>7
<1>8. chosen \subseteq ready
  OBVIOUS
<1> HIDE DEF chosen
<1> QED BY <1>1, <1>4, <1>6, <1>7, <1>8

\* A pump counts whom it lets in, lets them in only up to the bound, and leaves no slot
\* beside a subagent it looked at.
LEMMA PumpFits ==
    ASSUME NEW as \in [Actors -> Actor], NEW active \in Nat, NEW A \in SUBSET Actors,
           NEW bound \in Nat, Pump(as, active, A, bound), active = Cardinality(Busy(as))
    PROVE  /\ activeAsks' = Cardinality(Busy(actors')) /\ activeAsks' >= active
           /\ ~(Busy(actors') \subseteq Busy(as)) => Cardinality(Busy(actors')) <= bound
           /\ activeAsks' < bound =>
                  \A a \in A : actors'[a].current # NoInst \/ actors'[a].liveQueue = <<>>
           /\ \A a \in Actors \ A : actors'[a] = as[a]
<1> DEFINE ready  == {a \in A : as[a].current = NoInst /\ as[a].liveQueue # <<>>}
           chosen == Dispatchable(as, active, A, bound)
<1>1. /\ chosen \subseteq ready /\ IsFiniteSet(chosen) /\ Cardinality(chosen) \in Nat
      /\ chosen # {} => active + Cardinality(chosen) <= bound
      /\ active + Cardinality(chosen) < bound => chosen = ready
  BY DispatchableFits
<1>2. activeAsks' = active + Cardinality(chosen)
  BY DEF Pump
<1>3. \A a \in Actors : actors'[a] = IF a \in chosen
                                     THEN [as[a] EXCEPT !.current = Head(as[a].liveQueue),
                                                        !.liveQueue = Tail(as[a].liveQueue)]
                                     ELSE as[a]
  BY DEF Pump
<1>4. chosen \in SUBSET Actors /\ \A a \in chosen : a \in A /\ as[a].current = NoInst /\ as[a].liveQueue # <<>>
  BY <1>1
<1> HIDE DEF chosen, ready
<1>5. \A a \in chosen : actors'[a].current \in Instances
  <2> TAKE a \in chosen
  <2>1. as[a] \in Actor /\ as[a].liveQueue \in Seq(Instances) /\ as[a].liveQueue # <<>>
    BY <1>4 DEF Actor
  <2>2. Head(as[a].liveQueue) \in Instances
    BY <2>1, HeadTailProperties
  <2>3. actors'[a].current = Head(as[a].liveQueue)
    BY <1>3, <1>4, <2>1 DEF Actor
  <2> QED BY <2>2, <2>3
<1>6. Busy(actors') = Busy(as) \cup chosen /\ Busy(as) \cap chosen = {}
  BY <1>3, <1>4, <1>5, NoInstIsNone DEF Busy
<1>7. Cardinality(Busy(actors')) = active + Cardinality(chosen)
  <2>1. IsFiniteSet(Busy(as))
    BY ConstantsAssumption, FS_Subset DEF Busy
  <2>2. Cardinality(Busy(as) \cap chosen) = 0
    BY <1>6, FS_EmptySet
  <2> DEFINE x == Busy(as)
  <2> HIDE DEF x
  <2>3. IsFiniteSet(x) /\ Cardinality(x \cap chosen) = 0
    BY <2>1, <2>2 DEF x
  <2>4. Cardinality(x \cup chosen) = Cardinality(x) + Cardinality(chosen) - 0
    BY <1>1, <2>3, FS_Union
  <2>5. Cardinality(x) = active
    BY DEF x
  <2>6. Cardinality(x \cup chosen) = active + Cardinality(chosen)
    <3>1. active \in Nat /\ Cardinality(chosen) \in Nat
      BY <1>1
    <3> QED BY ONLY <3>1, <2>4, <2>5
  <2> QED BY <1>6, <2>6 DEF x
<1>8. ~(Busy(actors') \subseteq Busy(as)) => chosen # {}
  BY <1>6
<1>9. ASSUME activeAsks' < bound, NEW a \in A
      PROVE  actors'[a].current # NoInst \/ actors'[a].liveQueue = <<>>
  <2>1. chosen = ready /\ a \in Actors
    BY <1>1, <1>2, <1>9
  <2>2. CASE a \in chosen
    BY <1>5, <2>2, NoInstIsNone
  <2>3. CASE a \notin chosen
    BY <1>3, <2>1, <2>3 DEF ready
  <2> QED BY <2>2, <2>3
<1>10. \A a \in Actors \ A : actors'[a] = as[a]
  BY <1>3, <1>4
<1>11. activeAsks' >= active
  <2>1. active \in Nat /\ Cardinality(chosen) \in Nat /\ activeAsks' = active + Cardinality(chosen)
    BY <1>1, <1>2
  <2> QED BY ONLY <2>1
<1> QED BY <1>1, <1>2, <1>7, <1>8, <1>9, <1>10, <1>11

\* What the invariant says of a run that is under way.
LEMMA BoundFacts ==
    ASSUME BoundInv, Running
    PROVE  /\ actors \in [Actors -> Actor] /\ cap \in Nat /\ run.caps = cap
           /\ activeAsks = Cardinality(Busy(actors)) /\ activeAsks \in Nat
           /\ SlotsUsed(actors, activeAsks, cap)
<1>1. TypeOK
  BY DEF BoundInv, OrderInv, IInv
<1>2. IsFiniteSet(Busy(actors))
  BY ConstantsAssumption, FS_Subset DEF Busy
<1>3. Cardinality(Busy(actors)) \in Nat
  BY <1>2, FS_CardinalityType
<1> QED BY <1>1, <1>3 DEF BoundInv, SlotsKept, TypeOK

\* A pump of all subagents after whoever was in dispatch has perhaps left it: the counter
\* was set right, and the bound may have been changed.
LEMMA PumpedBound ==
    ASSUME NEW as \in [Actors -> Actor], NEW active \in Nat, active = Cardinality(Busy(as)),
           Busy(as) \subseteq Busy(actors), Pump(as, active, Actors, cap'),
           cap' \in Nat, run'.caps = cap'
    PROVE  BoundKept
<1>1. /\ activeAsks' = Cardinality(Busy(actors'))
      /\ ~(Busy(actors') \subseteq Busy(as)) => Cardinality(Busy(actors')) <= cap'
      /\ activeAsks' < cap' =>
             \A a \in Actors : actors'[a].current # NoInst \/ actors'[a].liveQueue = <<>>
  <2>1. /\ as \in [Actors -> Actor] /\ active \in Nat /\ Actors \in SUBSET Actors /\ cap' \in Nat
        /\ Pump(as, active, Actors, cap') /\ active = Cardinality(Busy(as))
    OBVIOUS
  <2> QED BY ONLY <2>1, PumpFits
<1>2. SlotsKept(actors', activeAsks', cap', run')
  BY <1>1 DEF SlotsKept, SlotsUsed
<1> QED BY <1>1, <1>2 DEF BoundKept

\* Nothing enters dispatch, and no ask is queued: the slots are as they were.
LEMMA SameBound ==
    ASSUME BoundInv,
           Running' => /\ Running /\ UNCHANGED activeAsks /\ cap' <= cap /\ run'.caps = cap' /\ cap' \in Nat
                       /\ \A a \in Actors : /\ actors'[a].current = actors[a].current
                                            /\ actors'[a].liveQueue = actors[a].liveQueue
    PROVE  BoundKept
<1>1. CASE ~Running'
  BY <1>1 DEF BoundKept
<1>2. CASE Running'
  <2>1. /\ activeAsks = Cardinality(Busy(actors)) /\ activeAsks \in Nat /\ cap \in Nat
        /\ SlotsUsed(actors, activeAsks, cap)
    BY <1>2, BoundFacts
  <2>2. Busy(actors') = Busy(actors)
    BY <1>2 DEF Busy
  <2>3. activeAsks' < cap' => activeAsks < cap
    BY <1>2, <2>1
  <2>4. SlotsUsed(actors', activeAsks', cap')
    BY <1>2, <2>1, <2>3 DEF SlotsUsed
  <2> QED BY <1>2, <2>1, <2>2, <2>4 DEF BoundKept, SlotsKept
<1> QED BY <1>1, <1>2

\* A settlement frees the slot of an ask that was in dispatch, and the queues are scanned.
LEMMA SettleBound ==
    ASSUME BoundInv, Running, NEW i \in Elements(live), NEW o, Settle(i, o), UNCHANGED <<run, cap>>
    PROVE  BoundKept
<1> DEFINE a      == rows[i].actor
           mine   == actors[a].current = i
           as     == [actors EXCEPT ![a].current = IF mine THEN NoInst ELSE @]
           active == IF mine THEN activeAsks - 1 ELSE activeAsks
<1>1. /\ actors \in [Actors -> Actor] /\ cap \in Nat /\ run.caps = cap
      /\ activeAsks = Cardinality(Busy(actors)) /\ activeAsks \in Nat
  BY BoundFacts
<1>2. a \in Actors /\ i \in Instances
  <2>1. TypeOK /\ LiveIsRunning
    BY DEF BoundInv, OrderInv, IInv
  <2>2. i \in Instances
    BY <2>1, ElementsOfSeq DEF TypeOK
  <2>3. rows[i] # NoRow
    BY <2>1 DEF LiveIsRunning
  <2>4. rows[i] \in Row
    BY <2>1, <2>2, <2>3 DEF TypeOK
  <2> QED BY <2>2, <2>4 DEF Row
<1>3. Pump(as, active, Actors, cap)
  BY DEF Settle
<1> HIDE DEF a
<1>4. CASE mine
  <2>1. as = [actors EXCEPT ![a] = [actors[a] EXCEPT !.current = NoInst]]
    BY <1>4
  <2>2. as \in [Actors -> Actor] /\ as[a].current = NoInst /\ \A c \in Actors \ {a} : as[c] = actors[c]
    BY <1>1, <1>2, <2>1, ZenonT(30) DEF Actor
  <2>3. Busy(as) = Busy(actors) \ {a} /\ a \in Busy(actors)
    BY <1>2, <1>4, <2>2, NoInstIsNone DEF Busy
  <2>4. IsFiniteSet(Busy(actors))
    BY ConstantsAssumption, FS_Subset DEF Busy
  <2>5. Cardinality(Busy(as)) = activeAsks - 1 /\ Cardinality(Busy(as)) \in Nat
    <3>1. IsFiniteSet(Busy(actors) \ {a}) /\ Cardinality(Busy(actors) \ {a}) = Cardinality(Busy(actors)) - 1
      BY <2>3, <2>4, FS_RemoveElement
    <3> QED BY <1>1, <2>3, <3>1, FS_CardinalityType
  <2>6. active = activeAsks - 1
    BY <1>4
  <2> HIDE DEF as, active, mine
  <2>7. Busy(as) \subseteq Busy(actors) /\ active \in Nat /\ active = Cardinality(Busy(as))
    BY <2>3, <2>5, <2>6
  <2>8. Pump(as, active, Actors, cap') /\ cap' \in Nat /\ run'.caps = cap'
    BY <1>1, <1>3
  <2> QED BY <2>2, <2>7, <2>8, PumpedBound
<1>5. CASE ~mine
  <2>1. as = actors
    BY <1>1, <1>2, <1>5 DEF Actor
  <2>2. active = activeAsks
    BY <1>5
  <2>3. Pump(actors, activeAsks, Actors, cap') /\ cap' \in Nat /\ run'.caps = cap'
    BY <1>1, <1>3, <2>1, <2>2
  <2> QED BY <1>1, <2>3, PumpedBound
<1> QED BY <1>4, <1>5

\* An admission lengthens one queue, and that queue is scanned.
LEMMA AdmitBound ==
    ASSUME BoundInv, Running, NEW a \in Actors, NEW R \in SUBSET Recorded,
           NEW L \in Seq(Instances \X Hashes), NEW box, NEW pumped \in SUBSET Actors,
           a \in pumped, Admit(a, R, L, box, pumped), UNCHANGED <<run, cap>>
    PROVE  BoundKept
<1> DEFINE as == AdmittedActors(a, R, L)
<1>1. /\ actors \in [Actors -> Actor] /\ cap \in Nat /\ run.caps = cap
      /\ activeAsks = Cardinality(Busy(actors)) /\ activeAsks \in Nat
      /\ SlotsUsed(actors, activeAsks, cap)
  BY BoundFacts
<1>2. Pump(as, activeAsks, pumped, cap)
  BY Zenon DEF Admit, Leaving, Behind, New, Left, SeqOf, Rerun, NewNames, RerunOrder, Batch,
               AdmittedActors, AdmittedActor
<1>3. New(a, R, L) \in Seq(Instances \X Hashes)
  BY EmptySeq DEF New
<1>4. IsFiniteSet(Leaving(a, R)) /\ Leaving(a, R) \subseteq Instances /\ Rerun(a, R) \subseteq Leaving(a, R)
  <2>1. Leaving(a, R) \in SUBSET Instances
    BY DEF Leaving, Recorded
  <2> QED BY <2>1, InstancesFinite, FS_Subset DEF Rerun
<1>5. Behind(a, R) \in Nat
  <2>1. actors[a].nextAdmitSeq \in Nat
    BY <1>1 DEF Actor
  <2> QED BY <1>4, <2>1, FS_CardinalityType DEF Behind
<1>6. Batch(a, R, L) \in Seq(Instances)
  <2>1. IsFiniteSet(Rerun(a, R))
    BY <1>4, FS_Subset
  <2>2. RerunOrder(a, R) \in Seq(Instances)
    <3>1. RerunOrder(a, R) \in Seq(Rerun(a, R))
      BY <2>1, SortedByType DEF RerunOrder
    <3>2. Rerun(a, R) \subseteq Instances
      BY <1>4
    <3> QED BY ONLY <3>1, <3>2
  <2>3. NewNames(a, R, L) \in Seq(Instances)
    <3> DEFINE new == New(a, R, L)
    <3>1. new \in Seq(Instances \X Hashes)
      BY <1>3
    <3> HIDE DEF new
    <3>2. Len(new) \in Nat /\ DOMAIN new = 1..Len(new) /\ \A n \in 1..Len(new) : new[n] \in Instances \X Hashes
      BY <3>1, LenProperties, ElementOfSeq
    <3>3. [n \in 1..Len(new) |-> new[n][1]] \in Seq(Instances)
      BY <3>2, IsASeq
    <3> QED BY <3>2, <3>3 DEF NewNames, new
  <2> QED BY <2>2, <2>3, ConcatProperties DEF Batch
<1>7. HandedOver(a, R, L, as)
  BY <1>1, <1>3, <1>5, <1>6, AdmittedSubagents
<1> HIDE DEF as
<1>8. /\ as \in [Actors -> Actor] /\ as[a].current = actors[a].current
      /\ \A c \in Actors \ {a} : as[c] = actors[c]
  BY <1>7 DEF HandedOver
<1>9. Busy(as) = Busy(actors)
  BY <1>8 DEF Busy
<1>10. /\ activeAsks' = Cardinality(Busy(actors')) /\ activeAsks' >= activeAsks
       /\ ~(Busy(actors') \subseteq Busy(as)) => Cardinality(Busy(actors')) <= cap
       /\ activeAsks' < cap =>
              \A c \in pumped : actors'[c].current # NoInst \/ actors'[c].liveQueue = <<>>
       /\ \A c \in Actors \ pumped : actors'[c] = as[c]
  <2>1. activeAsks = Cardinality(Busy(as))
    BY <1>1, <1>9
  <2> QED BY <1>1, <1>2, <1>8, <2>1, PumpFits, ZenonT(30)
<1>11. SlotsUsed(actors', activeAsks', cap)
  <2> SUFFICES ASSUME activeAsks' < cap, NEW c \in Actors
               PROVE  actors'[c].current # NoInst \/ actors'[c].liveQueue = <<>>
    BY DEF SlotsUsed
  <2>1. CASE c \in pumped
    BY <1>10, <2>1
  <2>2. CASE c \notin pumped
    <3>1. actors'[c] = actors[c]
      BY <1>8, <1>10, <2>2
    <3>2. activeAsks < cap
      <4>1. activeAsks \in Nat /\ activeAsks' \in Int /\ cap \in Nat /\ activeAsks' >= activeAsks
        <5>1. IsFiniteSet(Busy(actors'))
          BY ConstantsAssumption, FS_Subset DEF Busy
        <5> QED BY <1>1, <1>10, <5>1, FS_CardinalityType
      <4> QED BY <4>1
    <3> QED BY <1>1, <3>1, <3>2 DEF SlotsUsed
  <2> QED BY <2>1, <2>2
<1> QED BY <1>1, <1>9, <1>10, <1>11 DEF BoundKept, SlotsKept

\* A call of the script: an admission, or the end of the run.
LEMMA AskBound ==
    ASSUME BoundInv, Running, NEW b \in Branches, NEW n \in DOMAIN Prog[b],
           NEW o \in Outcomes \cup {"start"}, NEW box, Ask(b, n, o, box)
    PROVE  BoundKept
<1> DEFINE site == Prog[b][n][1]
           a    == Prog[b][n][2]
           i    == <<site, ordinals[site] + 1>>
           hash == <<b, n, o>>
           A    == actors[a]
<1>1. site \in Sites /\ a \in Actors /\ n \in Nat
  <2>1. Prog[b] \in Seq(Sites \X Actors)
    BY ConstantsAssumption
  <2>2. n \in 1..Len(Prog[b]) /\ Len(Prog[b]) \in Nat /\ Prog[b][n] \in Sites \X Actors
    BY <2>1, LenProperties, ElementOfSeq
  <2> QED BY <2>2
<1>2. \/ /\ Admit(a, A.pendingRecorded, Append(A.pendingLive, <<i, hash>>), box, Actors)
         /\ UNCHANGED <<run, cap>>
      \/ /\ rows[i] # NoRow
         /\ Admit(a, A.pendingRecorded \cup {i}, A.pendingLive, box, {a})
         /\ UNCHANGED <<run, cap>>
      \/ runSettled'
  BY DEF Ask, Finish
<1>3. i \in Instances /\ hash \in Hashes
  <2>1. ordinals[site] < MaxOrdinal /\ ordinals[site] \in 0..MaxOrdinal /\ MaxOrdinal \in Nat
    BY <1>1, ConstantsAssumption DEF Ask, BoundInv, OrderInv, IInv, TypeOK
  <2> QED BY <1>1, <2>1 DEF Instances, Hashes
<1>4. A.pendingRecorded \in SUBSET Recorded /\ A.pendingLive \in Seq(Instances \X Hashes)
  <2>1. TypeOK /\ RecordedCallsHaveRows
    BY DEF BoundInv, OrderInv, IInv
  <2> QED BY <1>1, <2>1 DEF RecordedCallsHaveRows, TypeOK, Actor
<1> HIDE DEF site, a, i, hash, A
<1>5. CASE Admit(a, A.pendingRecorded, Append(A.pendingLive, <<i, hash>>), box, Actors)
           /\ UNCHANGED <<run, cap>>
  <2>1. Append(A.pendingLive, <<i, hash>>) \in Seq(Instances \X Hashes)
    BY <1>3, <1>4, AppendProperties
  <2>2. Actors \in SUBSET Actors
    OBVIOUS
  <2> QED BY <1>1, <1>4, <1>5, <2>1, <2>2, AdmitBound
<1>6. CASE /\ rows[i] # NoRow
           /\ Admit(a, A.pendingRecorded \cup {i}, A.pendingLive, box, {a})
           /\ UNCHANGED <<run, cap>>
  <2>1. A.pendingRecorded \cup {i} \in SUBSET Recorded /\ {a} \in SUBSET Actors /\ a \in {a}
    BY <1>1, <1>3, <1>4, <1>6 DEF Recorded
  <2> QED BY <1>1, <1>4, <1>6, <2>1, AdmitBound
<1>7. CASE runSettled'
  BY <1>7 DEF BoundKept, Running
<1> QED BY <1>2, <1>5, <1>6, <1>7

\* The script's steps.
LEMMA ScriptBound == ASSUME BoundInv, Script PROVE BoundKept
<1>1. ASSUME UNCHANGED <<up, runSettled, actors, activeAsks, cap, run>> PROVE BoundKept
  <2>1. Running' => /\ Running /\ UNCHANGED activeAsks /\ cap' <= cap /\ run'.caps = cap' /\ cap' \in Nat
                    /\ \A a \in Actors : /\ actors'[a].current = actors[a].current
                                         /\ actors'[a].liveQueue = actors[a].liveQueue
    BY <1>1, BoundFacts DEF Running
  <2> QED BY <2>1, SameBound
<1>2. ASSUME NEW b \in Branches, StartBranch(b) PROVE BoundKept
  <2>1. Running /\ Ask(b, 1, "start", inbox)
    BY <1>2 DEF StartBranch
  <2>2. 1 \in DOMAIN Prog[b]
    <3>1. Prog[b] \in Seq(Sites \X Actors) /\ Prog[b] # <<>>
      BY ConstantsAssumption
    <3>2. Len(Prog[b]) \in Nat /\ Len(Prog[b]) # 0 /\ DOMAIN Prog[b] = 1..Len(Prog[b])
      BY <3>1, LenProperties, EmptySeq
    <3> QED BY <3>2
  <2> QED BY <2>1, <2>2, AskBound
<1>3. ASSUME NEW b \in Branches, Continue(b) PROVE BoundKept
  <2> DEFINE o    == Head(inbox)[2]
             rest == Tail(inbox)
  <2>1. Running /\ o \in Outcomes
    <3>1. inbox # <<>> /\ inbox \in Seq(Instances \X Outcomes) /\ Running
      BY <1>3 DEF Continue, BoundInv, OrderInv, IInv, TypeOK
    <3>2. Head(inbox) \in Instances \X Outcomes
      BY <3>1, HeadTailProperties
    <3> QED BY <3>1, <3>2
  <2>2. \/ pc[b] < Len(Prog[b]) /\ pc[b] > 0 /\ Ask(b, pc[b] + 1, o, rest)
        \/ UNCHANGED <<up, runSettled, actors, activeAsks, cap, run>>
        \/ runSettled'
    BY <1>3 DEF Continue, journalVars, askVars, Finish
  <2> HIDE DEF o, rest
  <2>3. CASE pc[b] < Len(Prog[b]) /\ pc[b] > 0 /\ Ask(b, pc[b] + 1, o, rest)
    <3>1. Prog[b] \in Seq(Sites \X Actors) /\ pc[b] \in Nat
      BY ConstantsAssumption DEF BoundInv, OrderInv, IInv, TypeOK
    <3>2. pc[b] + 1 \in DOMAIN Prog[b]
      BY <2>3, <3>1, LenProperties
    <3> QED BY <2>1, <2>3, <3>2, AskBound
  <2>4. CASE runSettled'
    BY <2>4 DEF BoundKept, Running
  <2> QED BY <1>1, <2>2, <2>3, <2>4
<1>4. CASE ScriptReturns
  BY <1>4 DEF ScriptReturns, Finish, BoundKept, Running
<1>5. CASE FlushReplay
  BY <1>1, <1>5 DEF FlushReplay, askVars
<1> QED BY <1>2, <1>3, <1>4, <1>5 DEF Script

\* The driver's steps.
LEMMA DriverBound == ASSUME BoundInv, Driver PROVE BoundKept
<1>1. ASSUME UNCHANGED <<up, runSettled, activeAsks, cap, run>>,
             \A a \in Actors : /\ actors'[a].current = actors[a].current
                               /\ actors'[a].liveQueue = actors[a].liveQueue
      PROVE  BoundKept
  <2>1. Running' => /\ Running /\ UNCHANGED activeAsks /\ cap' <= cap /\ run'.caps = cap' /\ cap' \in Nat
                    /\ \A a \in Actors : /\ actors'[a].current = actors[a].current
                                         /\ actors'[a].liveQueue = actors[a].liveQueue
    BY <1>1, BoundFacts DEF Running
  <2> QED BY <2>1, SameBound
<1>2. ASSUME NEW a \in Actors, NEW s \in {"ready", "broken"}, SessionCreated(a, s)
      PROVE  BoundKept
  <2>1. /\ actors' = [actors EXCEPT ![a].session = s]
        /\ UNCHANGED <<up, runSettled, activeAsks, cap, run>>
    BY <1>2 DEF SessionCreated, journalVars
  <2>2. actors \in [Actors -> Actor]
    BY DEF BoundInv, OrderInv, IInv, TypeOK
  <2>3. \A c \in Actors : /\ actors'[c].current = actors[c].current
                          /\ actors'[c].liveQueue = actors[c].liveQueue
    BY <2>1, <2>2 DEF Actor
  <2> QED BY <1>1, <2>1, <2>3
<1>3. ASSUME NEW a \in Actors, Dispatch(a) PROVE BoundKept
  BY <1>1, <1>3 DEF Dispatch, journalVars
<1>4. ASSUME NEW a \in Actors, DispatchFails(a) PROVE BoundKept
  <2>1. /\ Running /\ actors[a].current \in Elements(live)
        /\ Settle(actors[a].current, "failed") /\ UNCHANGED <<run, cap>>
    BY <1>4 DEF DispatchFails, Dispatching
  <2> QED BY <2>1, SettleBound
<1>5. ASSUME NEW i \in started, Reported(i), EngineUnchanged,
             \/ Settle(i, "ok") \/ Settle(i, "failed")
             \/ UNCHANGED <<rows, events, actors, live, activeAsks, inbox, turns>>
      PROVE  BoundKept
  <2>1. i \in Elements(live) /\ UNCHANGED <<up, runSettled, run, cap>>
    BY <1>5 DEF Reported, EngineUnchanged
  <2>2. CASE Settle(i, "ok") \/ Settle(i, "failed")
    <3>1. Running
      BY <2>1, StartedPlace DEF BoundInv
    <3> QED BY <2>1, <2>2, <3>1, SettleBound
  <2>3. CASE UNCHANGED <<rows, events, actors, live, activeAsks, inbox, turns>>
    BY <1>1, <2>1, <2>3
  <2> QED BY <1>5, <2>2, <2>3
<1>6. ASSUME NEW i \in started,
             SubmitAccepted(i) \/ SubmitRejected(i) \/ TurnEnded(i) \/ AskFailed(i)
      PROVE  BoundKept
  BY <1>5, <1>6 DEF SubmitAccepted, SubmitRejected, TurnEnded, AskFailed
<1> QED BY <1>2, <1>3, <1>4, <1>6 DEF Driver

\* The host's steps: a raise scans the queues, a lower bound recalls nothing, and a new
\* life starts with the bound of the run's row and nothing in dispatch.
LEMMA HostBound == ASSUME BoundInv, Host PROVE BoundKept
<1>1. ASSUME NEW r \in StopReasons, Stop(r) PROVE BoundKept
  BY <1>1 DEF Stop, Finish, BoundKept, Running
<1>2. ASSUME NEW n \in CapChoices, SetMaxConcurrency(n) PROVE BoundKept
  <2>1. /\ Running /\ cap' = n /\ run' = [run EXCEPT !.caps = n] /\ Rescan(n)
        /\ UNCHANGED <<up, runSettled>> /\ n \in Nat
    BY <1>2, ConstantsAssumption DEF SetMaxConcurrency
  <2>2. run'.caps = n
    <3>1. TypeOK
      BY DEF BoundInv, OrderInv, IInv
    <3> QED BY <2>1, <3>1 DEF TypeOK
  <2>3. /\ actors \in [Actors -> Actor] /\ cap \in Nat
        /\ activeAsks = Cardinality(Busy(actors)) /\ activeAsks \in Nat
    BY <2>1, BoundFacts
  <2>4. CASE n > cap
    <3>1. Pump(actors, activeAsks, Actors, cap') /\ Busy(actors) \subseteq Busy(actors)
      BY <2>1, <2>4 DEF Rescan
    <3> QED BY <2>1, <2>2, <2>3, <3>1, PumpedBound
  <2>5. CASE ~(n > cap)
    <3>1. UNCHANGED <<actors, activeAsks>> /\ cap' <= cap
      BY <2>1, <2>3, <2>5 DEF Rescan
    <3> QED BY <2>1, <2>2, <3>1, SameBound
  <2> QED BY <2>4, <2>5
<1>3. ASSUME up' = FALSE PROVE BoundKept
  BY <1>3 DEF BoundKept, Running
<1>4. CASE Resume
  <2>1. /\ actors' = BlankActors(RecordedAsks) /\ activeAsks' = 0
        /\ cap' = run.caps /\ run'.caps = run.caps
    <3>1. TypeOK
      BY DEF BoundInv, OrderInv, IInv
    <3> QED BY <1>4, <3>1 DEF Resume, BlankLife, RestoredCap, TypeOK
  <2>2. Busy(actors') = {} /\ \A a \in Actors : actors'[a].liveQueue = <<>>
    BY <2>1 DEF Busy, BlankActors
  <2>3. Cardinality(Busy(actors')) = 0
    BY <2>2, FS_EmptySet
  <2>4. ~(~(Busy(actors') \subseteq Busy(actors)))
    BY <2>2
  <2> QED BY <2>1, <2>2, <2>3, <2>4 DEF BoundKept, SlotsKept, SlotsUsed
<1>5. CASE Reconcile
  BY <1>5 DEF Reconcile, BoundKept, Running
<1>6. CASE Crash \/ \E i \in started : \E o \in {"ok", "failed"} : CrashInSettle(i, o)
  BY <1>3, <1>6 DEF Crash, CrashInSettle
<1> QED BY <1>1, <1>2, <1>4, <1>5, <1>6 DEF Host

\* Every step keeps it.
LEMMA BoundStep == ASSUME BoundInv, [Next]_vars PROVE BoundInv' /\ BoundKept
<1>1. OrderInv'
  BY OrderStep DEF BoundInv
<1>2. ASSUME UNCHANGED vars PROVE BoundKept
  <2>1. Running' => /\ Running /\ UNCHANGED activeAsks /\ cap' <= cap /\ run'.caps = cap' /\ cap' \in Nat
                    /\ \A a \in Actors : /\ actors'[a].current = actors[a].current
                                         /\ actors'[a].liveQueue = actors[a].liveQueue
    <3>1. /\ Running' <=> Running
          /\ UNCHANGED <<activeAsks, cap, run, actors>>
      BY <1>2 DEF vars, Running
    <3>2. Running => cap \in Nat /\ cap <= cap /\ run.caps = cap
      BY BoundFacts
    <3> QED BY ONLY <3>1, <3>2
  <2> QED BY <2>1, SameBound
<1>3. BoundKept
  BY <1>2, ScriptBound, DriverBound, HostBound DEF Next, Over
<1> QED BY <1>1, <1>3 DEF BoundKept, BoundInv

\* The first life starts with free slots and nothing to fill them.
LEMMA InitBound == Init => BoundInv
<1> SUFFICES ASSUME Init PROVE SlotsKept(actors, activeAsks, cap, run)
  BY InitOrder DEF BoundInv
<1>1. /\ actors = BlankActors(NothingRecorded) /\ activeAsks = 0 /\ run.caps = InitialCap
      /\ cap = InitialCap
  BY DEF Init
<1>2. Busy(actors) = {} /\ \A a \in Actors : actors[a].liveQueue = <<>>
  BY <1>1 DEF Busy, BlankActors
<1> QED BY <1>1, <1>2, FS_EmptySet DEF SlotsKept, SlotsUsed

\* The bound is used and kept (scheduler.ts, pump and pumpActor; engine.ts,
\* setMaxConcurrency), through crashes, resumes and retunes: no subagent with an ask to
\* dispatch is left idle beside a free slot, and an ask enters dispatch only while those in
\* dispatch stay within the bound of the run's row.
THEOREM TheBoundIsFollowed == Spec => BoundIsFollowed
<1>1. BoundInv /\ [Next]_vars => BoundInv'
  BY BoundStep
<1>2. BoundInv /\ [Next]_vars =>
          [/\ NoneIdles'
           /\ Running /\ Running' /\ ~(InDispatch' \subseteq InDispatch)
                 => Cardinality(InDispatch') <= run'.caps]_vars
  <2> SUFFICES ASSUME BoundInv, [Next]_vars
               PROVE  /\ NoneIdles'
                      /\ Running /\ Running' /\ ~(InDispatch' \subseteq InDispatch)
                            => Cardinality(InDispatch') <= run'.caps
    OBVIOUS
  <2>1. BoundInv' /\ BoundKept
    BY BoundStep
  <2>2. InDispatch = Busy(actors) /\ InDispatch' = Busy(actors')
    BY DEF InDispatch, Busy
  <2>3. NoneIdles'
    BY <2>1 DEF BoundInv, SlotsKept, SlotsUsed, NoneIdles
  <2> QED BY <2>1, <2>2, <2>3 DEF BoundKept
<1> QED BY InitBound, <1>1, <1>2, PTL DEF Spec, BoundIsFollowed
================================================================================
