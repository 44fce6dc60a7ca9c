----------------------------- MODULE EngineOrderProofs -----------------------------
(***************************************************************************)
(* The hold rule of the workflow engine, proved for every script: whatever *)
(* crashes, stops, retunes and resumes lie between two asks of a subagent, *)
(* the one journalled first is settled before the other one is put to the  *)
(* model.                                                                  *)
(***************************************************************************)
EXTENDS WorkflowEngineProofs

--------------------------------------------------------------------------------
(* The inductive invariant. *)

\* The rows of a table rw, and those of one subagent.
Rows(rw)      == {i \in Instances : rw[i] # NoRow}
RowsOf(rw, a) == {i \in Rows(rw) : rw[i].actor = a}

\* What subagent a has in dispatch or queued for it.
Admitted(as, a) == Elements(as[a].liveQueue) \cup ({as[a].current} \ {NoInst})

\* What a call asks tells which subagent it is for: a hash names the place of the call.
AskedOf(hash, a) == hash[2] \in DOMAIN Prog[hash[1]] /\ a = Prog[hash[1]][hash[2]][2]

\* The journal numbers the asks of a subagent 0, 1, 2, ... without a gap, and knows
\* them by the place of the script that made them.
NumbersDiffer(rw) ==
    \A i, j \in Rows(rw) : rw[i].actor = rw[j].actor /\ rw[i].actorSeq = rw[j].actorSeq => i = j
NumbersAreDense(rw) ==
    \A i \in Rows(rw) : rw[i].actorSeq < Cardinality(RowsOf(rw, rw[i].actor))
RowsNameTheirActor(rw) == \A i \in Rows(rw) : AskedOf(rw[i].hash, rw[i].actor)

Numbered(rw) == NumbersDiffer(rw) /\ NumbersAreDense(rw) /\ RowsNameTheirActor(rw)

\* The next number of a subagent is the number of its rows, as soon as this life has
\* admitted the rows it found.
CountsAgree(rw, as) ==
    \A a \in Actors :
        Cardinality(RowsOf(rw, a)) = IF as[a].nextAdmitSeq < as[a].recordedCount
                                     THEN as[a].recordedCount ELSE as[a].nextAdmitSeq

\* The calls that wait for their admission: each for its subagent, each new one once.
CallsOf(rw, a, R, L) ==
    /\ \A i \in R : rw[i].actor = a
    /\ \A n \in DOMAIN L : AskedOf(L[n][2], a)
    /\ \A m, n \in DOMAIN L : L[m][1] = L[n][1] => m = n
WaitingIsSound(rw, as) ==
    \A a \in Actors : CallsOf(rw, a, as[a].pendingRecorded, as[a].pendingLive)

\* A subagent's queue is in the order of the journal, behind the ask in dispatch.
Increasing(rw, q) == \A m, n \in DOMAIN q : m < n => rw[q[m]].actorSeq < rw[q[n]].actorSeq
InOrder(rw, as, a) ==
    /\ Increasing(rw, as[a].liveQueue)
    /\ as[a].current # NoInst =>
           \A n \in DOMAIN as[a].liveQueue :
               rw[as[a].current].actorSeq < rw[as[a].liveQueue[n]].actorSeq
QueuesInOrder(rw, as) == \A a \in Actors : InOrder(rw, as, a)

\* What is in dispatch or queued is live, a row of that subagent, and numbered.
IsMine(rw, as, lv, a, i) ==
    /\ i \in Elements(lv)
    /\ i \in RowsOf(rw, a) /\ rw[i].actorSeq < as[a].nextAdmitSeq
AdmittedAreLive(rw, as, lv) == \A a \in Actors : \A i \in Admitted(as, a) : IsMine(rw, as, lv, a, i)

\* Of the rows this life has reached, those without an answer are in dispatch or queued.
Reached(rw, as, a) == {i \in RowsOf(rw, a) : rw[i].actorSeq < as[a].nextAdmitSeq}
ReachedArePlaced(rw, as) ==
    \A a \in Actors : \A i \in Reached(rw, as, a) : rw[i].status = "running" => i \in Admitted(as, a)

\* What was put to the model and still has no answer is the ask in dispatch.
StartedAreCurrent(rw, as, lv, st) ==
    \A i \in st : \E a \in Actors :
        i \in Reached(rw, as, a) /\ (i \in Elements(lv) => as[a].current = i)

Placed(rw, as, lv, st) ==
    /\ CountsAgree(rw, as) /\ WaitingIsSound(rw, as) /\ QueuesInOrder(rw, as)
    /\ AdmittedAreLive(rw, as, lv) /\ ReachedArePlaced(rw, as) /\ StartedAreCurrent(rw, as, lv, st)

TurnsAreStarted == turns \subseteq started /\ turns \subseteq Elements(live)

\* Outside a life nothing is in flight.
AtRest == live = <<>> /\ turns = {}

OrderInv ==
    /\ IInv
    /\ Numbered(rows) /\ TranscriptOrder
    /\ Running => Placed(rows, actors, live, started) /\ TurnsAreStarted
    /\ ~Running => AtRest

--------------------------------------------------------------------------------
(* Facts about the operators. *)

\* An ask is told from the absence of one.
LEMMA NoInstIsNone == \A i \in Instances : i # NoInst
<1> SUFFICES ASSUME NEW i \in Instances, i = NoInst PROVE FALSE
  OBVIOUS
<1>1. PICK s \in Sites, n \in 1..MaxOrdinal : i = <<s, n>>
  BY DEF Instances
<1>2. <<s, n>> # <<>>
  OBVIOUS
<1> QED BY <1>1, <1>2 DEF NoInst

\* The elements of two queues, one behind the other.
LEMMA ElementsOfConcat ==
    ASSUME NEW S, NEW s \in Seq(S), NEW t \in Seq(S)
    PROVE  Elements(s \o t) = Elements(s) \cup Elements(t)
<1>1. /\ Len(s) \in Nat /\ Len(t) \in Nat
      /\ DOMAIN s = 1..Len(s) /\ DOMAIN t = 1..Len(t)
      /\ DOMAIN (s \o t) = 1..(Len(s) + Len(t))
  BY LenProperties, ConcatProperties
<1>2. \A n \in 1..(Len(s) + Len(t)) : (s \o t)[n] = IF n <= Len(s) THEN s[n] ELSE t[n - Len(s)]
  BY ConcatProperties
<1>3. ASSUME NEW n \in DOMAIN s PROVE s[n] \in Elements(s \o t)
  <2>1. n \in DOMAIN (s \o t) /\ (s \o t)[n] = s[n]
    BY <1>1, <1>2
  <2> QED BY <2>1 DEF Elements
<1>4. ASSUME NEW n \in DOMAIN t PROVE t[n] \in Elements(s \o t)
  <2>1. /\ n + Len(s) \in DOMAIN (s \o t) /\ ~(n + Len(s) <= Len(s))
        /\ (n + Len(s)) - Len(s) = n
    BY <1>1
  <2>2. (s \o t)[n + Len(s)] = t[n]
    BY <1>1, <1>2, <2>1
  <2> QED BY <2>1, <2>2 DEF Elements
<1>5. Elements(s) \subseteq Elements(s \o t) /\ Elements(t) \subseteq Elements(s \o t)
  BY <1>3, <1>4 DEF Elements
<1> QED BY <1>5, ElementsConcat

\* Removing an ask from liveNodes removes no other ask.
LEMMA WithoutElements ==
    ASSUME NEW S, NEW s \in Seq(S), NEW x
    PROVE  Elements(Without(s, x)) = Elements(s) \ {x}
<1> DEFINE kept == {n \in DOMAIN s : s[n] # x}
           same == [n \in kept |-> n]
           at   == SortedBy(kept, same)
<1>1. DOMAIN s = 1..Len(s) /\ Len(s) \in Nat
  BY LenProperties
<1>2. IsFiniteSet(kept) /\ kept \subseteq Int
  <2>1. IsFiniteSet(1..Len(s))
    BY <1>1, FS_Interval
  <2> QED BY <1>1, <2>1, FS_Subset
<1>3. \A n \in kept : same[n] = n
  OBVIOUS
<1>4. \A n \in kept : \E m \in DOMAIN at : at[m] = n
  <2> HIDE DEF kept, same
  <2>1. /\ \A i \in kept : same[i] \in Int
        /\ \A i, j \in kept : same[i] = same[j] => i = j
    BY <1>2, <1>3
  <2>2. Lists(SortedBy(kept, same), kept, same)
    BY <1>2, <2>1, SortedByRank
  <2> QED BY <2>2 DEF Lists
<1> HIDE DEF at
<1>5. Without(s, x) = [n \in DOMAIN at |-> s[at[n]]]
  BY DEF Without, at
<1>6. ASSUME NEW e \in Elements(s), e # x
      PROVE  e \in Elements(Without(s, x))
  <2>1. PICK n \in DOMAIN s : s[n] = e
    BY DEF Elements
  <2>2. n \in kept
    BY <1>6, <2>1
  <2>3. PICK m \in DOMAIN at : at[m] = n
    BY <1>4, <2>2
  <2>4. m \in DOMAIN Without(s, x) /\ Without(s, x)[m] = e
    BY <1>5, <2>1, <2>3
  <2> QED BY <2>4 DEF Elements
<1> QED BY <1>6, WithoutType

\* A step that starts from the subagents as leaves subagent a what it has admitted, in
\* the order it has, and the ask in dispatch if there is one.
SamePlaces(as, a) ==
    /\ Admitted(actors', a) = Admitted(as, a)
    /\ as[a].current # NoInst => actors'[a].current = as[a].current
    /\ actors'[a].nextAdmitSeq = as[a].nextAdmitSeq
    /\ actors'[a].recordedCount = as[a].recordedCount
    /\ actors'[a].pendingLive = as[a].pendingLive
    /\ actors'[a].pendingRecorded = as[a].pendingRecorded
    /\ \A rw : InOrder(rw, as, a) => InOrder(rw, actors', a)

\* Pumping takes the head of a queue into dispatch where nothing is in dispatch: a
\* subagent keeps what it has admitted, in the order it has.
LEMMA PumpPlaces ==
    ASSUME NEW as \in [Actors -> Actor], NEW active, NEW A \in SUBSET Actors, NEW bound,
           Pump(as, active, A, bound), NEW a \in Actors
    PROVE  SamePlaces(as, a)
<1> DEFINE chosen == Dispatchable(as, active, A, bound)
           q      == as[a].liveQueue
<1>1. as[a] \in Actor /\ q \in Seq(Instances)
  BY DEF Actor
<1>2. actors'[a] = IF a \in chosen
                   THEN [as[a] EXCEPT !.current = Head(q), !.liveQueue = Tail(q)]
                   ELSE as[a]
  BY DEF Pump
<1>3. a \in chosen => as[a].current = NoInst /\ q # <<>>
  BY DEF Dispatchable
<1> HIDE DEF chosen
<1>4. CASE a \notin chosen
  <2>1. actors'[a] = as[a]
    BY <1>2, <1>4
  <2> QED BY <2>1 DEF SamePlaces, Admitted, InOrder
<1>5. CASE a \in chosen
  <2>1. /\ actors'[a].current = Head(q) /\ actors'[a].liveQueue = Tail(q)
        /\ actors'[a].nextAdmitSeq = as[a].nextAdmitSeq
        /\ actors'[a].recordedCount = as[a].recordedCount
        /\ actors'[a].pendingLive = as[a].pendingLive
        /\ actors'[a].pendingRecorded = as[a].pendingRecorded
    BY <1>1, <1>2, <1>5 DEF Actor
  <2>2. /\ Len(q) \in Nat /\ DOMAIN q = 1..Len(q) /\ Len(q) >= 1
        /\ Head(q) = q[1] /\ Head(q) \in Instances
        /\ Tail(q) \in Seq(Instances) /\ Len(Tail(q)) = Len(q) - 1
        /\ \A n \in 1..Len(Tail(q)) : Tail(q)[n] = q[n + 1]
    <3>1. Len(q) \in Nat /\ DOMAIN q = 1..Len(q)
      BY <1>1, LenProperties
    <3>2. Len(q) # 0
      BY <1>1, <1>3, <1>5, EmptySeq
    <3>3. q # <<>>
      BY <1>3, <1>5
    <3> HIDE DEF q
    <3>4. /\ Head(q) \in Instances /\ Tail(q) \in Seq(Instances)
          /\ Len(Tail(q)) = Len(q) - 1
          /\ \A n \in 1..Len(Tail(q)) : Tail(q)[n] = q[n + 1]
      BY <1>1, <3>3, HeadTailProperties
    <3>5. Head(q) = q[1]
      BY <1>1
    <3> QED BY <3>1, <3>2, <3>4, <3>5
  <2>3. DOMAIN Tail(q) = 1..Len(Tail(q))
    BY <2>2, LenProperties
  <2> HIDE DEF q
  <2>4. Elements(q) = Elements(Tail(q)) \cup {Head(q)}
    <3>1. \A n \in 1..Len(q) : n = 1 \/ n - 1 \in 1..Len(Tail(q))
      BY <2>2
    <3>2. \A n \in 1..Len(q) : q[n] = Head(q) \/ q[n] \in Elements(Tail(q))
      <4> TAKE n \in 1..Len(q)
      <4>1. CASE n = 1
        BY <2>2, <4>1
      <4>2. CASE n # 1
        <5>1. n - 1 \in 1..Len(Tail(q)) /\ (n - 1) + 1 = n
          BY <2>2, <4>2
        <5>2. Tail(q)[n - 1] = q[n]
          BY <2>2, <5>1
        <5> QED BY <2>3, <5>1, <5>2 DEF Elements
      <4> QED BY <4>1, <4>2
    <3>3. \A n \in 1..Len(Tail(q)) : Tail(q)[n] \in Elements(q)
      <4> TAKE n \in 1..Len(Tail(q))
      <4>1. n + 1 \in DOMAIN q /\ Tail(q)[n] = q[n + 1]
        BY <2>2
      <4> QED BY <4>1 DEF Elements
    <3>4. Head(q) \in Elements(q)
      BY <2>2 DEF Elements
    <3> QED BY <2>2, <2>3, <3>2, <3>3, <3>4, SMTT(20) DEF Elements
  <2>5. Admitted(actors', a) = Admitted(as, a)
    BY <1>3, <1>5, <2>1, <2>2, <2>4, NoInstIsNone DEF Admitted, q
  <2>6. ASSUME NEW rw, InOrder(rw, as, a) PROVE InOrder(rw, actors', a)
    <3>1. \A m, n \in 1..Len(q) : m < n => rw[q[m]].actorSeq < rw[q[n]].actorSeq
      BY <2>2, <2>6 DEF InOrder, Increasing, q
    <3>2. \A m, n \in 1..Len(Tail(q)) :
              m < n => rw[Tail(q)[m]].actorSeq < rw[Tail(q)[n]].actorSeq
      <4> TAKE m, n \in 1..Len(Tail(q))
      <4> HAVE m < n
      <4>1. m + 1 \in 1..Len(q) /\ n + 1 \in 1..Len(q) /\ m + 1 < n + 1
        BY <2>2
      <4>2. Tail(q)[m] = q[m + 1] /\ Tail(q)[n] = q[n + 1]
        BY <2>2
      <4>3. rw[q[m + 1]].actorSeq < rw[q[n + 1]].actorSeq
        BY <3>1, <4>1
      <4> QED BY <4>2, <4>3
    <3>3. \A n \in 1..Len(Tail(q)) : rw[Head(q)].actorSeq < rw[Tail(q)[n]].actorSeq
      <4> TAKE n \in 1..Len(Tail(q))
      <4>1. 1 \in 1..Len(q) /\ n + 1 \in 1..Len(q) /\ 1 < n + 1
        BY <2>2
      <4>2. Tail(q)[n] = q[n + 1]
        BY <2>2
      <4>3. rw[q[1]].actorSeq < rw[q[n + 1]].actorSeq
        BY <3>1, <4>1
      <4> QED BY <2>2, <4>2, <4>3
    <3> QED BY <2>1, <2>3, <3>2, <3>3 DEF InOrder, Increasing
  <2> QED BY <1>3, <1>5, <2>1, <2>5, <2>6 DEF q, SamePlaces
<1> QED BY <1>4, <1>5

\* What holds of the subagents before a pump holds of them after it.
LEMMA PlacesKept ==
    ASSUME NEW rw, NEW as, NEW lv, NEW st \in SUBSET Instances,
           Placed(rw, as, lv, st), \A a \in Actors : SamePlaces(as, a)
    PROVE  Placed(rw, actors', lv, st)
<1>1. CountsAgree(rw, actors') /\ WaitingIsSound(rw, actors')
  BY DEF Placed, CountsAgree, WaitingIsSound, SamePlaces
<1>2. QueuesInOrder(rw, actors')
  BY DEF Placed, QueuesInOrder, SamePlaces
<1>3. \A a \in Actors : Reached(rw, actors', a) = Reached(rw, as, a)
  BY DEF Reached, SamePlaces
<1>4. AdmittedAreLive(rw, actors', lv)
  BY DEF Placed, AdmittedAreLive, IsMine, SamePlaces
<1>5. ReachedArePlaced(rw, actors')
  BY <1>3 DEF Placed, ReachedArePlaced, SamePlaces
<1>6. StartedAreCurrent(rw, actors', lv, st)
  BY <1>3, NoInstIsNone, ZenonT(30) DEF Placed, StartedAreCurrent, SamePlaces
<1> QED BY <1>1, <1>2, <1>4, <1>5, <1>6 DEF Placed

\* One queue behind another is in order when a number separates them.
LEMMA IncreasingConcat ==
    ASSUME NEW rw, NEW k \in Int, NEW S, NEW s \in Seq(S), NEW t \in Seq(S),
           \A i \in S : rw[i].actorSeq \in Int,
           Increasing(rw, s), Increasing(rw, t),
           \A n \in DOMAIN s : rw[s[n]].actorSeq < k,
           \A n \in DOMAIN t : k <= rw[t[n]].actorSeq
    PROVE  Increasing(rw, s \o t)
<1>1. /\ Len(s) \in Nat /\ Len(t) \in Nat
      /\ DOMAIN s = 1..Len(s) /\ DOMAIN t = 1..Len(t)
      /\ DOMAIN (s \o t) = 1..(Len(s) + Len(t))
  BY LenProperties, ConcatProperties
<1>2. \A n \in 1..(Len(s) + Len(t)) : (s \o t)[n] = IF n <= Len(s) THEN s[n] ELSE t[n - Len(s)]
  BY ConcatProperties
<1>3. SUFFICES ASSUME NEW m \in 1..(Len(s) + Len(t)), NEW n \in 1..(Len(s) + Len(t)), m < n
               PROVE  rw[(s \o t)[m]].actorSeq < rw[(s \o t)[n]].actorSeq
  BY <1>1 DEF Increasing
<1>4. CASE n <= Len(s)
  <2>1. m \in DOMAIN s /\ n \in DOMAIN s /\ (s \o t)[m] = s[m] /\ (s \o t)[n] = s[n]
    BY <1>1, <1>2, <1>3, <1>4
  <2> QED BY <1>3, <2>1 DEF Increasing
<1>5. CASE ~(m <= Len(s))
  <2>1. /\ m - Len(s) \in DOMAIN t /\ n - Len(s) \in DOMAIN t /\ m - Len(s) < n - Len(s)
        /\ (s \o t)[m] = t[m - Len(s)] /\ (s \o t)[n] = t[n - Len(s)]
    BY <1>1, <1>2, <1>3, <1>5
  <2> QED BY <2>1 DEF Increasing
<1>6. CASE m <= Len(s) /\ ~(n <= Len(s))
  <2>1. /\ m \in DOMAIN s /\ n - Len(s) \in DOMAIN t
        /\ (s \o t)[m] = s[m] /\ (s \o t)[n] = t[n - Len(s)]
    BY <1>1, <1>2, <1>3, <1>6
  <2>2. s[m] \in S /\ t[n - Len(s)] \in S
    BY <1>1, <2>1, ElementOfSeq
  <2>3. rw[s[m]].actorSeq < k /\ k <= rw[t[n - Len(s)]].actorSeq
    BY <2>1
  <2>4. rw[s[m]].actorSeq \in Int /\ rw[t[n - Len(s)]].actorSeq \in Int
    BY <2>2
  <2> QED BY <2>1, <2>3, <2>4
<1> QED BY <1>1, <1>4, <1>5, <1>6
--------------------------------------------------------------------------------
(* The journal's numbers. *)

\* Two tables with the same asks, differing in their statuses only.
SameAsks(rw, rx) ==
    /\ Rows(rx) = Rows(rw)
    /\ \A i \in Rows(rw) : /\ rx[i].actor = rw[i].actor /\ rx[i].actorSeq = rw[i].actorSeq
                           /\ rx[i].hash = rw[i].hash

\* A settlement changes neither the numbers of a subagent's rows nor how many there are.
LEMMA NumbersKept ==
    ASSUME NEW rw, NEW rx, SameAsks(rw, rx)
    PROVE  /\ \A a \in Actors : RowsOf(rx, a) = RowsOf(rw, a)
           /\ Numbered(rw) => Numbered(rx)
<1>1. \A a : RowsOf(rx, a) = RowsOf(rw, a)
  BY DEF SameAsks, RowsOf
<1>2. NumbersDiffer(rw) => NumbersDiffer(rx)
  BY DEF NumbersDiffer, SameAsks
<1>3. NumbersAreDense(rw) => NumbersAreDense(rx)
  BY <1>1 DEF NumbersAreDense, SameAsks
<1>4. RowsNameTheirActor(rw) => RowsNameTheirActor(rx)
  BY DEF RowsNameTheirActor, SameAsks
<1> QED BY <1>1, <1>2, <1>3, <1>4 DEF Numbered

\* The rows and their types, as the arguments below use them.
LEMMA RowFacts ==
    ASSUME TypeOK
    PROVE  /\ Rows(rows) = Recorded
           /\ \A i \in Recorded : /\ i \in Instances /\ rows[i] \in Row
                                  /\ rows[i].actor \in Actors /\ rows[i].actorSeq \in Nat
                                  /\ rows[i].status \in {"running", "completed", "failed"}
                                  /\ i \in RowsOf(rows, rows[i].actor)
           /\ \A i \in Recorded : i \in Terminal <=> rows[i].status # "running"
<1>1. Rows(rows) = Recorded
  BY DEF Rows, Recorded
<1>2. \A i \in Recorded : i \in Instances /\ rows[i] \in Row
  BY DEF Recorded, TypeOK
<1> QED BY <1>1, <1>2 DEF Row, RowsOf, Terminal

\* A step that leaves the rows alone and starts no turn keeps the journal in order.
LEMMA JournalKept ==
    ASSUME Numbered(rows), TranscriptOrder, UNCHANGED rows, turns' \subseteq turns
    PROVE  Numbered(rows)' /\ TranscriptOrder'
<1>1. Recorded' = Recorded /\ Terminal' = Terminal
  BY DEF Recorded, Terminal
<1> QED BY <1>1 DEF TranscriptOrder

\* The ask in dispatch is the earliest one of its subagent that has no answer.
LEMMA CurrentIsNext ==
    ASSUME OrderInv, Running, NEW a \in Actors, NEW i \in Reached(rows, actors, a),
           actors[a].current = i,
           NEW j \in Recorded, rows[j].actor = a, rows[j].actorSeq < rows[i].actorSeq
    PROVE  j \in Terminal
<1> SUFFICES ASSUME j \notin Terminal PROVE FALSE
  OBVIOUS
<1>1. TypeOK /\ Placed(rows, actors, live, started)
  BY DEF OrderInv, IInv
<1>2. i \in Recorded /\ rows[i].actor = a /\ rows[i].actorSeq < actors[a].nextAdmitSeq
  BY <1>1, RowFacts DEF Reached, RowsOf
<1>3. rows[i].actorSeq \in Nat /\ rows[j].actorSeq \in Nat /\ actors[a].nextAdmitSeq \in Nat
  BY <1>1, <1>2, RowFacts DEF TypeOK, Actor
<1>4. j \in Reached(rows, actors, a) /\ rows[j].status = "running"
  BY <1>1, <1>2, <1>3, RowFacts DEF Reached
<1>5. j \in Admitted(actors, a)
  BY <1>1, <1>4 DEF Placed, ReachedArePlaced
<1>6. j # i /\ actors[a].current # NoInst
  BY <1>2, <1>3, RowFacts, <1>1, NoInstIsNone
<1>7. PICK n \in DOMAIN actors[a].liveQueue : j = actors[a].liveQueue[n]
  BY <1>5, <1>6 DEF Admitted, Elements
<1>8. rows[i].actorSeq < rows[j].actorSeq
  BY <1>1, <1>6, <1>7 DEF Placed, QueuesInOrder, InOrder
<1> QED BY <1>3, <1>8

\* Settling the ask in dispatch keeps the journal in order.
LEMMA SettledInOrder ==
    ASSUME OrderInv, Running, NEW a \in Actors, NEW i \in Reached(rows, actors, a),
           actors[a].current = i, NEW o \in {"ok", "failed"},
           rows' = [rows EXCEPT ![i].status = RowStatus[o]], turns' \subseteq turns
    PROVE  /\ SameAsks(rows, rows') /\ Numbered(rows)' /\ TranscriptOrder'
           /\ rows'[i].status # "running" /\ \A j \in Instances \ {i} : rows'[j] = rows[j]
<1>1. TypeOK /\ rows \in [Instances -> Row \cup {NoRow}]
  BY DEF OrderInv, IInv, TypeOK
<1>2. i \in Recorded /\ i \in Instances /\ rows[i] \in Row /\ rows[i].actor = a
  BY <1>1, RowFacts DEF Reached, RowsOf
<1> DEFINE ended == [rows[i] EXCEPT !.status = RowStatus[o]]
<1>3. /\ ended \in Row /\ ended.actor = rows[i].actor /\ ended.actorSeq = rows[i].actorSeq
      /\ ended.hash = rows[i].hash /\ ended.status # "running" /\ ended # NoRow
  <2>1. RowStatus[o] \in {"completed", "failed"}
    BY DEF RowStatus
  <2> QED BY <1>2, <2>1 DEF Row, NoRow
<1>4. rows' = [rows EXCEPT ![i] = ended]
  OBVIOUS
<1> HIDE DEF ended
<1>5. rows'[i] = ended /\ \A j \in Instances \ {i} : rows'[j] = rows[j]
  BY <1>1, <1>2, <1>4
<1>6. SameAsks(rows, rows')
  BY <1>2, <1>3, <1>5, Zenon DEF SameAsks, Rows, Recorded
<1>7. Numbered(rows)'
  BY <1>6, NumbersKept DEF OrderInv
<1>8. Recorded' = Recorded /\ Terminal' = Terminal \cup {i}
  BY <1>2, <1>3, <1>5 DEF Recorded, Terminal
<1>9. TranscriptOrder'
  <2> SUFFICES ASSUME NEW j \in Recorded', NEW k \in Recorded',
                      rows'[j].actor = rows'[k].actor, rows'[j].actorSeq < rows'[k].actorSeq,
                      k \in Terminal' \/ k \in turns'
               PROVE  j \in Terminal'
    BY DEF TranscriptOrder
  <2>1. /\ j \in Recorded /\ k \in Recorded
        /\ rows[j].actor = rows[k].actor /\ rows[j].actorSeq < rows[k].actorSeq
    BY <1>1, <1>6, <1>8, RowFacts DEF SameAsks
  <2>2. CASE k \in Terminal \/ k \in turns
    BY <1>8, <2>1, <2>2 DEF OrderInv, TranscriptOrder
  <2>3. CASE k = i
    BY <1>2, <1>8, <2>1, <2>3, CurrentIsNext
  <2> QED BY <1>8, <2>2, <2>3
<1> QED BY <1>3, <1>5, <1>6, <1>7, <1>9
--------------------------------------------------------------------------------
(* A settlement of the ask in dispatch. *)

\* Two different asks with a subagent have different numbers, so the one in dispatch is
\* not queued behind itself.
LEMMA CurrentIsNotQueued ==
    ASSUME TypeOK, Placed(rows, actors, live, started), NEW a \in Actors,
           actors[a].current \in Instances
    PROVE  actors[a].current \notin Elements(actors[a].liveQueue)
<1>1. SUFFICES ASSUME NEW n \in DOMAIN actors[a].liveQueue,
                      actors[a].liveQueue[n] = actors[a].current
               PROVE  FALSE
  BY DEF Elements
<1>2. actors[a].current # NoInst
  BY NoInstIsNone
<1>3. rows[actors[a].current].actorSeq < rows[actors[a].current].actorSeq
  BY <1>1, <1>2 DEF Placed, QueuesInOrder, InOrder
<1>4. actors[a].current \in Recorded
  BY <1>2, RowFacts DEF Placed, AdmittedAreLive, IsMine, Admitted, RowsOf
<1>5. rows[actors[a].current].actorSeq \in Nat
  BY <1>4, RowFacts
<1> QED BY <1>3, <1>5

\* The places of the subagents without the settled ask.
LEMMA SettledPlaces ==
    ASSUME OrderInv, Running, NEW a \in Actors, NEW i \in Reached(rows, actors, a),
           actors[a].current = i, NEW rx, SameAsks(rows, rx), rx[i].status # "running",
           \A j \in Instances \ {i} : rx[j] = rows[j],
           NEW lv, Elements(lv) = Elements(live) \ {i},
           NEW as \in [Actors -> Actor],
           as = [actors EXCEPT ![a] = [actors[a] EXCEPT !.current = NoInst]]
    PROVE  Placed(rx, as, lv, started)
<1>1. TypeOK /\ Placed(rows, actors, live, started) /\ actors \in [Actors -> Actor]
  BY DEF OrderInv, IInv, TypeOK
<1>2. i \in Instances /\ i \in RowsOf(rows, a)
  BY DEF Reached, RowsOf, Rows
<1>3. /\ \A c \in Actors \ {a} : as[c] = actors[c]
      /\ as[a].current = NoInst
      /\ \A c \in Actors : /\ as[c].liveQueue = actors[c].liveQueue
                           /\ as[c].nextAdmitSeq = actors[c].nextAdmitSeq
                           /\ as[c].recordedCount = actors[c].recordedCount
                           /\ as[c].pendingRecorded = actors[c].pendingRecorded
                           /\ as[c].pendingLive = actors[c].pendingLive
  BY <1>1 DEF Actor
<1>4. /\ \A c \in Actors : RowsOf(rx, c) = RowsOf(rows, c)
      /\ \A j \in Rows(rows) : rx[j].actorSeq = rows[j].actorSeq /\ rx[j].actor = rows[j].actor
  BY NumbersKept DEF SameAsks
<1>5. \A c \in Actors : Reached(rx, as, c) = Reached(rows, actors, c)
  <2> TAKE c \in Actors
  <2>1. \A j \in RowsOf(rows, c) : rx[j].actorSeq = rows[j].actorSeq
    BY <1>4 DEF RowsOf
  <2>2. as[c].nextAdmitSeq = actors[c].nextAdmitSeq
    BY <1>3
  <2> QED BY <1>4, <2>1, <2>2 DEF Reached
<1>6. \A c \in Actors : Admitted(as, c) = Admitted(actors, c) \ {i}
  <2> TAKE c \in Actors
  <2>1. CASE c = a
    <3>1. i \notin Elements(actors[a].liveQueue)
      BY <1>1, <1>2, CurrentIsNotQueued
    <3> QED BY <1>3, <2>1, <3>1 DEF Admitted
  <2>2. CASE c # a
    <3>1. i \notin Admitted(actors, c)
      BY <1>1, <1>2, <2>2 DEF Placed, AdmittedAreLive, IsMine, RowsOf
    <3> QED BY <1>3, <2>2, <3>1 DEF Admitted
  <2> QED BY <2>1, <2>2
<1>7. CountsAgree(rx, as)
  BY <1>1, <1>3, <1>4 DEF Placed, CountsAgree
<1>8. WaitingIsSound(rx, as)
  <2>1. \A c \in Actors : actors[c].pendingRecorded \subseteq Rows(rows)
    BY <1>1, RowFacts DEF OrderInv, IInv, RecordedCallsHaveRows
  <2> QED BY <1>1, <1>3, <1>4, <2>1 DEF Placed, WaitingIsSound, CallsOf
<1>9. QueuesInOrder(rx, as)
  <2> SUFFICES ASSUME NEW c \in Actors PROVE InOrder(rx, as, c)
    BY DEF QueuesInOrder
  <2>1. \A n \in DOMAIN actors[c].liveQueue : actors[c].liveQueue[n] \in Rows(rows)
    BY <1>1 DEF Placed, AdmittedAreLive, IsMine, Admitted, Elements, RowsOf
  <2>2. actors[c].current # NoInst => actors[c].current \in Rows(rows)
    BY <1>1 DEF Placed, AdmittedAreLive, IsMine, Admitted, RowsOf
  <2>3. InOrder(rows, actors, c)
    BY <1>1 DEF Placed, QueuesInOrder
  <2>4. Increasing(rx, as[c].liveQueue)
    BY <1>3, <1>4, <2>1, <2>3 DEF InOrder, Increasing
  <2>5. as[c].current # NoInst => as[c].current = actors[c].current
    BY <1>3
  <2> QED BY <1>3, <1>4, <2>1, <2>2, <2>3, <2>4, <2>5 DEF InOrder
<1>10. AdmittedAreLive(rx, as, lv)
  BY <1>1, <1>3, <1>4, <1>6 DEF Placed, AdmittedAreLive, IsMine, RowsOf
<1>11. ReachedArePlaced(rx, as)
  <2> SUFFICES ASSUME NEW c \in Actors, NEW j \in Reached(rows, actors, c),
                      rx[j].status = "running"
               PROVE  j \in Admitted(as, c)
    BY <1>5 DEF ReachedArePlaced
  <2>1. j # i /\ j \in Instances
    BY DEF Reached, RowsOf, Rows
  <2>2. j \in Admitted(actors, c)
    BY <1>1, <2>1 DEF Placed, ReachedArePlaced
  <2> QED BY <1>6, <2>1, <2>2
<1>12. StartedAreCurrent(rx, as, lv, started)
  <2> SUFFICES ASSUME NEW j \in started
               PROVE  \E c \in Actors : j \in Reached(rx, as, c)
                                        /\ (j \in Elements(lv) => as[c].current = j)
    BY DEF StartedAreCurrent
  <2>1. PICK c \in Actors : j \in Reached(rows, actors, c)
                            /\ (j \in Elements(live) => actors[c].current = j)
    BY <1>1 DEF Placed, StartedAreCurrent
  <2>2. j \in Elements(lv) => as[c].current = j
    BY <1>3, <2>1
  <2> QED BY <1>5, <2>1, <2>2
<1> QED BY <1>7, <1>8, <1>9, <1>10, <1>11, <1>12 DEF Placed

\* The settlement of a live ask in dispatch, with the pump that follows it.
LEMMA SettleOrder ==
    ASSUME OrderInv, IInv', Running, NEW a \in Actors, NEW i \in Reached(rows, actors, a),
           actors[a].current = i, i \in Elements(live), NEW o \in {"ok", "failed"}, Settle(i, o),
           UNCHANGED <<up, runSettled, started>>
    PROVE  OrderInv'
<1>1. /\ TypeOK /\ actors \in [Actors -> Actor] /\ live \in Seq(Instances)
      /\ started \in SUBSET Instances
      /\ TurnsAreStarted
  BY DEF OrderInv, IInv, TypeOK
<1>2. i \in Recorded /\ i \in Instances /\ rows[i].actor = a
  BY <1>1, RowFacts DEF Reached, RowsOf
<1> DEFINE as == [actors EXCEPT ![a] = [actors[a] EXCEPT !.current = NoInst]]
<1>3. /\ rows' = [rows EXCEPT ![i].status = RowStatus[o]]
      /\ live' = Without(live, i) /\ turns' = turns \ {i}
      /\ Pump(as, activeAsks - 1, Actors, cap)
  BY <1>2 DEF Settle
<1>4. as \in [Actors -> Actor]
  <2>1. [actors[a] EXCEPT !.current = NoInst] \in Actor
    BY <1>1 DEF Actor
  <2> QED BY <1>1, <2>1
<1>5. Elements(live') = Elements(live) \ {i}
  BY <1>1, <1>3, WithoutElements
<1>6. /\ SameAsks(rows, rows') /\ Numbered(rows)' /\ TranscriptOrder'
      /\ rows'[i].status # "running" /\ \A j \in Instances \ {i} : rows'[j] = rows[j]
  BY <1>3, SettledInOrder
<1>7. Placed(rows', as, live', started)
  <2>1. as = [actors EXCEPT ![a] = [actors[a] EXCEPT !.current = NoInst]]
    OBVIOUS
  <2> HIDE DEF as
  <2> QED BY <1>4, <1>5, <1>6, <2>1, SettledPlaces
<1>8. \A c \in Actors : SamePlaces(as, c)
  <2> HIDE DEF as
  <2> QED BY <1>3, <1>4, PumpPlaces
<1>9. Placed(rows', actors', live', started)
  <2> HIDE DEF as
  <2> QED BY <1>1, <1>7, <1>8, PlacesKept
<1>10. TurnsAreStarted'
  BY <1>1, <1>3, <1>5 DEF TurnsAreStarted
<1>11. Running' /\ started' = started
  BY DEF Running
<1> QED BY <1>6, <1>9, <1>10, <1>11 DEF OrderInv
--------------------------------------------------------------------------------
(* An admission. *)

\* The recorded asks that leave in one admission, and the first number behind them.
Leaving(a, R) ==
    {i \in R : /\ rows[i].actorSeq >= actors[a].nextAdmitSeq
               /\ \A s \in actors[a].nextAdmitSeq..rows[i].actorSeq : \E j \in R : rows[j].actorSeq = s}
Behind(a, R) == actors[a].nextAdmitSeq + Cardinality(Leaving(a, R))

\* They have the numbers from nextAdmitSeq on, without a gap; when no row found at the
\* start of the life is left behind them, the next number is the count of the rows.
LEMMA LeavingNumbers ==
    ASSUME OrderInv, Running, NEW a \in Actors, NEW R \in SUBSET Recorded,
           \A i \in R : rows[i].actor = a
    PROVE  /\ IsFiniteSet(Leaving(a, R)) /\ Behind(a, R) \in Nat
           /\ actors[a].nextAdmitSeq \in Nat /\ actors[a].recordedCount \in Nat
           /\ actors[a].nextAdmitSeq <= Behind(a, R)
           /\ \A i \in Leaving(a, R) :
                  actors[a].nextAdmitSeq <= rows[i].actorSeq /\ rows[i].actorSeq < Behind(a, R)
           /\ \A s \in actors[a].nextAdmitSeq..(Behind(a, R) - 1) :
                  \E i \in Leaving(a, R) : rows[i].actorSeq = s
           /\ Behind(a, R) >= actors[a].recordedCount => Cardinality(RowsOf(rows, a)) = Behind(a, R)
           /\ ~(Behind(a, R) >= actors[a].recordedCount) =>
                  Cardinality(RowsOf(rows, a)) = actors[a].recordedCount
<1> DEFINE N   == actors[a].nextAdmitSeq
           C   == actors[a].recordedCount
           K   == Cardinality(RowsOf(rows, a))
           out == Leaving(a, R)
           seq == [i \in out |-> rows[i].actorSeq]
           T   == Values(seq, out)
<1>1. TypeOK /\ Numbered(rows) /\ Placed(rows, actors, live, started)
  BY DEF OrderInv, IInv
<1>2. N \in Nat /\ C \in Nat
  BY <1>1 DEF TypeOK, Actor
<1>3. out \subseteq R /\ R \subseteq Instances /\ \A i \in R : rows[i].actorSeq \in Nat
  BY <1>1, RowFacts DEF Leaving
<1>4. IsFiniteSet(out) /\ Cardinality(out) \in Nat
  <2> HIDE DEF out
  <2> QED BY <1>3, InstancesFinite, FS_Subset, FS_CardinalityType
<1>5. \A i, j \in out : seq[i] = seq[j] => i = j
  <2> SUFFICES ASSUME NEW i \in out, NEW j \in out, rows[i].actorSeq = rows[j].actorSeq
               PROVE  i = j
    OBVIOUS
  <2>1. i \in Rows(rows) /\ j \in Rows(rows) /\ rows[i].actor = rows[j].actor
    BY <1>1, <1>3, RowFacts
  <2> QED BY <1>1, <2>1 DEF Numbered, NumbersDiffer
<1>6. IsFiniteSet(T) /\ Cardinality(T) = Cardinality(out)
  <2> HIDE DEF out, seq
  <2> QED BY <1>4, <1>5, DistinctImage
<1>7. T = N..(N + Cardinality(T) - 1)
  <2>1. T \in SUBSET Int
    BY <1>3 DEF Values
  <2>2. ASSUME NEW s \in T PROVE s >= N /\ N..s \subseteq T
    <3>1. PICK i \in out : s = rows[i].actorSeq
      BY DEF Values
    <3>2. s >= N /\ s \in Nat /\ \A r \in N..s : \E j \in R : rows[j].actorSeq = r
      BY <1>3, <3>1 DEF Leaving
    <3>3. ASSUME NEW r \in N..s PROVE r \in T
      <4>1. PICK j \in R : rows[j].actorSeq = r
        BY <3>2
      <4>2. r >= N /\ \A q \in N..r : q \in N..s
        BY <1>2, <3>2
      <4>3. j \in out
        BY <3>2, <4>1, <4>2 DEF Leaving
      <4> QED BY <4>1, <4>3 DEF Values
    <3> QED BY <3>2, <3>3
  <2> HIDE DEF T, N
  <2> QED BY <1>2, <1>6, <2>1, <2>2, InitialSegment
<1>8. Behind(a, R) = N + Cardinality(out)
  BY DEF Behind
<1>9. T = N..(Behind(a, R) - 1) /\ Behind(a, R) \in Nat /\ N <= Behind(a, R)
  <2> HIDE DEF N, T, out
  <2> QED BY <1>2, <1>4, <1>6, <1>7, <1>8
<1>10. \A i \in out : N <= rows[i].actorSeq /\ rows[i].actorSeq < Behind(a, R)
  <2> TAKE i \in out
  <2>1. rows[i].actorSeq \in N..(Behind(a, R) - 1)
    BY <1>9 DEF Values
  <2> QED BY <1>2, <1>9, <2>1
<1>11. \A s \in N..(Behind(a, R) - 1) : \E i \in out : rows[i].actorSeq = s
  <2> TAKE s \in N..(Behind(a, R) - 1)
  <2>1. s \in T
    BY <1>9
  <2> QED BY <2>1 DEF Values
<1>12. K = IF N < C THEN C ELSE N
  BY <1>1 DEF Placed, CountsAgree
<1>13. \A i \in out : rows[i].actorSeq < K
  <2> TAKE i \in out
  <2>1. i \in Rows(rows) /\ rows[i].actor = a
    BY <1>1, <1>3, RowFacts
  <2> QED BY <1>1, <2>1 DEF Numbered, NumbersAreDense
<1> HIDE DEF out, K, N, C, T
<1>14. Behind(a, R) <= K
  <2>1. CASE Behind(a, R) = N
    BY <1>2, <1>12, <2>1
  <2>2. CASE Behind(a, R) # N
    <3>1. Behind(a, R) - 1 \in N..(Behind(a, R) - 1)
      BY <1>2, <1>9, <2>2
    <3>2. PICK i \in out : rows[i].actorSeq = Behind(a, R) - 1
      BY <1>11, <3>1
    <3> QED BY <1>2, <1>9, <1>12, <1>13, <3>2
  <2> QED BY <2>1, <2>2
<1>15. Behind(a, R) >= C => K = Behind(a, R)
  BY <1>2, <1>9, <1>12, <1>14
<1>16. ~(Behind(a, R) >= C) => K = C
  BY <1>2, <1>9, <1>12
<1> QED BY <1>2, <1>4, <1>9, <1>10, <1>11, <1>15, <1>16 DEF out, N, C, K

\* The new calls of a batch, and the rows an admission writes for them.
Names(new) == {new[n][1] : n \in DOMAIN new}
WritesRows(a, new, next) ==
    /\ \A n \in DOMAIN new : rows'[new[n][1]] = [status |-> "running", actor |-> a,
                                                 actorSeq |-> next + n - 1, hash |-> new[n][2]]
    /\ \A i \in Instances \ Names(new) : rows'[i] = rows[i]

\* The new rows get the numbers behind all others of their subagent.
LEMMA NewRowsAreBehind ==
    ASSUME OrderInv, Running, NEW a \in Actors, NEW new \in Seq(Instances \X Hashes),
           NEW next \in Nat, WritesRows(a, new, next),
           \A n \in DOMAIN new : /\ rows[new[n][1]] = NoRow /\ AskedOf(new[n][2], a)
                                 /\ next = Cardinality(RowsOf(rows, a)),
           \A m, n \in DOMAIN new : new[m][1] = new[n][1] => m = n
    PROVE  /\ Rows(rows') = Rows(rows) \cup Names(new) /\ Names(new) \cap Rows(rows) = {}
           /\ \A i \in Rows(rows) : rows'[i] = rows[i]
           /\ RowsOf(rows', a) = RowsOf(rows, a) \cup Names(new)
           /\ Cardinality(RowsOf(rows', a)) = Cardinality(RowsOf(rows, a)) + Len(new)
           /\ Cardinality(RowsOf(rows, a)) \in Nat
           /\ \A c \in Actors \ {a} : RowsOf(rows', c) = RowsOf(rows, c)
           /\ \A i \in Names(new) : /\ rows'[i].status = "running" /\ rows'[i].actor = a
                                    /\ AskedOf(rows'[i].hash, a)
                                    /\ rows'[i].actorSeq \in next..(next + Len(new) - 1)
                                    /\ next = Cardinality(RowsOf(rows, a))
<1>1. TypeOK
  BY DEF OrderInv, IInv
<1>2. /\ Len(new) \in Nat /\ DOMAIN new = 1..Len(new)
      /\ \A n \in DOMAIN new : new[n] \in Instances \X Hashes
  BY LenProperties, ElementOfSeq
<1>3. Names(new) \subseteq Instances /\ Names(new) \cap Rows(rows) = {}
  BY <1>2 DEF Names, Rows
<1>4. \A i \in Names(new) : /\ rows'[i].status = "running" /\ rows'[i].actor = a /\ rows'[i] # NoRow
                            /\ AskedOf(rows'[i].hash, a)
                            /\ rows'[i].actorSeq \in next..(next + Len(new) - 1)
                            /\ next = Cardinality(RowsOf(rows, a))
  <2> SUFFICES ASSUME NEW n \in DOMAIN new
               PROVE  LET r == rows'[new[n][1]]
                      IN  /\ r.status = "running" /\ r.actor = a /\ r # NoRow
                          /\ AskedOf(r.hash, a) /\ r.actorSeq \in next..(next + Len(new) - 1)
                          /\ next = Cardinality(RowsOf(rows, a))
    BY DEF Names
  <2> DEFINE r == rows'[new[n][1]]
  <2>1. r = [status |-> "running", actor |-> a, actorSeq |-> next + n - 1, hash |-> new[n][2]]
    BY DEF WritesRows
  <2>2. r.status = "running" /\ r.actor = a /\ r.actorSeq = next + n - 1 /\ r.hash = new[n][2]
    BY <2>1
  <2>3. r # NoRow
    BY <2>2 DEF NoRow
  <2>4. next + n - 1 \in next..(next + Len(new) - 1)
    BY <1>2
  <2> HIDE DEF r
  <2>5. AskedOf(r.hash, a)
    BY <2>2
  <2>6. next = Cardinality(RowsOf(rows, a))
    OBVIOUS
  <2> QED BY <2>2, <2>3, <2>4, <2>5, <2>6 DEF r
<1>5. \A i \in Instances \ Names(new) : rows'[i] = rows[i]
  BY DEF WritesRows
<1>6. Rows(rows') = Rows(rows) \cup Names(new)
  BY <1>3, <1>4, <1>5 DEF Rows
<1>7. \A i \in Rows(rows) : rows'[i] = rows[i]
  BY <1>3, <1>5 DEF Rows
<1>8. RowsOf(rows', a) = RowsOf(rows, a) \cup Names(new)
  BY <1>4, <1>6, <1>7 DEF RowsOf
<1>9. \A c \in Actors \ {a} : RowsOf(rows', c) = RowsOf(rows, c)
  BY <1>4, <1>6, <1>7, ZenonT(30) DEF RowsOf
<1>10. IsFiniteSet(Names(new)) /\ Cardinality(Names(new)) = Len(new)
  <2> DEFINE f == [n \in DOMAIN new |-> new[n][1]]
  <2>1. IsFiniteSet(1..Len(new)) /\ Cardinality(1..Len(new)) = Len(new)
    BY ONLY Len(new) \in Nat, <1>2, FS_Interval
  <2>2. \A m, n \in DOMAIN new : f[m] = f[n] => m = n
    OBVIOUS
  <2>3. Names(new) = Values(f, DOMAIN new)
    BY DEF Names, Values
  <2>4. IsFiniteSet(DOMAIN new) /\ Cardinality(DOMAIN new) = Len(new)
    BY <1>2, <2>1
  <2> HIDE DEF f
  <2> QED BY <2>2, <2>3, <2>4, DistinctImage
<1>11. IsFiniteSet(RowsOf(rows, a)) /\ Cardinality(RowsOf(rows, a)) \in Nat
  <2>1. RowsOf(rows, a) \subseteq Instances
    BY DEF RowsOf, Rows
  <2> QED BY <2>1, InstancesFinite, FS_Subset, FS_CardinalityType
<1>12. Cardinality(RowsOf(rows', a)) = Cardinality(RowsOf(rows, a)) + Len(new)
  <2>1. RowsOf(rows, a) \cap Names(new) = {}
    BY <1>3 DEF RowsOf
  <2>2. Cardinality({}) = 0
    BY FS_EmptySet
  <2>3. Cardinality(RowsOf(rows, a) \cup Names(new)) =
            Cardinality(RowsOf(rows, a)) + Cardinality(Names(new))
              - Cardinality(RowsOf(rows, a) \cap Names(new))
    BY <1>10, <1>11, FS_Union
  <2>4. Cardinality(RowsOf(rows, a) \cap Names(new)) = 0
    BY <2>1, <2>2
  <2> QED BY <1>2, <1>8, <1>10, <1>11, <2>3, <2>4
<1> QED BY <1>3, <1>4, <1>6, <1>7, <1>8, <1>9, <1>11, <1>12

\* So the journal stays numbered, and no ask that has an answer or is with the model has
\* been overtaken.
LEMMA NewRowsInOrder ==
    ASSUME OrderInv, Running, NEW a \in Actors, NEW new \in Seq(Instances \X Hashes),
           NEW next \in Nat, WritesRows(a, new, next),
           \A n \in DOMAIN new : /\ rows[new[n][1]] = NoRow /\ AskedOf(new[n][2], a)
                                 /\ next = Cardinality(RowsOf(rows, a)),
           \A m, n \in DOMAIN new : new[m][1] = new[n][1] => m = n,
           TypeOK', UNCHANGED turns
    PROVE  Numbered(rows)' /\ TranscriptOrder'
<1> DEFINE K == Cardinality(RowsOf(rows, a))
<1>1. /\ Rows(rows') = Rows(rows) \cup Names(new) /\ Names(new) \cap Rows(rows) = {}
      /\ \A i \in Rows(rows) : rows'[i] = rows[i]
      /\ RowsOf(rows', a) = RowsOf(rows, a) \cup Names(new)
      /\ Cardinality(RowsOf(rows', a)) = K + Len(new)
      /\ K \in Nat
      /\ \A c \in Actors \ {a} : RowsOf(rows', c) = RowsOf(rows, c)
      /\ \A i \in Names(new) : /\ rows'[i].status = "running" /\ rows'[i].actor = a
                               /\ AskedOf(rows'[i].hash, a)
                               /\ rows'[i].actorSeq \in next..(next + Len(new) - 1)
                               /\ next = K
  BY NewRowsAreBehind
<1>2. TypeOK /\ Numbered(rows) /\ TranscriptOrder /\ TurnsAreStarted /\ LiveIsRunning
  BY DEF OrderInv, IInv
<1>3. Len(new) \in Nat
  BY LenProperties
<1> HIDE DEF K
<1>4. \A i \in Rows(rows) : /\ rows[i].actorSeq \in Nat /\ rows[i].actor \in Actors
                            /\ rows[i].actor = a => rows[i].actorSeq < K
  <2> TAKE i \in Rows(rows)
  <2>1. rows[i].actorSeq < Cardinality(RowsOf(rows, rows[i].actor))
    BY <1>2 DEF Numbered, NumbersAreDense
  <2> QED BY <1>2, <2>1, RowFacts DEF K
<1>5. NumbersDiffer(rows')
  <2> SUFFICES ASSUME NEW i \in Rows(rows'), NEW j \in Rows(rows'),
                      rows'[i].actor = rows'[j].actor, rows'[i].actorSeq = rows'[j].actorSeq
               PROVE  i = j
    BY DEF NumbersDiffer
  <2>1. CASE i \in Rows(rows) /\ j \in Rows(rows)
    BY <1>1, <1>2, <2>1 DEF Numbered, NumbersDiffer
  <2>2. CASE i \in Names(new) /\ j \in Names(new)
    <3>1. PICK m \in DOMAIN new, n \in DOMAIN new : i = new[m][1] /\ j = new[n][1]
      BY <2>2 DEF Names
    <3>2. /\ rows'[i] = [status |-> "running", actor |-> a, actorSeq |-> next + m - 1,
                         hash |-> new[m][2]]
          /\ rows'[j] = [status |-> "running", actor |-> a, actorSeq |-> next + n - 1,
                         hash |-> new[n][2]]
      BY <3>1 DEF WritesRows
    <3>3. rows'[i].actorSeq = next + m - 1 /\ rows'[j].actorSeq = next + n - 1
      BY <3>2
    <3>4. next + m - 1 = next + n - 1
      BY <3>3
    <3>5. m \in Nat /\ n \in Nat
      BY LenProperties
    <3>6. m = n
      BY ONLY <3>4, <3>5, next \in Nat
    <3> QED BY <3>1, <3>6
  <2>3. CASE i \in Names(new) /\ j \in Rows(rows)
    <3>1. rows[j].actor = a /\ rows'[j].actorSeq = rows[j].actorSeq
      BY <1>1, <2>3
    <3>2. rows[j].actorSeq \in Nat /\ rows[j].actorSeq < K
      BY <1>4, <2>3, <3>1
    <3>3. rows'[i].actorSeq >= K
      BY <1>1, <2>3
    <3> QED BY <1>1, <3>1, <3>2, <3>3
  <2>4. CASE i \in Rows(rows) /\ j \in Names(new)
    <3>1. rows[i].actor = a /\ rows'[i].actorSeq = rows[i].actorSeq
      BY <1>1, <2>4
    <3>2. rows[i].actorSeq \in Nat /\ rows[i].actorSeq < K
      BY <1>4, <2>4, <3>1
    <3>3. rows'[j].actorSeq >= K
      BY <1>1, <2>4
    <3> QED BY <1>1, <3>1, <3>2, <3>3
  <2> QED BY <1>1, <2>1, <2>2, <2>3, <2>4
<1>6. NumbersAreDense(rows')
  <2> SUFFICES ASSUME NEW i \in Rows(rows')
               PROVE  rows'[i].actorSeq < Cardinality(RowsOf(rows', rows'[i].actor))
    BY DEF NumbersAreDense
  <2>1. CASE i \in Names(new)
    <3>1. rows'[i].actorSeq \in K..(K + Len(new) - 1) /\ rows'[i].actor = a
      BY <1>1, <2>1
    <3>2. Cardinality(RowsOf(rows', rows'[i].actor)) = K + Len(new)
      BY <1>1, <3>1
    <3>3. K \in Nat
      BY <1>1
    <3> QED BY ONLY <1>3, <3>1, <3>2, <3>3
  <2>2. CASE i \in Rows(rows) /\ rows[i].actor = a
    <3>1. rows'[i] = rows[i] /\ rows[i].actorSeq \in Nat /\ rows[i].actorSeq < K
      BY <1>1, <1>4, <2>2
    <3>2. Cardinality(RowsOf(rows', rows'[i].actor)) = K + Len(new)
      BY <1>1, <2>2, <3>1
    <3>3. K \in Nat
      BY <1>1
    <3> QED BY ONLY <1>3, <3>1, <3>2, <3>3
  <2>3. CASE i \in Rows(rows) /\ rows[i].actor # a
    BY <1>1, <1>2, <1>4, <2>3 DEF Numbered, NumbersAreDense
  <2> QED BY <1>1, <2>1, <2>2, <2>3
<1>7. RowsNameTheirActor(rows')
  BY <1>1, <1>2 DEF Numbered, RowsNameTheirActor
<1>8. Rows(rows') = Recorded' /\ Rows(rows) = Recorded
      /\ \A i \in Recorded' : i \in Terminal' <=> rows'[i].status # "running"
  BY <1>2, RowFacts DEF Rows, Recorded, Terminal
<1>9. TranscriptOrder'
  <2> SUFFICES ASSUME NEW i \in Recorded', NEW j \in Recorded',
                      rows'[i].actor = rows'[j].actor, rows'[i].actorSeq < rows'[j].actorSeq,
                      j \in Terminal' \/ j \in turns
               PROVE  i \in Terminal'
    BY DEF TranscriptOrder
  <2>1. j \in Rows(rows)
    <3>1. CASE j \in Terminal'
      BY <1>1, <1>8, <3>1
    <3>2. CASE j \in turns
      <4>1. j \in Elements(live) /\ j \in Instances
        BY <1>2, <3>2 DEF TurnsAreStarted, TypeOK
      <4> QED BY <1>2, <4>1 DEF LiveIsRunning, Rows
    <3> QED BY <3>1, <3>2
  <2>2. i \in Rows(rows)
    <3>1. SUFFICES ASSUME i \in Names(new) PROVE FALSE
      BY <1>1, <1>8
    <3>2. rows[j].actor = a /\ rows'[j].actorSeq = rows[j].actorSeq
      BY <1>1, <2>1, <3>1
    <3>3. rows[j].actorSeq \in Nat /\ rows[j].actorSeq < K
      BY <1>4, <2>1, <3>2
    <3>4. rows'[i].actorSeq \in K..(K + Len(new) - 1)
      BY <1>1, <3>1
    <3> QED BY <1>1, <1>3, <3>2, <3>3, <3>4
  <2>3. rows'[i] = rows[i] /\ rows'[j] = rows[j]
    BY <1>1, <2>1, <2>2
  <2>4. j \in Terminal \/ j \in turns
    BY <1>2, <1>8, <2>1, <2>3, RowFacts
  <2>5. i \in Terminal
    BY <1>2, <1>8, <2>1, <2>2, <2>3, <2>4 DEF TranscriptOrder
  <2> QED BY <1>2, <1>8, <2>2, <2>3, <2>5, RowFacts
<1> QED BY <1>5, <1>6, <1>7, <1>9 DEF Numbered

\* The asks of one admission that are put to the model again: those without an answer.
Rerun(a, R) == {i \in Leaving(a, R) : rows[i].status = "running"}

\* The places of the subagents after an admission, before the pump.
LEMMA AdmittedPlaces ==
    ASSUME OrderInv, Running, NEW a \in Actors, NEW R \in SUBSET Recorded,
           \A i \in R : rows[i].actor = a,
           NEW new \in Seq(Instances \X Hashes), NEW left,
           CallsOf(rows, a, R, left),
           WritesRows(a, new, Behind(a, R)),
           \A n \in DOMAIN new : /\ rows[new[n][1]] = NoRow /\ AskedOf(new[n][2], a)
                                 /\ Behind(a, R) = Cardinality(RowsOf(rows, a)),
           \A m, n \in DOMAIN new : new[m][1] = new[n][1] => m = n,
           ~(Behind(a, R) >= actors[a].recordedCount) => new = <<>>,
           NEW q, Elements(q) = Elements(actors[a].liveQueue) \cup Rerun(a, R) \cup Names(new),
           Increasing(rows', q),
           NEW lv, Elements(lv) = Elements(live) \cup Rerun(a, R) \cup Names(new),
           NEW as, as[a].nextAdmitSeq = Behind(a, R) + Len(new),
           as[a].recordedCount = actors[a].recordedCount,
           as[a].current = actors[a].current, as[a].liveQueue = q,
           as[a].pendingLive = left, as[a].pendingRecorded \subseteq R,
           \A c \in Actors \ {a} : as[c] = actors[c]
    PROVE  Placed(rows', as, lv, started)
<1> DEFINE N    == actors[a].nextAdmitSeq
           C    == actors[a].recordedCount
           K    == Cardinality(RowsOf(rows, a))
           next == Behind(a, R)
<1>1. /\ TypeOK /\ Numbered(rows) /\ Placed(rows, actors, live, started)
      /\ LiveIsRunning /\ RecordedCallsHaveRows
  BY DEF OrderInv, IInv
<1>2. /\ N \in Nat /\ C \in Nat /\ next \in Nat /\ N <= next
      /\ \A i \in Leaving(a, R) : N <= rows[i].actorSeq /\ rows[i].actorSeq < next
      /\ \A s \in N..(next - 1) : \E i \in Leaving(a, R) : rows[i].actorSeq = s
      /\ next >= C => K = next
      /\ ~(next >= C) => K = C
  BY LeavingNumbers
<1>17. N \in Nat /\ C \in Nat /\ next \in Nat /\ N <= next
  BY <1>2
<1>18. (next >= C => K = next) /\ (~(next >= C) => K = C)
  BY <1>2
<1> HIDE DEF N, C, K, next
<1>3. /\ Rows(rows') = Rows(rows) \cup Names(new) /\ Names(new) \cap Rows(rows) = {}
      /\ \A i \in Rows(rows) : rows'[i] = rows[i]
      /\ RowsOf(rows', a) = RowsOf(rows, a) \cup Names(new)
      /\ Cardinality(RowsOf(rows', a)) = K + Len(new)
      /\ K \in Nat
      /\ \A c \in Actors \ {a} : RowsOf(rows', c) = RowsOf(rows, c)
      /\ \A i \in Names(new) : /\ rows'[i].status = "running" /\ rows'[i].actor = a
                               /\ rows'[i].actorSeq \in next..(next + Len(new) - 1)
                               /\ next = K
  <2>1. next \in Nat /\ \A n \in DOMAIN new : next = Cardinality(RowsOf(rows, a))
    BY <1>2 DEF next
  <2>2. WritesRows(a, new, next)
    BY DEF next
  <2> QED BY <2>1, <2>2, NewRowsAreBehind DEF K
<1>4. Len(new) \in Nat /\ as[a].nextAdmitSeq = next + Len(new)
  BY LenProperties DEF next
<1>5. \A i \in Rows(rows) : rows[i].actorSeq \in Nat /\ i \in Recorded /\ i \in Instances
  BY <1>1, RowFacts
<1>6. Leaving(a, R) \subseteq RowsOf(rows, a) /\ Rerun(a, R) \subseteq Leaving(a, R)
  BY <1>1, RowFacts DEF Leaving, Rerun, RowsOf
<1>7. CountsAgree(rows', as)
  <2>1. Cardinality(RowsOf(rows', a)) = IF as[a].nextAdmitSeq < as[a].recordedCount
                                        THEN as[a].recordedCount ELSE as[a].nextAdmitSeq
    <3>1. as[a].recordedCount = C
      BY DEF C
    <3>2. CASE next >= C
      BY ONLY <1>3, <1>4, <1>17, <1>18, <3>1, <3>2
    <3>3. CASE ~(next >= C)
      <4>1. Len(new) = 0
        BY <3>3, EmptySeq DEF next, C
      <4>2. ~(next + Len(new) >= C) /\ K + Len(new) = C
        BY ONLY <1>3, <1>17, <1>18, <3>3, <4>1
      <4> QED BY ONLY <1>3, <1>4, <1>17, <3>1, <4>2
    <3> QED BY <3>2, <3>3
  <2>2. \A c \in Actors \ {a} :
            Cardinality(RowsOf(rows', c)) = IF as[c].nextAdmitSeq < as[c].recordedCount
                                            THEN as[c].recordedCount ELSE as[c].nextAdmitSeq
    BY <1>1, <1>3 DEF Placed, CountsAgree
  <2> QED BY <2>1, <2>2 DEF CountsAgree
<1>8. WaitingIsSound(rows', as)
  <2>1. \A i \in Recorded : rows'[i] = rows[i]
    BY <1>1, <1>3, RowFacts
  <2>2. CallsOf(rows', a, as[a].pendingRecorded, as[a].pendingLive)
    BY <2>1, ZenonT(30) DEF CallsOf
  <2>3. ASSUME NEW c \in Actors \ {a}
        PROVE  CallsOf(rows', c, as[c].pendingRecorded, as[c].pendingLive)
    <3>1. CallsOf(rows, c, actors[c].pendingRecorded, actors[c].pendingLive)
      BY <1>1 DEF Placed, WaitingIsSound
    <3>2. actors[c].pendingRecorded \subseteq Recorded
      BY <1>1 DEF RecordedCallsHaveRows
    <3>3. as[c] = actors[c]
      OBVIOUS
    <3> QED BY ONLY <2>1, <3>1, <3>2, <3>3 DEF CallsOf
  <2> QED BY <2>2, <2>3 DEF WaitingIsSound
<1>9. \A c \in Actors : \A i \in Admitted(actors, c) :
          /\ i \in Rows(rows) /\ i \in RowsOf(rows, c) /\ rows'[i] = rows[i]
          /\ rows[i].actorSeq < actors[c].nextAdmitSeq /\ i \in Elements(live)
  BY <1>1, <1>3 DEF Placed, AdmittedAreLive, IsMine, RowsOf
<1>10. Admitted(as, a) = Admitted(actors, a) \cup Rerun(a, R) \cup Names(new)
  BY DEF Admitted
<1>11. \A c \in Actors \ {a} : Admitted(as, c) = Admitted(actors, c)
  BY DEF Admitted
<1>12. \A i \in Rerun(a, R) : /\ i \in Rows(rows) /\ rows'[i] = rows[i] /\ N <= rows[i].actorSeq
                              /\ rows[i].actorSeq < next
  BY <1>2, <1>3, <1>6 DEF RowsOf
<1>13. QueuesInOrder(rows', as)
  <2>1. ASSUME actors[a].current # NoInst, NEW n \in DOMAIN q
        PROVE  rows'[actors[a].current].actorSeq < rows'[q[n]].actorSeq
    <3>1. /\ actors[a].current \in Rows(rows)
          /\ rows'[actors[a].current] = rows[actors[a].current]
          /\ rows[actors[a].current].actorSeq < N
          /\ rows[actors[a].current].actorSeq \in Nat
      BY <1>5, <1>9, <2>1 DEF Admitted, N
    <3>2. q[n] \in Elements(actors[a].liveQueue) \cup Rerun(a, R) \cup Names(new)
      BY DEF Elements
    <3>3. CASE q[n] \in Elements(actors[a].liveQueue)
      <4>1. PICK m \in DOMAIN actors[a].liveQueue : q[n] = actors[a].liveQueue[m]
        BY <3>3 DEF Elements
      <4>2. rows[actors[a].current].actorSeq < rows[q[n]].actorSeq
        BY <1>1, <2>1, <4>1 DEF Placed, QueuesInOrder, InOrder
      <4>3. rows'[q[n]] = rows[q[n]]
        BY <1>9, <3>3 DEF Admitted
      <4> QED BY <3>1, <4>2, <4>3
    <3>4. CASE q[n] \in Rerun(a, R)
      <4>1. rows'[q[n]] = rows[q[n]] /\ N <= rows[q[n]].actorSeq /\ rows[q[n]].actorSeq \in Nat
        BY <1>5, <1>12, <3>4
      <4> QED BY <1>2, <3>1, <4>1
    <3>5. CASE q[n] \in Names(new)
      <4>1. rows'[q[n]].actorSeq \in next..(next + Len(new) - 1)
        BY <1>3, <3>5
      <4> QED BY <1>2, <1>4, <3>1, <4>1, SMTT(20)
    <3> QED BY <3>2, <3>3, <3>4, <3>5
  <2>2. InOrder(rows', as, a)
    BY <2>1 DEF InOrder
  <2>3. ASSUME NEW c \in Actors \ {a} PROVE InOrder(rows', as, c)
    <3>1. InOrder(rows, actors, c)
      BY <1>1 DEF Placed, QueuesInOrder
    <3>2. \A n \in DOMAIN actors[c].liveQueue :
              rows'[actors[c].liveQueue[n]] = rows[actors[c].liveQueue[n]]
      BY <1>9 DEF Admitted, Elements
    <3>3. actors[c].current # NoInst => rows'[actors[c].current] = rows[actors[c].current]
      BY <1>9 DEF Admitted
    <3>4. as[c] = actors[c]
      OBVIOUS
    <3> QED BY ONLY <3>1, <3>2, <3>3, <3>4 DEF InOrder, Increasing
  <2> QED BY <2>2, <2>3 DEF QueuesInOrder
<1>14. AdmittedAreLive(rows', as, lv)
  <2> SUFFICES ASSUME NEW c \in Actors, NEW i \in Admitted(as, c)
               PROVE  IsMine(rows', as, lv, c, i)
    BY DEF AdmittedAreLive
  <2>1. CASE c # a
    BY <1>3, <1>9, <1>11, <2>1 DEF IsMine
  <2>2. CASE c = a /\ i \in Admitted(actors, a)
    <3>1. /\ rows'[i] = rows[i] /\ rows[i].actorSeq < N /\ rows[i].actorSeq \in Nat
          /\ i \in RowsOf(rows, a) /\ i \in Elements(live)
      BY <1>5, <1>9, <2>2 DEF N
    <3>2. rows'[i].actorSeq < as[a].nextAdmitSeq
      BY ONLY <1>4, <1>17, <3>1
    <3> QED BY <1>3, <2>2, <3>1, <3>2 DEF IsMine
  <2>3. CASE c = a /\ i \in Rerun(a, R)
    <3>1. rows'[i] = rows[i] /\ rows[i].actorSeq < next /\ rows[i].actorSeq \in Nat
      BY <1>5, <1>12, <2>3
    <3>2. rows'[i].actorSeq < as[a].nextAdmitSeq
      BY ONLY <1>4, <1>17, <3>1
    <3> QED BY <1>3, <1>6, <2>3, <3>2 DEF IsMine
  <2>4. CASE c = a /\ i \in Names(new)
    <3>1. rows'[i].actorSeq \in next..(next + Len(new) - 1)
      BY <1>3, <2>4
    <3>2. rows'[i].actorSeq < as[a].nextAdmitSeq
      BY ONLY <1>4, <1>17, <3>1
    <3> QED BY <1>3, <2>4, <3>2 DEF IsMine
  <2> QED BY <1>10, <2>1, <2>2, <2>3, <2>4
<1>15. ReachedArePlaced(rows', as)
  <2> SUFFICES ASSUME NEW c \in Actors, NEW i \in Reached(rows', as, c), rows'[i].status = "running"
               PROVE  i \in Admitted(as, c)
    BY DEF ReachedArePlaced
  <2>1. CASE c # a
    <3>1. i \in RowsOf(rows, c) /\ rows'[i] = rows[i] /\ rows[i].actorSeq < actors[c].nextAdmitSeq
      BY <1>3, <2>1 DEF Reached, RowsOf
    <3>2. i \in Reached(rows, actors, c) /\ rows[i].status = "running"
      BY <3>1 DEF Reached
    <3> QED BY <1>1, <1>11, <2>1, <3>2 DEF Placed, ReachedArePlaced
  <2>2. CASE c = a /\ i \in Names(new)
    BY <1>10, <2>2
  <2>3. CASE c = a /\ i \in RowsOf(rows, a)
    <3>1. /\ i \in Rows(rows) /\ rows'[i] = rows[i] /\ rows[i].actorSeq \in Nat
          /\ rows[i].actor = a /\ rows[i].actorSeq < next + Len(new)
      BY <1>3, <1>4, <1>5, <2>3 DEF Reached, RowsOf
    <3>2. CASE rows[i].actorSeq < N
      <4>1. i \in Reached(rows, actors, a)
        BY <2>3, <3>2 DEF Reached, N
      <4> QED BY <1>1, <1>10, <2>3, <3>1, <4>1 DEF Placed, ReachedArePlaced
    <3>3. CASE N <= rows[i].actorSeq /\ rows[i].actorSeq < next
      <4>1. rows[i].actorSeq \in N..(next - 1)
        BY <1>2, <3>1, <3>3
      <4>2. PICK j \in Leaving(a, R) : rows[j].actorSeq = rows[i].actorSeq
        BY <1>2, <4>1
      <4>3. j \in Rows(rows) /\ rows[j].actor = a
        BY <1>6, <4>2 DEF RowsOf
      <4>4. i = j
        BY <1>1, <3>1, <4>2, <4>3 DEF Numbered, NumbersDiffer
      <4>5. i \in Rerun(a, R)
        BY <3>1, <4>2, <4>4 DEF Rerun
      <4> QED BY <1>10, <2>3, <4>5
    <3>4. CASE next <= rows[i].actorSeq
      <4>1. rows[i].actorSeq < K
        BY <1>1, <3>1 DEF Numbered, NumbersAreDense, K
      <4>2. next >= C => FALSE
        BY <1>2, <1>3, <3>1, <3>4, <4>1
      <4>3. Len(new) = 0
        BY <1>2, <4>2, EmptySeq DEF next, C
      <4> QED BY <1>2, <3>1, <3>4, <4>3
    <3>5. \/ rows[i].actorSeq < N \/ next <= rows[i].actorSeq
          \/ N <= rows[i].actorSeq /\ rows[i].actorSeq < next
      BY ONLY <1>17, <3>1
    <3> QED BY <3>2, <3>3, <3>4, <3>5
  <2> QED BY <1>3, <2>1, <2>2, <2>3 DEF Reached
<1>16. StartedAreCurrent(rows', as, lv, started)
  <2> SUFFICES ASSUME NEW i \in started
               PROVE  \E c \in Actors : i \in Reached(rows', as, c)
                                        /\ (i \in Elements(lv) => as[c].current = i)
    BY DEF StartedAreCurrent
  <2>1. PICK c \in Actors : i \in Reached(rows, actors, c)
                            /\ (i \in Elements(live) => actors[c].current = i)
    BY <1>1 DEF Placed, StartedAreCurrent
  <2>2. /\ i \in Rows(rows) /\ i \in RowsOf(rows, c) /\ rows[i].actor = c /\ rows'[i] = rows[i]
        /\ rows[i].actorSeq \in Nat /\ rows[i].actorSeq < actors[c].nextAdmitSeq
    BY <1>3, <1>5, <2>1 DEF Reached, RowsOf
  <2>3. as[c].current = actors[c].current
    OBVIOUS
  <2>4. i \in Reached(rows', as, c)
    <3>1. CASE c = a
      <4>1. rows[i].actorSeq < N
        BY <2>2, <3>1 DEF N
      <4>2. rows'[i].actorSeq < as[a].nextAdmitSeq
        BY ONLY <1>4, <1>17, <2>2, <4>1
      <4> QED BY <1>3, <2>2, <3>1, <4>2 DEF Reached
    <3>2. CASE c # a
      BY <1>3, <2>2, <3>2 DEF Reached
    <3> QED BY <3>1, <3>2
  <2>5. i \notin Names(new)
    BY <1>3, <2>2
  <2>6. i \notin Rerun(a, R)
    <3>1. SUFFICES ASSUME i \in Rerun(a, R) PROVE FALSE
      OBVIOUS
    <3>2. c = a
      BY <1>6, <2>2, <3>1 DEF RowsOf
    <3>3. rows[i].actorSeq < N /\ N <= rows[i].actorSeq
      BY <1>12, <2>2, <3>1, <3>2 DEF N
    <3> QED BY <1>2, <2>2, <3>3
  <2> QED BY <2>1, <2>3, <2>4, <2>5, <2>6
<1> QED BY <1>7, <1>8, <1>13, <1>14, <1>15, <1>16 DEF Placed

\* The parts of one admission: the new calls that get their rows, those left waiting, the
\* instances admitted, and the subagents before the pump.
New(a, R, L)   == IF Behind(a, R) >= actors[a].recordedCount THEN L ELSE <<>>
Left(a, R, L)  == IF Behind(a, R) >= actors[a].recordedCount THEN <<>> ELSE L
SeqOf(a, R)    == [i \in Leaving(a, R) |-> rows[i].actorSeq]
Cached(a, R)   == Leaving(a, R) \ Rerun(a, R)
PassingNow(a, R)   == SortedBy({i \in Cached(a, R) : Passes(gate, i)}, SeqOf(a, R))
NewNames(a, R, L)  == [n \in DOMAIN New(a, R, L) |-> New(a, R, L)[n][1]]
RerunOrder(a, R)   == SortedBy(Rerun(a, R), SeqOf(a, R))
Batch(a, R, L)     == RerunOrder(a, R) \o NewNames(a, R, L)
AdmittedActor(a, R, L) ==
    [actors[a] EXCEPT !.nextAdmitSeq = Behind(a, R) + Len(New(a, R, L)),
                      !.pendingRecorded = R \ Leaving(a, R),
                      !.pendingLive = Left(a, R, L),
                      !.liveQueue = @ \o Batch(a, R, L)]
AdmittedActors(a, R, L) == [actors EXCEPT ![a] = AdmittedActor(a, R, L)]

\* An admission in terms of its parts.
AdmissionParts(a, R, L, box, pumped) ==
    /\ live' = live \o Batch(a, R, L)
    /\ gate' = Hold(gate, Cached(a, R))
    /\ events' = events \o CachedEvents(PassingNow(a, R))
    /\ inbox' = box \o CachedAnswers(PassingNow(a, R))
    /\ Pump(AdmittedActors(a, R, L), activeAsks, pumped, cap)
    /\ New(a, R, L) \in Seq(Instances \X Hashes)
    /\ \A n \in DOMAIN New(a, R, L) : /\ n \in DOMAIN L /\ New(a, R, L)[n] = L[n]
                                      /\ Behind(a, R) >= actors[a].recordedCount
    /\ \A m, n \in DOMAIN New(a, R, L) : New(a, R, L)[m][1] = New(a, R, L)[n][1] => m = n
    /\ WritesRows(a, New(a, R, L), Behind(a, R))

\* Admit of new calls that differ has them.
LEMMA AdmitParts ==
    ASSUME NEW a \in Actors, NEW R \in SUBSET Recorded, NEW L \in Seq(Instances \X Hashes),
           NEW box, NEW pumped, Admit(a, R, L, box, pumped),
           \A m, n \in DOMAIN L : L[m][1] = L[n][1] => m = n
    PROVE  AdmissionParts(a, R, L, box, pumped)
<1>1. /\ live' = live \o Batch(a, R, L)
      /\ gate' = Hold(gate, Cached(a, R))
      /\ events' = events \o CachedEvents(PassingNow(a, R))
      /\ inbox' = box \o CachedAnswers(PassingNow(a, R))
  BY Zenon DEF Admit, Leaving, Behind, New, SeqOf, Rerun, Cached, PassingNow, NewNames, RerunOrder, Batch
<1>2. Pump(AdmittedActors(a, R, L), activeAsks, pumped, cap)
  BY Zenon DEF Admit, Leaving, Behind, New, Left, SeqOf, Rerun, NewNames, RerunOrder, Batch,
               AdmittedActors, AdmittedActor
<1> DEFINE new  == New(a, R, L)
           next == Behind(a, R)
           NewRow(n) == [status |-> "running", actor |-> a, actorSeq |-> next + n - 1,
                         hash |-> new[n][2]]
<1>3. rows' = [i \in Instances |-> IF \E n \in DOMAIN new : new[n][1] = i
                                   THEN NewRow(CHOOSE n \in DOMAIN new : new[n][1] = i)
                                   ELSE rows[i]]
  BY Zenon DEF Admit, Leaving, Behind, New
<1>4. /\ new \in Seq(Instances \X Hashes)
      /\ \A n \in DOMAIN new : n \in DOMAIN L /\ new[n] = L[n] /\ next >= actors[a].recordedCount
  <2>1. CASE next >= actors[a].recordedCount
    BY <2>1 DEF New
  <2>2. CASE ~(next >= actors[a].recordedCount)
    <3>1. new = <<>> /\ DOMAIN <<>> = {} /\ <<>> \in Seq(Instances \X Hashes)
      BY <2>2, EmptySeq DEF New
    <3> QED BY <3>1
  <2> QED BY <2>1, <2>2
<1>5. \A m, n \in DOMAIN new : new[m][1] = new[n][1] => m = n
  BY <1>4
<1>6. \A n \in DOMAIN new : new[n][1] \in Instances
  <2> HIDE DEF new
  <2>1. \A n \in DOMAIN new : new[n] \in Instances \X Hashes
    BY <1>4, LenProperties, ElementOfSeq
  <2> QED BY <2>1
<1>7. WritesRows(a, new, next)
  <2> HIDE DEF new, next
  <2>1. ASSUME NEW n \in DOMAIN new PROVE rows'[new[n][1]] = NewRow(n)
    <3> DEFINE m == CHOOSE k \in DOMAIN new : new[k][1] = new[n][1]
    <3>1. m \in DOMAIN new /\ new[m][1] = new[n][1]
      OBVIOUS
    <3>2. m = n
      BY <1>5, <3>1
    <3>3. rows'[new[n][1]] = NewRow(m)
      BY <1>3, <1>6, Zenon
    <3> QED BY <3>2, <3>3
  <2>2. ASSUME NEW i \in Instances \ Names(new) PROVE rows'[i] = rows[i]
    <3>1. ~\E n \in DOMAIN new : new[n][1] = i
      BY DEF Names
    <3> QED BY <1>3, <3>1
  <2> QED BY <2>1, <2>2 DEF WritesRows
<1> QED BY <1>1, <1>2, <1>4, <1>5, <1>7 DEF AdmissionParts

\* The subagents as an admission hands them to the pump: only a's bookkeeping moved, and
\* its queue is the longer one.
HandedOver(a, R, L, as) ==
    /\ as \in [Actors -> Actor]
    /\ as[a].nextAdmitSeq = Behind(a, R) + Len(New(a, R, L))
    /\ as[a].recordedCount = actors[a].recordedCount
    /\ as[a].current = actors[a].current
    /\ as[a].liveQueue = actors[a].liveQueue \o Batch(a, R, L)
    /\ as[a].pendingLive = Left(a, R, L)
    /\ as[a].pendingRecorded = R \ Leaving(a, R)
    /\ \A c \in Actors \ {a} : as[c] = actors[c]

\* That is what the pump is given.
LEMMA AdmittedSubagents ==
    ASSUME NEW a \in Actors, NEW R \in SUBSET Recorded, NEW L \in Seq(Instances \X Hashes),
           actors \in [Actors -> Actor], New(a, R, L) \in Seq(Instances \X Hashes),
           Batch(a, R, L) \in Seq(Instances), Behind(a, R) \in Nat
    PROVE  HandedOver(a, R, L, AdmittedActors(a, R, L))
<1> DEFINE new  == New(a, R, L)
           q    == actors[a].liveQueue \o Batch(a, R, L)
           mine == AdmittedActor(a, R, L)
<1>1. actors[a] \in Actor /\ actors[a].liveQueue \in Seq(Instances)
  BY DEF Actor
<1>2. Behind(a, R) + Len(new) \in Nat
  BY LenProperties
<1>3. Left(a, R, L) \in Seq(Instances \X Hashes)
  BY EmptySeq DEF Left
<1>4. R \ Leaving(a, R) \in SUBSET Instances /\ q \in Seq(Instances)
  BY <1>1, ConcatProperties DEF Recorded
<1>5. mine = [actors[a] EXCEPT !.nextAdmitSeq = Behind(a, R) + Len(new),
                               !.pendingRecorded = R \ Leaving(a, R),
                               !.pendingLive = Left(a, R, L), !.liveQueue = q]
  BY DEF AdmittedActor
<1>6. AdmittedActors(a, R, L) = [actors EXCEPT ![a] = mine]
  BY DEF AdmittedActors
<1> HIDE DEF new, q, mine
<1>7. /\ mine \in Actor /\ mine.nextAdmitSeq = Behind(a, R) + Len(new)
      /\ mine.recordedCount = actors[a].recordedCount
      /\ mine.current = actors[a].current /\ mine.liveQueue = q
      /\ mine.pendingLive = Left(a, R, L) /\ mine.pendingRecorded = R \ Leaving(a, R)
  BY <1>1, <1>2, <1>3, <1>4, <1>5 DEF Actor
<1> DEFINE as == AdmittedActors(a, R, L)
<1>8. as = [actors EXCEPT ![a] = mine]
  BY <1>6
<1> HIDE DEF as
<1>9. as[a] = mine /\ as \in [Actors -> Actor] /\ \A c \in Actors \ {a} : as[c] = actors[c]
  BY <1>7, <1>8
<1> QED BY <1>7, <1>9 DEF HandedOver, as, new, q

\* A queue is a queue over what is in it.
LEMMA SeqOfElements ==
    ASSUME NEW S, NEW T, NEW s \in Seq(S), Elements(s) \subseteq T
    PROVE  s \in Seq(T)
<1>1. Len(s) \in Nat /\ DOMAIN s = 1..Len(s) /\ s = [n \in 1..Len(s) |-> s[n]]
  BY LenProperties
<1>2. \A n \in 1..Len(s) : s[n] \in T
  BY <1>1 DEF Elements
<1> DEFINE e(n) == s[n]
<1>3. \A n \in 1..Len(s) : e(n) \in T
  BY <1>2
<1> HIDE DEF e
<1>4. [n \in 1..Len(s) |-> e(n)] \in Seq(T)
  BY <1>1, <1>3, IsASeq
<1> QED BY <1>1, <1>4 DEF e

\* The instances of one admission: the asks to repeat by their numbers, then the new ones.
LEMMA BatchInOrder ==
    ASSUME OrderInv, Running, NEW a \in Actors, NEW R \in SUBSET Recorded,
           NEW L \in Seq(Instances \X Hashes), CallsOf(rows, a, R, L),
           \A n \in DOMAIN L : rows[L[n][1]] = NoRow,
           New(a, R, L) \in Seq(Instances \X Hashes),
           \A n \in DOMAIN New(a, R, L) : /\ n \in DOMAIN L /\ New(a, R, L)[n] = L[n]
                                          /\ Behind(a, R) >= actors[a].recordedCount,
           \A m, n \in DOMAIN New(a, R, L) : New(a, R, L)[m][1] = New(a, R, L)[n][1] => m = n,
           WritesRows(a, New(a, R, L), Behind(a, R)), TypeOK'
    PROVE  /\ Batch(a, R, L) \in Seq(Rows(rows')) /\ Batch(a, R, L) \in Seq(Instances)
           /\ Elements(Batch(a, R, L)) = Rerun(a, R) \cup Names(New(a, R, L))
           /\ Increasing(rows', Batch(a, R, L))
           /\ \A n \in DOMAIN Batch(a, R, L) :
                  actors[a].nextAdmitSeq <= rows'[Batch(a, R, L)[n]].actorSeq
           /\ \A n \in DOMAIN New(a, R, L) :
                  /\ rows[New(a, R, L)[n][1]] = NoRow /\ AskedOf(New(a, R, L)[n][2], a)
                  /\ Behind(a, R) = Cardinality(RowsOf(rows, a))
           /\ \A i \in Rows(rows) : i \in Rows(rows') /\ rows'[i] = rows[i]
           /\ \A i \in Rows(rows') : rows'[i].actorSeq \in Nat
<1> DEFINE new   == New(a, R, L)
           next  == Behind(a, R)
           N     == actors[a].nextAdmitSeq
           rerun == Rerun(a, R)
           seqOf == SeqOf(a, R)
           first == RerunOrder(a, R)
           rest  == NewNames(a, R, L)
<1>1. TypeOK /\ RecordedCallsHaveRows /\ Numbered(rows) /\ \A i \in R : rows[i].actor = a
  BY DEF OrderInv, IInv, CallsOf
<1>2. /\ IsFiniteSet(Leaving(a, R)) /\ next \in Nat
      /\ N \in Nat /\ N <= next
      /\ \A i \in Leaving(a, R) : N <= rows[i].actorSeq /\ rows[i].actorSeq < next
      /\ next >= actors[a].recordedCount => Cardinality(RowsOf(rows, a)) = next
  BY <1>1, LeavingNumbers
<1>3. \A n \in DOMAIN new : /\ rows[new[n][1]] = NoRow /\ AskedOf(new[n][2], a)
                            /\ next = Cardinality(RowsOf(rows, a))
  BY <1>2 DEF CallsOf
<1>4. \A i \in Leaving(a, R) : i \in Rows(rows) /\ rows[i].actor = a /\ rows[i].actorSeq \in Nat
  BY <1>1, RowFacts DEF Leaving
<1>5. /\ IsFiniteSet(rerun) /\ rerun \subseteq Leaving(a, R)
  BY <1>2, FS_Subset DEF Rerun
<1>6. first \in Seq(rerun) /\ (\A i \in rerun : \E n \in DOMAIN first : first[n] = i)
      /\ (\A n \in DOMAIN first : first[n] \in rerun)
      /\ (\A m, n \in DOMAIN first : m < n => seqOf[first[m]] < seqOf[first[n]])
  <2>1. \A i \in rerun : seqOf[i] \in Int
    BY <1>4, <1>5 DEF SeqOf
  <2>2. \A i, j \in rerun : seqOf[i] = seqOf[j] => i = j
    BY <1>1, <1>4, <1>5 DEF SeqOf, Numbered, NumbersDiffer
  <2>3. first = SortedBy(rerun, seqOf)
    BY DEF RerunOrder
  <2> HIDE DEF rerun, seqOf, first
  <2>4. Lists(first, rerun, seqOf)
    BY <1>5, <2>1, <2>2, <2>3, SortedByRank
  <2> QED BY <2>4 DEF Lists
<1> HIDE DEF new, next, N, rerun, first, rest
<1>7. /\ Rows(rows') = Rows(rows) \cup Names(new)
      /\ \A i \in Rows(rows) : rows'[i] = rows[i]
      /\ \A i \in Names(new) : rows'[i].actorSeq \in next..(next + Len(new) - 1)
  <2>1. /\ new \in Seq(Instances \X Hashes) /\ WritesRows(a, new, next)
        /\ \A m, n \in DOMAIN new : new[m][1] = new[n][1] => m = n
    BY DEF new, next
  <2> QED BY <1>2, <1>3, <2>1, NewRowsAreBehind
<1>8. Elements(first) = rerun /\ Increasing(rows', first) /\ first \in Seq(Rows(rows'))
      /\ \A n \in DOMAIN first : N <= rows'[first[n]].actorSeq /\ rows'[first[n]].actorSeq < next
  <2>1. \A i \in rerun : /\ seqOf[i] = rows[i].actorSeq /\ rows'[i] = rows[i]
                         /\ N <= rows[i].actorSeq /\ rows[i].actorSeq < next
                         /\ i \in Rows(rows')
    BY <1>2, <1>4, <1>5, <1>7 DEF SeqOf
  <2>2. Elements(first) = rerun
    BY <1>6 DEF Elements
  <2>3. first \in Seq(Rows(rows'))
    BY <1>6, <2>1, <2>2, SeqOfElements
  <2> HIDE DEF seqOf
  <2>4. Increasing(rows', first)
    BY <1>6, <2>1 DEF Increasing
  <2>5. \A n \in DOMAIN first : N <= rows'[first[n]].actorSeq /\ rows'[first[n]].actorSeq < next
    BY <1>6, <2>1
  <2> QED BY <2>2, <2>3, <2>4, <2>5
<1>9. /\ Len(new) \in Nat /\ DOMAIN new = 1..Len(new)
      /\ DOMAIN rest = DOMAIN new /\ \A n \in DOMAIN new : rest[n] = new[n][1]
      /\ rest \in Seq(Instances) /\ Elements(rest) = Names(new)
  <2>1. Len(new) \in Nat /\ DOMAIN new = 1..Len(new)
    BY LenProperties DEF new
  <2>2. DOMAIN rest = DOMAIN new /\ \A n \in DOMAIN new : rest[n] = new[n][1]
    BY DEF rest, NewNames, new
  <2>3. Elements(rest) = Names(new)
    BY <2>2 DEF Elements, Names
  <2> DEFINE e(n) == new[n][1]
  <2>4. \A n \in 1..Len(new) : e(n) \in Instances
    <3>1. \A n \in 1..Len(new) : new[n] \in Instances \X Hashes
      BY <2>1, ElementOfSeq DEF new
    <3> QED BY <3>1
  <2>5. rest = [n \in 1..Len(new) |-> e(n)]
    BY <2>1 DEF rest, NewNames, new
  <2> HIDE DEF e
  <2>6. rest \in Seq(Instances)
    BY <2>1, <2>4, <2>5, IsASeq
  <2> QED BY <2>1, <2>2, <2>3, <2>6
<1>10. /\ rest \in Seq(Rows(rows')) /\ Increasing(rows', rest)
       /\ \A n \in DOMAIN rest : next <= rows'[rest[n]].actorSeq
  <2>1. rest \in Seq(Rows(rows'))
    BY <1>7, <1>9, SeqOfElements
  <2>2. \A n \in DOMAIN new : rows'[rest[n]].actorSeq = next + n - 1
    <3> TAKE n \in DOMAIN new
    <3>1. rows'[rest[n]] = [status |-> "running", actor |-> a, actorSeq |-> next + n - 1,
                            hash |-> new[n][2]]
      BY <1>9 DEF WritesRows, new, next
    <3> QED BY <3>1
  <2>3. \A m, n \in DOMAIN new : m < n => next + m - 1 < next + n - 1
    BY <1>2, <1>9
  <2>4. \A n \in DOMAIN new : next <= next + n - 1
    BY <1>2, <1>9
  <2>5. Increasing(rows', rest)
    BY <1>9, <2>2, <2>3 DEF Increasing
  <2>6. \A n \in DOMAIN rest : next <= rows'[rest[n]].actorSeq
    BY <1>9, <2>2, <2>4
  <2> QED BY <2>1, <2>5, <2>6
<1>11. \A i \in Rows(rows') : rows'[i].actorSeq \in Nat
  <2>1. \A i \in Rows(rows') : i \in Instances /\ rows'[i] # NoRow
    BY DEF Rows
  <2>2. \A i \in Rows(rows') : rows'[i] \in Row
    BY <2>1 DEF TypeOK
  <2> QED BY <2>2 DEF Row
<1>12. Batch(a, R, L) = first \o rest
  BY DEF Batch, first, rest
<1>13. Elements(Batch(a, R, L)) = rerun \cup Names(new)
  BY <1>8, <1>9, <1>10, <1>12, ElementsOfConcat
<1>14. Batch(a, R, L) \in Seq(Rows(rows'))
  BY <1>8, <1>10, <1>12, ConcatProperties
<1>15. Batch(a, R, L) \in Seq(Instances)
  <2>1. Rows(rows') \subseteq Instances
    BY DEF Rows
  <2> QED BY <1>14, <2>1
<1>16. Increasing(rows', Batch(a, R, L))
  <2>1. next \in Int /\ \A i \in Rows(rows') : rows'[i].actorSeq \in Int
    BY <1>2, <1>11
  <2>2. \A n \in DOMAIN first : rows'[first[n]].actorSeq < next
    BY <1>8
  <2>3. /\ first \in Seq(Rows(rows')) /\ rest \in Seq(Rows(rows'))
        /\ Increasing(rows', first) /\ Increasing(rows', rest)
        /\ \A n \in DOMAIN rest : next <= rows'[rest[n]].actorSeq
    BY <1>8, <1>10
  <2>4. Increasing(rows', first \o rest)
    BY ONLY <2>1, <2>2, <2>3, IncreasingConcat
  <2> QED BY <1>12, <2>4
<1>17. \A n \in DOMAIN Batch(a, R, L) : N <= rows'[Batch(a, R, L)[n]].actorSeq
  <2>1. ASSUME NEW n \in DOMAIN rest PROVE N <= rows'[rest[n]].actorSeq
    <3>1. next <= rows'[rest[n]].actorSeq /\ rest[n] \in Rows(rows')
      BY <1>10, LenProperties, ElementOfSeq
    <3>2. rows'[rest[n]].actorSeq \in Nat
      BY <1>11, <3>1
    <3>3. N \in Nat /\ next \in Nat /\ N <= next
      BY <1>2
    <3> QED BY ONLY <3>1, <3>2, <3>3
  <2>2. \A i \in Elements(first) \cup Elements(rest) : N <= rows'[i].actorSeq
    BY <1>8, <2>1 DEF Elements
  <2>3. \A n \in DOMAIN Batch(a, R, L) : Batch(a, R, L)[n] \in Elements(Batch(a, R, L))
    BY DEF Elements
  <2> QED BY <1>8, <1>9, <1>13, <2>2, <2>3
<1>18. \A i \in Rows(rows) : i \in Rows(rows') /\ rows'[i] = rows[i]
  BY <1>7
<1> QED BY <1>3, <1>11, <1>13, <1>14, <1>15, <1>16, <1>17, <1>18 DEF new, next, rerun, N

\* An admission, with the pump that follows it, keeps the journal and the queues in order.
LEMMA AdmitOrder ==
    ASSUME OrderInv, IInv', Running, NEW a \in Actors, NEW R \in SUBSET Recorded,
           NEW L \in Seq(Instances \X Hashes), NEW box, NEW pumped \in SUBSET Actors,
           Admit(a, R, L, box, pumped), CallsOf(rows, a, R, L),
           \A n \in DOMAIN L : rows[L[n][1]] = NoRow,
           UNCHANGED <<up, runSettled, started, turns>>
    PROVE  OrderInv'
<1> DEFINE new  == New(a, R, L)
           as   == AdmittedActors(a, R, L)
           q    == actors[a].liveQueue \o Batch(a, R, L)
           N    == actors[a].nextAdmitSeq
<1>1. /\ TypeOK /\ TypeOK' /\ Placed(rows, actors, live, started) /\ TurnsAreStarted
      /\ \A i \in R : rows[i].actor = a
      /\ \A m, n \in DOMAIN L : L[m][1] = L[n][1] => m = n
  BY DEF OrderInv, IInv, CallsOf
<1>2. /\ actors \in [Actors -> Actor] /\ actors[a] \in Actor
      /\ actors[a].liveQueue \in Seq(Instances) /\ N \in Nat
      /\ live \in Seq(Instances) /\ started \in SUBSET Instances
  BY <1>1 DEF TypeOK, Actor
<1>3. /\ live' = live \o Batch(a, R, L)
      /\ Pump(as, activeAsks, pumped, cap)
      /\ new \in Seq(Instances \X Hashes)
      /\ \A n \in DOMAIN new : /\ n \in DOMAIN L /\ new[n] = L[n]
                               /\ Behind(a, R) >= actors[a].recordedCount
      /\ \A m, n \in DOMAIN new : new[m][1] = new[n][1] => m = n
      /\ WritesRows(a, new, Behind(a, R))
  <2>1. AdmissionParts(a, R, L, box, pumped)
    BY <1>1, AdmitParts
  <2> QED BY <2>1 DEF AdmissionParts
<1>4. /\ Batch(a, R, L) \in Seq(Rows(rows')) /\ Batch(a, R, L) \in Seq(Instances)
      /\ Elements(Batch(a, R, L)) = Rerun(a, R) \cup Names(new)
      /\ Increasing(rows', Batch(a, R, L))
      /\ \A n \in DOMAIN Batch(a, R, L) : N <= rows'[Batch(a, R, L)[n]].actorSeq
      /\ \A n \in DOMAIN new : /\ rows[new[n][1]] = NoRow /\ AskedOf(new[n][2], a)
                               /\ Behind(a, R) = Cardinality(RowsOf(rows, a))
      /\ \A i \in Rows(rows) : i \in Rows(rows') /\ rows'[i] = rows[i]
      /\ \A i \in Rows(rows') : rows'[i].actorSeq \in Nat
  BY <1>1, <1>3, BatchInOrder
<1>5. Behind(a, R) \in Nat /\ (~(Behind(a, R) >= actors[a].recordedCount) => new = <<>>)
  BY <1>1, LeavingNumbers DEF New
<1> HIDE DEF new, q, N, as
<1>6. \A n \in DOMAIN actors[a].liveQueue :
          /\ actors[a].liveQueue[n] \in Rows(rows)
          /\ rows[actors[a].liveQueue[n]].actorSeq < N
  BY <1>1 DEF Placed, AdmittedAreLive, IsMine, Admitted, Elements, RowsOf, N
<1>7. q \in Seq(Instances) /\ Elements(q) = Elements(actors[a].liveQueue) \cup Rerun(a, R) \cup Names(new)
  BY <1>2, <1>4, ElementsOfConcat, ConcatProperties DEF q
<1>8. Increasing(rows', q)
  <2>1. Elements(actors[a].liveQueue) \subseteq Rows(rows')
    BY <1>4, <1>6 DEF Elements
  <2>2. actors[a].liveQueue \in Seq(Rows(rows'))
    BY <1>2, <2>1, SeqOfElements
  <2>3. Increasing(rows', actors[a].liveQueue)
    <3>1. Increasing(rows, actors[a].liveQueue)
      BY <1>1 DEF Placed, QueuesInOrder, InOrder
    <3> QED BY <1>4, <1>6, <3>1 DEF Increasing
  <2>4. \A n \in DOMAIN actors[a].liveQueue : rows'[actors[a].liveQueue[n]].actorSeq < N
    BY <1>4, <1>6
  <2>5. N \in Int /\ \A i \in Rows(rows') : rows'[i].actorSeq \in Int
    BY <1>2, <1>4
  <2>6. /\ Batch(a, R, L) \in Seq(Rows(rows')) /\ Increasing(rows', Batch(a, R, L))
        /\ \A n \in DOMAIN Batch(a, R, L) : N <= rows'[Batch(a, R, L)[n]].actorSeq
    BY <1>4
  <2>7. Increasing(rows', actors[a].liveQueue \o Batch(a, R, L))
    BY ONLY <2>2, <2>3, <2>4, <2>5, <2>6, IncreasingConcat
  <2> QED BY <2>7 DEF q
<1>9. Elements(live') = Elements(live) \cup Rerun(a, R) \cup Names(new)
  BY <1>2, <1>3, <1>4, ElementsOfConcat
<1>10. /\ as \in [Actors -> Actor] /\ as[a].nextAdmitSeq = Behind(a, R) + Len(new)
       /\ as[a].recordedCount = actors[a].recordedCount
       /\ as[a].current = actors[a].current /\ as[a].liveQueue = q
       /\ as[a].pendingLive = Left(a, R, L) /\ as[a].pendingRecorded \subseteq R
       /\ \A c \in Actors \ {a} : as[c] = actors[c]
  <2>1. New(a, R, L) \in Seq(Instances \X Hashes)
    BY <1>3 DEF new
  <2>2. Batch(a, R, L) \in Seq(Instances) /\ Behind(a, R) \in Nat /\ actors \in [Actors -> Actor]
    BY <1>2, <1>4, <1>5
  <2>3. HandedOver(a, R, L, as)
    BY <2>1, <2>2, AdmittedSubagents DEF as
  <2> QED BY <2>3 DEF HandedOver, new, q
<1>11. CallsOf(rows, a, R, Left(a, R, L))
  <2>1. CASE Behind(a, R) >= actors[a].recordedCount
    <3>1. Left(a, R, L) = <<>> /\ DOMAIN <<>> = {}
      BY <2>1, EmptySeq DEF Left
    <3> QED BY <1>1, <3>1 DEF CallsOf
  <2>2. CASE ~(Behind(a, R) >= actors[a].recordedCount)
    BY <2>2 DEF Left
  <2> QED BY <2>1, <2>2
<1>12. Placed(rows', as, live', started)
  <2>1. /\ new \in Seq(Instances \X Hashes) /\ WritesRows(a, new, Behind(a, R))
        /\ \A m, n \in DOMAIN new : new[m][1] = new[n][1] => m = n
    BY <1>3
  <2>2. \A n \in DOMAIN new : /\ rows[new[n][1]] = NoRow /\ AskedOf(new[n][2], a)
                             /\ Behind(a, R) = Cardinality(RowsOf(rows, a))
    BY <1>4
  <2>3. ~(Behind(a, R) >= actors[a].recordedCount) => new = <<>>
    BY <1>5
  <2>4. /\ as[a].nextAdmitSeq = Behind(a, R) + Len(new)
        /\ as[a].recordedCount = actors[a].recordedCount
        /\ as[a].current = actors[a].current /\ as[a].liveQueue = q
        /\ as[a].pendingLive = Left(a, R, L) /\ as[a].pendingRecorded \subseteq R
        /\ \A c \in Actors \ {a} : as[c] = actors[c]
    BY <1>10
  <2>5. Elements(q) = Elements(actors[a].liveQueue) \cup Rerun(a, R) \cup Names(new)
    BY <1>7
  <2>6. OrderInv /\ Running /\ R \in SUBSET Recorded /\ a \in Actors
        /\ \A i \in R : rows[i].actor = a
    BY <1>1
  <2> QED BY ONLY <1>8, <1>9, <1>11, <2>1, <2>2, <2>3, <2>4, <2>5, <2>6, AdmittedPlaces, ZenonT(30)
<1>13. \A c \in Actors : SamePlaces(as, c)
  <2>1. as \in [Actors -> Actor] /\ Pump(as, activeAsks, pumped, cap) /\ pumped \in SUBSET Actors
    BY <1>3, <1>10
  <2> QED BY ONLY <2>1, PumpPlaces, Zenon
<1>14. Placed(rows', actors', live', started)
  BY <1>2, <1>12, <1>13, PlacesKept
<1>15. Numbered(rows)' /\ TranscriptOrder'
  BY <1>1, <1>3, <1>4, <1>5, NewRowsInOrder, ZenonT(30)
<1>16. TurnsAreStarted'
  BY <1>1, <1>9 DEF TurnsAreStarted
<1>17. Running'
  BY DEF Running
<1> QED BY <1>14, <1>15, <1>16, <1>17 DEF OrderInv
--------------------------------------------------------------------------------
(* The actions. *)

\* Settling the run takes every ask out of flight and leaves the rows alone.
LEMMA FinishOrder ==
    ASSUME OrderInv, IInv', Running, NEW st, NEW reason, NEW fail, NEW emit, NEW box,
           Finish(st, reason, fail, emit, box)
    PROVE  OrderInv'
<1>1. /\ UNCHANGED rows /\ live' = <<>> /\ turns' = turns \ Elements(live)
      /\ runSettled' = TRUE /\ up' = up
  BY DEF Finish
<1>2. turns' = {}
  BY <1>1 DEF OrderInv, TurnsAreStarted
<1>3. Numbered(rows)' /\ TranscriptOrder'
  BY <1>1, <1>2, JournalKept DEF OrderInv
<1>4. ~Running'
  BY <1>1 DEF Running
<1> QED BY <1>1, <1>2, <1>3, <1>4 DEF OrderInv, AtRest

\* A call of the script.
LEMMA AskOrder ==
    ASSUME OrderInv, IInv', Running, NEW b \in Branches, NEW n \in DOMAIN Prog[b],
           NEW o \in Outcomes \cup {"start"}, NEW box, Ask(b, n, o, box)
    PROVE  OrderInv'
<1> DEFINE site == Prog[b][n][1]
           a    == Prog[b][n][2]
           i    == <<site, ordinals[site] + 1>>
           hash == <<b, n, o>>
           A    == actors[a]
<1>1. site \in Sites /\ a \in Actors /\ n \in Nat
  <2>1. Prog[b] \in Seq(Sites \X Actors)
    BY ConstantsAssumption
  <2>2. n \in 1..Len(Prog[b]) /\ Len(Prog[b]) \in Nat /\ Prog[b][n] \in Sites \X Actors
    BY <2>1, LenProperties, ElementOfSeq
  <2> QED BY <2>2
<1>2. AskedOf(hash, a) /\ \A c : AskedOf(hash, c) => c = a
  BY DEF AskedOf
<1> HIDE DEF site, a
<1>3. TypeOK /\ NewCallsAreNew /\ RecordedCallsHaveRows /\ Numbered(rows)
      /\ Placed(rows, actors, live, started)
  BY DEF OrderInv, IInv
<1>4. ordinals[site] \in Nat /\ ordinals[site] < MaxOrdinal /\ MaxOrdinal \in Nat
  <2>1. ordinals[site] < MaxOrdinal
    BY DEF Ask, site
  <2>2. ordinals[site] \in 0..MaxOrdinal /\ MaxOrdinal \in Nat
    BY <1>1, <1>3, ConstantsAssumption DEF TypeOK
  <2> QED BY <2>1, <2>2
<1>5. i \in Instances /\ hash \in Hashes /\ i[1] = site /\ i[2] = ordinals[site] + 1
  BY <1>1, <1>4 DEF Instances, Hashes
<1>6. i \notin WaitingNew(actors, a)
  <2> SUFFICES ASSUME i \in WaitingNew(actors, a) PROVE FALSE
    OBVIOUS
  <2>1. i[2] <= ordinals[i[1]]
    BY <1>1, <1>3 DEF NewCallsAreNew
  <2> QED BY <1>4, <1>5, <2>1
<1>7. /\ A.pendingRecorded \in SUBSET Recorded /\ A.pendingLive \in Seq(Instances \X Hashes)
      /\ CallsOf(rows, a, A.pendingRecorded, A.pendingLive)
      /\ \A m \in DOMAIN A.pendingLive : rows[A.pendingLive[m][1]] = NoRow
  <2>1. A.pendingLive \in Seq(Instances \X Hashes)
    BY <1>1, <1>3 DEF TypeOK, Actor
  <2>2. A.pendingRecorded \in SUBSET Recorded
    BY <1>1, <1>3 DEF RecordedCallsHaveRows
  <2>3. CallsOf(rows, a, A.pendingRecorded, A.pendingLive)
    BY <1>1, <1>3 DEF Placed, WaitingIsSound
  <2>4. \A m \in DOMAIN A.pendingLive : A.pendingLive[m][1] \in WaitingNew(actors, a)
    BY DEF WaitingNew
  <2> QED BY <1>1, <1>3, <2>1, <2>2, <2>3, <2>4 DEF NewCallsAreNew
<1>8. \/ /\ rows[i] = NoRow
         /\ Admit(a, A.pendingRecorded, Append(A.pendingLive, <<i, hash>>), box, Actors)
         /\ UNCHANGED <<up, runSettled, started, turns>>
      \/ /\ rows[i] # NoRow /\ rows[i].hash = hash
         /\ Admit(a, A.pendingRecorded \cup {i}, A.pendingLive, box, {a})
         /\ UNCHANGED <<up, runSettled, started, turns>>
      \/ Finish("errored", "none", "InputHashMismatch", FALSE, box)
  BY DEF Ask, site, a
<1> HIDE DEF i, hash, A
<1>9. CASE /\ rows[i] = NoRow
           /\ Admit(a, A.pendingRecorded, Append(A.pendingLive, <<i, hash>>), box, Actors)
           /\ UNCHANGED <<up, runSettled, started, turns>>
  <2> DEFINE L == Append(A.pendingLive, <<i, hash>>)
             K == Len(A.pendingLive)
  <2>1. /\ L \in Seq(Instances \X Hashes)
        /\ DOMAIN L = 1..(K + 1) /\ DOMAIN A.pendingLive = 1..K /\ K \in Nat
        /\ \A m \in 1..K : L[m] = A.pendingLive[m]
        /\ L[K + 1] = <<i, hash>>
    BY <1>5, <1>7, AppendProperties, LenProperties
  <2>2. Admit(a, A.pendingRecorded, L, box, Actors)
    BY <1>9 DEF L
  <2> HIDE DEF L, K
  <2>3. \A m \in DOMAIN L : \/ m = K + 1 /\ L[m][1] = i /\ L[m][2] = hash
                            \/ m \in DOMAIN A.pendingLive /\ L[m] = A.pendingLive[m]
    BY <2>1
  <2>4. \A m \in DOMAIN A.pendingLive : A.pendingLive[m][1] # i
    BY <1>6 DEF WaitingNew, A
  <2>5. \A m \in DOMAIN L : rows[L[m][1]] = NoRow
    BY <1>7, <1>9, <2>3
  <2>6. CallsOf(rows, a, A.pendingRecorded, L)
    <3>1. \A m \in DOMAIN L : AskedOf(L[m][2], a)
      BY <1>2, <1>7, <2>3 DEF CallsOf
    <3>2. \A l, m \in DOMAIN L : L[l][1] = L[m][1] => l = m
      BY <1>7, <2>3, <2>4 DEF CallsOf
    <3> QED BY <1>7, <3>1, <3>2 DEF CallsOf
  <2>7. Actors \in SUBSET Actors
    OBVIOUS
  <2> QED BY <1>1, <1>7, <1>9, <2>1, <2>2, <2>5, <2>6, <2>7, AdmitOrder
<1>10. CASE /\ rows[i] # NoRow /\ rows[i].hash = hash
            /\ Admit(a, A.pendingRecorded \cup {i}, A.pendingLive, box, {a})
            /\ UNCHANGED <<up, runSettled, started, turns>>
  <2>1. i \in Recorded /\ i \in Rows(rows)
    BY <1>5, <1>10 DEF Recorded, Rows
  <2>2. rows[i].actor = a
    BY <1>2, <1>3, <1>10, <2>1 DEF Numbered, RowsNameTheirActor
  <2>3. CallsOf(rows, a, A.pendingRecorded \cup {i}, A.pendingLive)
    BY <1>7, <2>2 DEF CallsOf
  <2>4. A.pendingRecorded \cup {i} \in SUBSET Recorded /\ {a} \in SUBSET Actors
    BY <1>1, <1>7, <2>1
  <2> QED BY <1>1, <1>7, <1>10, <2>3, <2>4, AdmitOrder
<1>11. CASE Finish("errored", "none", "InputHashMismatch", FALSE, box)
  BY <1>11, FinishOrder
<1> QED BY <1>8, <1>9, <1>10, <1>11

\* A step that changes no row and starts no turn, and leaves every subagent what it has
\* admitted.
LEMMA KeptOrder ==
    ASSUME OrderInv, IInv', UNCHANGED <<rows, up, runSettled, live, started, turns>>,
           \A a \in Actors : SamePlaces(actors, a)
    PROVE  OrderInv'
<1>1. Numbered(rows)' /\ TranscriptOrder'
  BY JournalKept DEF OrderInv
<1>2. started \in SUBSET Instances
  BY DEF OrderInv, IInv, TypeOK
<1>3. Running' = Running
  BY DEF Running
<1>4. ASSUME Running PROVE Placed(rows, actors', live, started)
  BY <1>2, <1>4, PlacesKept DEF OrderInv
<1>5. Running' => Placed(rows', actors', live', started') /\ TurnsAreStarted'
  BY <1>3, <1>4 DEF OrderInv, TurnsAreStarted
<1>6. ~Running' => AtRest'
  BY <1>3 DEF OrderInv, AtRest
<1> QED BY <1>1, <1>5, <1>6 DEF OrderInv

\* A step that does not touch the subagents.
LEMMA SameActors ==
    ASSUME UNCHANGED actors, NEW a \in Actors
    PROVE  SamePlaces(actors, a)
BY DEF SamePlaces, Admitted, InOrder

\* A life that has admitted nothing, and knows how many rows there are.
LEMMA BlankPlaces ==
    ASSUME NEW rw, NEW count, NEW as, as = BlankActors(count),
           \A a \in Actors : count[a] = Cardinality(RowsOf(rw, a)) /\ count[a] \in Nat,
           \A a \in Actors : \A i \in RowsOf(rw, a) : rw[i].actorSeq \in Nat
    PROVE  Placed(rw, as, <<>>, {})
<1>1. \A a \in Actors : /\ as[a].recordedCount = count[a] /\ as[a].nextAdmitSeq = 0
                        /\ as[a].pendingRecorded = {} /\ as[a].pendingLive = <<>>
                        /\ as[a].liveQueue = <<>> /\ as[a].current = NoInst
  BY DEF BlankActors
<1>2. DOMAIN <<>> = {}
  BY EmptySeq
<1>3. CountsAgree(rw, as)
  <2> SUFFICES ASSUME NEW a \in Actors
               PROVE  Cardinality(RowsOf(rw, a)) = IF as[a].nextAdmitSeq < as[a].recordedCount
                                                   THEN as[a].recordedCount ELSE as[a].nextAdmitSeq
    BY DEF CountsAgree
  <2>1. /\ as[a].recordedCount = Cardinality(RowsOf(rw, a)) /\ as[a].nextAdmitSeq = 0
        /\ Cardinality(RowsOf(rw, a)) \in Nat
    BY <1>1
  <2> QED BY ONLY <2>1
<1>4. WaitingIsSound(rw, as)
  BY <1>1, <1>2 DEF WaitingIsSound, CallsOf
<1>5. QueuesInOrder(rw, as)
  BY <1>1, <1>2 DEF QueuesInOrder, InOrder, Increasing
<1>6. \A a \in Actors : Admitted(as, a) = {}
  BY <1>1, <1>2 DEF Admitted, Elements
<1>7. \A a \in Actors : Reached(rw, as, a) = {}
  <2> SUFFICES ASSUME NEW a \in Actors, NEW i \in Reached(rw, as, a) PROVE FALSE
    OBVIOUS
  <2>1. rw[i].actorSeq \in Nat /\ rw[i].actorSeq < 0
    BY <1>1 DEF Reached
  <2> QED BY <2>1
<1> QED BY <1>3, <1>4, <1>5, <1>6, <1>7
        DEF Placed, AdmittedAreLive, ReachedArePlaced, StartedAreCurrent

\* The first life: no row, nothing asked.
LEMMA InitOrder == Init => OrderInv
<1> SUFFICES ASSUME Init PROVE OrderInv
  OBVIOUS
<1>1. IInv /\ Running
  BY InitStep DEF Init, Running
<1>2. Rows(rows) = {} /\ \A a : RowsOf(rows, a) = {}
  BY DEF Init, Rows, RowsOf
<1>3. Recorded = {}
  BY <1>1, <1>2, RowFacts DEF IInv
<1>4. Numbered(rows) /\ TranscriptOrder
  BY <1>2, <1>3
     DEF Numbered, NumbersDiffer, NumbersAreDense, RowsNameTheirActor, TranscriptOrder
<1>5. Placed(rows, actors, <<>>, {})
  <2>1. \A a \in Actors : NothingRecorded[a] = Cardinality(RowsOf(rows, a)) /\ NothingRecorded[a] \in Nat
    BY <1>2, FS_EmptySet DEF NothingRecorded
  <2>2. actors = BlankActors(NothingRecorded)
    BY DEF Init
  <2> QED BY <1>2, <2>1, <2>2, BlankPlaces
<1>6. live = <<>> /\ started = {} /\ turns = {}
  BY DEF Init
<1> QED BY <1>1, <1>4, <1>5, <1>6 DEF OrderInv, TurnsAreStarted

\* What was put to the model and is still live is the ask in dispatch of some subagent.
LEMMA StartedPlace ==
    ASSUME OrderInv, NEW i \in started, i \in Elements(live)
    PROVE  Running /\ \E a \in Actors : i \in Reached(rows, actors, a) /\ actors[a].current = i
<1>1. DOMAIN <<>> = {}
  BY EmptySeq
<1>2. live # <<>>
  BY <1>1 DEF Elements
<1>3. Running
  BY <1>2 DEF OrderInv, AtRest
<1> QED BY <1>3 DEF OrderInv, Placed, StartedAreCurrent

\* The script's steps.
LEMMA ScriptOrder == ASSUME OrderInv, IInv', Script PROVE OrderInv'
<1>1. ASSUME NEW b \in Branches, StartBranch(b) PROVE OrderInv'
  <2>1. Running /\ Ask(b, 1, "start", inbox)
    BY <1>1 DEF StartBranch
  <2>2. 1 \in DOMAIN Prog[b]
    <3>1. Prog[b] \in Seq(Sites \X Actors) /\ Prog[b] # <<>>
      BY ConstantsAssumption
    <3>2. Len(Prog[b]) \in Nat /\ Len(Prog[b]) # 0 /\ DOMAIN Prog[b] = 1..Len(Prog[b])
      BY <3>1, LenProperties, EmptySeq
    <3> QED BY <3>2
  <2> QED BY <2>1, <2>2, AskOrder
<1>2. ASSUME NEW b \in Branches, Continue(b) PROVE OrderInv'
  <2> DEFINE o    == Head(inbox)[2]
             rest == Tail(inbox)
  <2>1. Running /\ o \in Outcomes
    <3>1. inbox # <<>> /\ inbox \in Seq(Instances \X Outcomes) /\ Running
      BY <1>2 DEF Continue, OrderInv, IInv, TypeOK
    <3>2. Head(inbox) \in Instances \X Outcomes
      BY <3>1, HeadTailProperties
    <3> QED BY <3>1, <3>2
  <2>2. \/ pc[b] < Len(Prog[b]) /\ pc[b] > 0 /\ Ask(b, pc[b] + 1, o, rest)
        \/ UNCHANGED <<rows, up, runSettled, actors, live, started, turns>>
        \/ Finish("errored", "none", "ScriptError", FALSE, rest)
    BY <1>2 DEF Continue, journalVars, askVars
  <2> HIDE DEF o, rest
  <2>3. CASE pc[b] < Len(Prog[b]) /\ pc[b] > 0 /\ Ask(b, pc[b] + 1, o, rest)
    <3>1. Prog[b] \in Seq(Sites \X Actors) /\ pc[b] \in Nat
      BY ConstantsAssumption DEF OrderInv, IInv, TypeOK
    <3>2. pc[b] + 1 \in DOMAIN Prog[b]
      BY <2>3, <3>1, LenProperties
    <3> QED BY <2>1, <2>3, <3>2, AskOrder
  <2>4. CASE UNCHANGED <<rows, up, runSettled, actors, live, started, turns>>
    BY <2>4, KeptOrder, SameActors
  <2>5. CASE Finish("errored", "none", "ScriptError", FALSE, rest)
    BY <2>1, <2>5, FinishOrder
  <2> QED BY <2>2, <2>3, <2>4, <2>5
<1>3. CASE ScriptReturns
  BY <1>3, FinishOrder DEF ScriptReturns
<1>4. CASE FlushReplay
  BY <1>4, KeptOrder, SameActors DEF FlushReplay, askVars
<1> QED BY <1>1, <1>2, <1>3, <1>4 DEF Script

\* The settlement of an ask that was put to the model.
LEMMA ReportOrder ==
    ASSUME OrderInv, IInv', NEW i \in started, i \in Elements(live), NEW o \in {"ok", "failed"},
           Settle(i, o), UNCHANGED <<up, runSettled, started>>
    PROVE  OrderInv'
BY StartedPlace, SettleOrder

\* The driver's steps: sessions, dispatch and reports.
LEMMA DriverOrder == ASSUME OrderInv, IInv', Driver PROVE OrderInv'
<1>1. ASSUME NEW a \in Actors, NEW s \in {"ready", "broken"}, SessionCreated(a, s)
      PROVE  OrderInv'
  <2> DEFINE opened == [actors[a] EXCEPT !.session = s]
  <2>1. actors \in [Actors -> Actor] /\ actors[a] \in Actor
    BY DEF OrderInv, IInv, TypeOK
  <2>2. /\ opened.pendingLive = actors[a].pendingLive
        /\ opened.pendingRecorded = actors[a].pendingRecorded
        /\ opened.nextAdmitSeq = actors[a].nextAdmitSeq
        /\ opened.recordedCount = actors[a].recordedCount
        /\ opened.liveQueue = actors[a].liveQueue /\ opened.current = actors[a].current
    BY <2>1 DEF Actor
  <2>3. actors' = [actors EXCEPT ![a] = opened]
    BY <1>1 DEF SessionCreated
  <2> HIDE DEF opened
  <2>4. \A c \in Actors : SamePlaces(actors, c)
    BY <2>1, <2>2, <2>3 DEF SamePlaces, Admitted, InOrder
  <2> QED BY <1>1, <2>4, KeptOrder DEF SessionCreated, journalVars
<1>2. ASSUME NEW a \in Actors, Dispatching(a)
      PROVE  /\ Running /\ actors[a].current \in Instances /\ actors[a].current \in Elements(live)
             /\ actors[a].current \in Reached(rows, actors, a)
  <2>1. /\ Running /\ actors[a].current \in Instances /\ actors[a].current \in Elements(live)
    BY <1>2, ElementsOfSeq DEF Dispatching, OrderInv, IInv, TypeOK
  <2>2. actors[a].current \in Admitted(actors, a)
    BY <2>1, NoInstIsNone DEF Admitted
  <2> QED BY <2>1, <2>2 DEF OrderInv, Placed, AdmittedAreLive, IsMine, Reached
<1>3. ASSUME NEW a \in Actors, Dispatch(a) PROVE OrderInv'
  <2> DEFINE i == actors[a].current
  <2>1. /\ Running /\ i \in Instances /\ i \in Elements(live) /\ i \in Reached(rows, actors, a)
    BY <1>2, <1>3 DEF Dispatch
  <2>2. /\ started' = started \cup {i} /\ turns' = turns \cup {i}
        /\ UNCHANGED <<rows, up, runSettled, actors, live>>
    BY <1>3 DEF Dispatch, journalVars
  <2> HIDE DEF i
  <2>3. TypeOK /\ Numbered(rows) /\ TranscriptOrder /\ Placed(rows, actors, live, started)
        /\ TurnsAreStarted
    BY <2>1 DEF OrderInv, IInv
  <2>4. Recorded' = Recorded /\ Terminal' = Terminal /\ Running'
    BY <2>1, <2>2 DEF Recorded, Terminal, Running
  <2>5. i \in Recorded /\ rows[i].actor = a
    BY <2>1, <2>3, RowFacts DEF Reached, RowsOf
  <2>6. TranscriptOrder'
    <3> SUFFICES ASSUME NEW k \in Recorded, NEW j \in Recorded,
                        rows[k].actor = rows[j].actor, rows[k].actorSeq < rows[j].actorSeq,
                        j \in Terminal \/ j \in turns'
                 PROVE  k \in Terminal
      BY <2>2, <2>4 DEF TranscriptOrder
    <3>1. CASE j \in Terminal \/ j \in turns
      BY <2>3, <3>1 DEF TranscriptOrder
    <3>2. CASE j = i
      BY <2>1, <2>5, <3>2, CurrentIsNext DEF i
    <3> QED BY <2>2, <3>1, <3>2
  <2>7. StartedAreCurrent(rows', actors', live', started')
    <3> SUFFICES ASSUME NEW j \in started \cup {i}
                 PROVE  \E c \in Actors : j \in Reached(rows, actors, c)
                                          /\ (j \in Elements(live) => actors[c].current = j)
      BY <2>2 DEF StartedAreCurrent, Reached
    <3>1. CASE j \in started
      BY <2>3, <3>1 DEF Placed, StartedAreCurrent
    <3>2. CASE j = i
      BY <2>1, <3>2 DEF i
    <3> QED BY <3>1, <3>2
  <2>8. Placed(rows', actors', live', started')
    BY <2>2, <2>3, <2>7 DEF Placed
  <2>9. TurnsAreStarted'
    BY <2>1, <2>2, <2>3 DEF TurnsAreStarted
  <2>10. Numbered(rows)'
    BY <2>2, <2>3
  <2> QED BY <2>4, <2>6, <2>8, <2>9, <2>10 DEF OrderInv
<1>4. ASSUME NEW a \in Actors, DispatchFails(a) PROVE OrderInv'
  <2>1. /\ Running /\ actors[a].current \in Elements(live)
        /\ actors[a].current \in Reached(rows, actors, a)
    BY <1>2, <1>4 DEF DispatchFails
  <2>2. Settle(actors[a].current, "failed") /\ UNCHANGED <<up, runSettled, started>>
    BY <1>4 DEF DispatchFails
  <2> QED BY <2>1, <2>2, SettleOrder
<1>5. ASSUME NEW i \in started, Reported(i), EngineUnchanged,
             \/ Settle(i, "ok") \/ Settle(i, "failed")
             \/ UNCHANGED <<rows, events, actors, live, activeAsks, inbox, turns>>
      PROVE  OrderInv'
  <2>1. i \in Elements(live) /\ UNCHANGED <<up, runSettled, started>>
    BY <1>5 DEF Reported, EngineUnchanged
  <2>2. CASE Settle(i, "ok") \/ Settle(i, "failed")
    BY <2>1, <2>2, ReportOrder
  <2>3. CASE UNCHANGED <<rows, events, actors, live, activeAsks, inbox, turns>>
    BY <2>1, <2>3, KeptOrder, SameActors
  <2> QED BY <1>5, <2>2, <2>3
<1>6. ASSUME NEW i \in started,
             SubmitAccepted(i) \/ SubmitRejected(i) \/ TurnEnded(i) \/ AskFailed(i)
      PROVE  OrderInv'
  BY <1>5, <1>6 DEF SubmitAccepted, SubmitRejected, TurnEnded, AskFailed
<1> QED BY <1>1, <1>3, <1>4, <1>6 DEF Driver

\* A step that ends the life: the journal is what it was, or has one answer more.
LEMMA RestOrder ==
    ASSUME IInv', Numbered(rows)', TranscriptOrder', live' = <<>>, turns' = {}, ~Running'
    PROVE  OrderInv'
BY DEF OrderInv, AtRest

\* The host's steps: stops, retunes, crashes, reconciliation and resume.
LEMMA HostOrder == ASSUME OrderInv, IInv', Host PROVE OrderInv'
<1>1. ASSUME NEW r \in StopReasons, Stop(r) PROVE OrderInv'
  BY <1>1, FinishOrder DEF Stop
<1>2. ASSUME NEW n \in CapChoices, SetMaxConcurrency(n) PROVE OrderInv'
  <2>1. actors \in [Actors -> Actor] /\ Actors \in SUBSET Actors
    BY DEF OrderInv, IInv, TypeOK
  <2>2. \/ Pump(actors, activeAsks, Actors, n)
        \/ UNCHANGED <<actors, activeAsks>>
    BY <1>2 DEF SetMaxConcurrency, Rescan
  <2>3. \A a \in Actors : SamePlaces(actors, a)
    BY <2>1, <2>2, PumpPlaces, SameActors
  <2> QED BY <1>2, <2>3, KeptOrder DEF SetMaxConcurrency
<1>3. CASE Crash
  <2>1. UNCHANGED rows /\ live' = <<>> /\ turns' = {} /\ up' = FALSE
    BY <1>3, Zenon DEF Crash, BlankLife, journalVars
  <2>2. Numbered(rows)' /\ TranscriptOrder'
    BY <2>1, JournalKept DEF OrderInv
  <2> QED BY <2>1, <2>2, RestOrder DEF Running
<1>4. ASSUME NEW i \in started, NEW o \in {"ok", "failed"}, CrashInSettle(i, o)
      PROVE  OrderInv'
  <2>1. /\ rows' = [rows EXCEPT ![i].status = RowStatus[o]]
        /\ live' = <<>> /\ turns' = {} /\ up' = FALSE
    BY <1>4, Zenon DEF CrashInSettle, BlankLife
  <2>2. i \in Elements(live)
    BY <1>4 DEF CrashInSettle, Reported
  <2>3. PICK a \in Actors : i \in Reached(rows, actors, a) /\ actors[a].current = i
    BY <2>2, StartedPlace
  <2>4. Running
    BY <2>2, StartedPlace
  <2>5. Numbered(rows)' /\ TranscriptOrder'
    BY <2>1, <2>3, <2>4, SettledInOrder
  <2> QED BY <2>1, <2>5, RestOrder DEF Running
<1>5. CASE Reconcile
  BY <1>5, KeptOrder, SameActors DEF Reconcile, askVars
<1>6. CASE Resume
  <2>1. /\ UNCHANGED rows /\ up' = TRUE /\ runSettled' = FALSE
        /\ actors' = BlankActors(RecordedAsks) /\ live' = <<>> /\ started' = {} /\ turns' = {}
    BY <1>6, Zenon DEF Resume, BlankLife
  <2>2. TypeOK
    BY DEF OrderInv, IInv
  <2>3. \A a \in Actors : RecordedAsks[a] = Cardinality(RowsOf(rows, a)) /\ RecordedAsks[a] \in Nat
    <3> SUFFICES ASSUME NEW a \in Actors
                 PROVE  RecordedAsks[a] = Cardinality(RowsOf(rows, a)) /\ RecordedAsks[a] \in Nat
      OBVIOUS
    <3>1. RowsOf(rows, a) = {i \in Recorded : rows[i].actor = a}
      BY <2>2, RowFacts DEF RowsOf
    <3> QED BY <3>1, RecordedAsksType DEF RecordedAsks
  <2>4. \A a \in Actors : \A i \in RowsOf(rows, a) : rows[i].actorSeq \in Nat
    BY <2>2, RowFacts DEF RowsOf
  <2>5. Placed(rows, actors', <<>>, {})
    BY <2>1, <2>3, <2>4, BlankPlaces
  <2>6. Numbered(rows)' /\ TranscriptOrder'
    BY <2>1, JournalKept DEF OrderInv
  <2>7. Running' /\ TurnsAreStarted'
    BY <2>1 DEF Running, TurnsAreStarted
  <2> QED BY <2>1, <2>5, <2>6, <2>7 DEF OrderInv
<1> QED BY <1>1, <1>2, <1>3, <1>4, <1>5, <1>6 DEF Host

\* The invariant is inductive.
LEMMA OrderStep == ASSUME OrderInv, [Next]_vars PROVE OrderInv'
<1>1. IInv'
  BY NextStep DEF OrderInv, StepKeeps
<1>2. CASE UNCHANGED vars
  BY <1>1, <1>2, KeptOrder, SameActors DEF vars
<1> QED BY <1>1, <1>2, ScriptOrder, DriverOrder, HostOrder DEF Next, Over

--------------------------------------------------------------------------------
(* The theorems. *)

\* The strengthened invariant: a subagent's rows are numbered 0, 1, 2, ... without a gap,
\* whatever lives wrote them; of the rows this life has reached those without an answer
\* are in dispatch or queued, in the order of their numbers; and what was put to the model
\* and has no answer is the one ask in dispatch.
THEOREM OrderInvariant == Spec => []OrderInv
BY InitOrder, OrderStep, PTL DEF Spec

\* The hold rule (scheduler-submit.ts, drainAdmission): on one subagent an ask is put to
\* the model, or is settled, only after every ask with a smaller actorSeq has settled,
\* whatever crashes, torn settlements, stops, retunes and resumes lie between them.
THEOREM TranscriptsInOrder == Spec => []TranscriptOrder
<1>1. OrderInv => TranscriptOrder
  BY DEF OrderInv
<1> QED BY OrderInvariant, <1>1, PTL

\* No turn goes on for an ask that was given up (engine-settlement.ts): what the model is
\* working on is live in the engine, in every state of every life.
THEOREM NoStrayTurns == Spec => []TurnsBelongToLiveAsks
<1>1. OrderInv => TurnsBelongToLiveAsks
  BY DEF OrderInv, AtRest, TurnsAreStarted, TurnsBelongToLiveAsks
<1> QED BY OrderInvariant, <1>1, PTL
--------------------------------------------------------------------------------
(* The event log. *)

\* A log in which each run-settled is followed by a run-started: the log of a run that is
\* under way.  One that ends its last life may have run-settled at its end.
OpenLog(e)  == \A n \in DOMAIN e : e[n].type = "run-settled" =>
                   n + 1 \in DOMAIN e /\ e[n + 1].type = "run-started"
EndedLog(e) == \A n \in DOMAIN e : e[n].type = "run-settled" /\ n < Len(e) =>
                   e[n + 1].type = "run-started"
\* Events that end no life.
NoEnd(t)    == \A n \in DOMAIN t : t[n].type # "run-settled"

LogInv ==
    /\ OrderInv
    /\ EndedLog(events)
    /\ Running => OpenLog(events)
    /\ up /\ runSettled => gate.queue = <<>>

\* An open log is an ended one.
LEMMA OpenIsEnded == ASSUME NEW e, OpenLog(e) PROVE EndedLog(e)
BY DEF OpenLog, EndedLog

\* Nothing but the end of a life closes a log.
LEMMA LogGrows ==
    ASSUME NEW S, NEW e \in Seq(S), NEW t \in Seq(S), OpenLog(e), NoEnd(t)
    PROVE  OpenLog(e \o t)
<1>1. /\ Len(e) \in Nat /\ Len(t) \in Nat
      /\ DOMAIN e = 1..Len(e) /\ DOMAIN t = 1..Len(t)
      /\ DOMAIN (e \o t) = 1..(Len(e) + Len(t))
  BY LenProperties, ConcatProperties
<1>2. \A n \in 1..(Len(e) + Len(t)) : (e \o t)[n] = IF n <= Len(e) THEN e[n] ELSE t[n - Len(e)]
  BY ConcatProperties
<1>3. SUFFICES ASSUME NEW n \in 1..(Len(e) + Len(t)), (e \o t)[n].type = "run-settled"
               PROVE  /\ n + 1 \in 1..(Len(e) + Len(t))
                      /\ (e \o t)[n + 1].type = "run-started"
  BY <1>1 DEF OpenLog
<1>4. n <= Len(e)
  <2>1. SUFFICES ASSUME ~(n <= Len(e)) PROVE FALSE
    OBVIOUS
  <2>2. n - Len(e) \in DOMAIN t /\ (e \o t)[n] = t[n - Len(e)]
    BY <1>1, <1>2, <2>1
  <2> QED BY <1>3, <2>2 DEF NoEnd
<1>5. n \in DOMAIN e /\ (e \o t)[n] = e[n]
  BY <1>1, <1>2, <1>4
<1>6. n + 1 \in DOMAIN e /\ e[n + 1].type = "run-started"
  BY <1>3, <1>5 DEF OpenLog
<1>7. n + 1 \in 1..(Len(e) + Len(t)) /\ n + 1 <= Len(e)
  BY <1>1, <1>6
<1>8. (e \o t)[n + 1] = e[n + 1]
  BY <1>2, <1>7
<1> QED BY <1>6, <1>7, <1>8

\* The end of a life ends the log.
LEMMA LogEnds ==
    ASSUME NEW S, NEW e \in Seq(S), NEW x \in S, OpenLog(e)
    PROVE  EndedLog(e \o <<x>>)
<1>1. /\ Len(e) \in Nat /\ <<x>> \in Seq(S) /\ Len(<<x>>) = 1
      /\ DOMAIN e = 1..Len(e)
  BY LenProperties
<1>2. /\ DOMAIN (e \o <<x>>) = 1..(Len(e) + 1) /\ Len(e \o <<x>>) = Len(e) + 1
      /\ \A n \in 1..Len(e) : (e \o <<x>>)[n] = e[n]
  BY <1>1, ConcatProperties, LenProperties
<1>3. SUFFICES ASSUME NEW n \in 1..(Len(e) + 1), (e \o <<x>>)[n].type = "run-settled", n < Len(e) + 1
               PROVE  (e \o <<x>>)[n + 1].type = "run-started"
  BY <1>2 DEF EndedLog
<1>4. n \in DOMAIN e /\ (e \o <<x>>)[n] = e[n]
  BY <1>1, <1>2, <1>3
<1>5. n + 1 \in DOMAIN e /\ e[n + 1].type = "run-started"
  BY <1>3, <1>4 DEF OpenLog
<1> QED BY <1>1, <1>2, <1>5

\* The start of a life opens the log of the ones before it again.
LEMMA LogReopens ==
    ASSUME NEW e \in Seq(Event), EndedLog(e)
    PROVE  OpenLog(Append(e, RunStarted))
<1>1. /\ Len(e) \in Nat /\ DOMAIN e = 1..Len(e) /\ RunStarted \in Event
      /\ RunStarted.type = "run-started"
  BY LenProperties DEF RunStarted, Event
<1> DEFINE f == Append(e, RunStarted)
<1>2. /\ DOMAIN f = 1..(Len(e) + 1) /\ f[Len(e) + 1] = RunStarted
      /\ \A n \in 1..Len(e) : f[n] = e[n]
  BY <1>1, AppendProperties, LenProperties
<1> HIDE DEF f
<1>3. SUFFICES ASSUME NEW n \in 1..(Len(e) + 1), f[n].type = "run-settled"
               PROVE  n + 1 \in 1..(Len(e) + 1) /\ f[n + 1].type = "run-started"
  BY <1>2 DEF OpenLog, f
<1>4. n # Len(e) + 1
  BY <1>1, <1>2, <1>3
<1>5. n \in 1..Len(e) /\ f[n] = e[n]
  BY <1>1, <1>2, <1>4
<1>6. CASE n < Len(e)
  <2>1. n + 1 \in 1..Len(e) /\ n + 1 \in 1..(Len(e) + 1)
    BY <1>1, <1>5, <1>6
  <2>2. e[n + 1].type = "run-started" /\ f[n + 1] = e[n + 1]
    BY <1>1, <1>2, <1>3, <1>5, <1>6, <2>1 DEF EndedLog
  <2> QED BY <2>1, <2>2
<1>7. CASE n = Len(e)
  BY <1>1, <1>2, <1>7
<1>8. n < Len(e) \/ n = Len(e)
  <2>1. Len(e) \in Nat /\ n \in 1..Len(e)
    BY <1>1, <1>5
  <2> HIDE <1>1
  <2> QED BY ONLY <2>1
<1> QED BY <1>6, <1>7, <1>8

\* Cached settlements end no life.
LEMMA CachedEndNone ==
    ASSUME NEW ks \in Seq(Terminal)
    PROVE  NoEnd(CachedEvents(ks))
BY LenProperties DEF NoEnd, CachedEvents, NodeSettled

\* What an admission answers from the journal has its answer there.
LEMMA PassingNowType ==
    ASSUME NEW a \in Actors, NEW R \in SUBSET Recorded
    PROVE  PassingNow(a, R) \in Seq(Terminal)
<1> DEFINE passing == {i \in Cached(a, R) : Passes(gate, i)}
<1>1. passing \subseteq Terminal /\ Terminal \subseteq Instances
  BY DEF Cached, Rerun, Leaving, Terminal, Recorded
<1> HIDE DEF passing
<1>2. IsFiniteSet(passing)
  BY <1>1, InstancesFinite, FS_Subset
<1>3. SortedBy(passing, SeqOf(a, R)) \in Seq(passing)
  BY <1>2, SortedByType
<1>4. PassingNow(a, R) = SortedBy(passing, SeqOf(a, R))
  BY DEF PassingNow, passing
<1> QED BY <1>1, <1>3, <1>4

\* The events of one admission.
LEMMA AdmitLog ==
    ASSUME LogInv, Running, NEW a \in Actors, NEW R \in SUBSET Recorded, NEW L, NEW box, NEW pumped,
           Admit(a, R, L, box, pumped)
    PROVE  OpenLog(events')
<1>1. events' = events \o CachedEvents(PassingNow(a, R))
  BY Zenon DEF Admit, Leaving, SeqOf, Rerun, Cached, PassingNow
<1>2. events \in Seq(Event) /\ OpenLog(events) /\ TypeOK
  BY DEF LogInv, OrderInv, IInv, TypeOK
<1>3. PassingNow(a, R) \in Seq(Terminal)
  BY PassingNowType
<1>4. /\ CachedEvents(PassingNow(a, R)) \in Seq(Event)
      /\ NoEnd(CachedEvents(PassingNow(a, R)))
  BY <1>2, <1>3, CachedTypes, CachedEndNone
<1> QED BY <1>1, <1>2, <1>4, LogGrows

\* The events of one settlement.
LEMMA SettleLog ==
    ASSUME LogInv, Running, NEW i \in Instances, NEW o \in Outcomes, Settle(i, o)
    PROVE  OpenLog(events')
<1> DEFINE x == NodeSettled(i, o, FALSE)
<1>1. events' = Append(events, x)
  BY DEF Settle
<1>2. x \in Event /\ x.type = "node-settled"
  BY DEF NodeSettled, Event
<1> HIDE DEF x
<1>3. events \in Seq(Event) /\ OpenLog(events)
  BY DEF LogInv, OrderInv, IInv, TypeOK
<1>4. <<x>> \in Seq(Event) /\ NoEnd(<<x>>)
  BY <1>2 DEF NoEnd
<1>5. events' = events \o <<x>>
  BY <1>1, <1>2, <1>3, AppendIsConcat
<1> QED BY <1>3, <1>4, <1>5, LogGrows

\* The events that end a life.
LEMMA FinishLog ==
    ASSUME LogInv, Running, NEW st \in RunStatuses, NEW reason, NEW fail, NEW emit, NEW box,
           Finish(st, reason, fail, emit, box)
    PROVE  EndedLog(events') /\ ~Running' /\ gate'.queue = <<>>
<1> DEFINE freed   == Remaining(gate)
           dropped == IF emit THEN [n \in DOMAIN live |-> NodeSettled(live[n], "cancelled", FALSE)]
                              ELSE <<>>
           x       == RunSettledEvent(st)
<1>1. /\ events' = events \o CachedEvents(freed) \o dropped \o <<x>>
      /\ runSettled' = TRUE /\ gate' = Opened(gate)
  BY DEF Finish
<1>2. /\ TypeOK /\ GateHoldsSettled /\ events \in Seq(Event) /\ OpenLog(events)
      /\ live \in Seq(Instances)
  BY DEF LogInv, OrderInv, IInv, TypeOK
<1>3. freed \in Seq(Terminal)
  <2>1. IsFiniteSet(Terminal)
    BY InstancesFinite, FS_Subset DEF Terminal, Recorded
  <2> QED BY <1>2, <2>1, RemainingType DEF GateHoldsSettled
<1> HIDE DEF freed
<1>4. CachedEvents(freed) \in Seq(Event) /\ NoEnd(CachedEvents(freed))
  BY <1>2, <1>3, CachedTypes, CachedEndNone
<1>5. dropped \in Seq(Event) /\ NoEnd(dropped)
  <2> DEFINE e(n) == NodeSettled(live[n], "cancelled", FALSE)
  <2>1. /\ DOMAIN live = 1..Len(live) /\ Len(live) \in Nat
        /\ \A n \in 1..Len(live) : live[n] \in Instances
    BY <1>2, LenProperties, ElementOfSeq
  <2>2. \A n \in 1..Len(live) : e(n) \in Event /\ e(n).type = "node-settled"
    BY <2>1 DEF NodeSettled, Event, Outcomes
  <2>3. dropped = [n \in 1..Len(live) |-> e(n)] \/ dropped = <<>>
    BY <2>1
  <2> HIDE DEF e, dropped
  <2>4. [n \in 1..Len(live) |-> e(n)] \in Seq(Event) /\ NoEnd([n \in 1..Len(live) |-> e(n)])
    BY <2>1, <2>2, IsASeq DEF NoEnd
  <2>5. <<>> \in Seq(Event) /\ NoEnd(<<>>)
    BY EmptySeq DEF NoEnd
  <2> QED BY <2>3, <2>4, <2>5
<1>6. x \in Event
  BY DEF RunSettledEvent, Event
<1> HIDE DEF dropped, x
<1>7. OpenLog(events \o CachedEvents(freed)) /\ events \o CachedEvents(freed) \in Seq(Event)
  BY <1>2, <1>4, LogGrows, ConcatProperties
<1>8. /\ OpenLog(events \o CachedEvents(freed) \o dropped)
      /\ events \o CachedEvents(freed) \o dropped \in Seq(Event)
  BY <1>5, <1>7, LogGrows, ConcatProperties
<1>9. EndedLog(events')
  BY <1>1, <1>6, <1>8, LogEnds
<1> QED BY <1>1, <1>9 DEF Running, Opened

\* A call of the script.
LEMMA AskLog ==
    ASSUME LogInv, OrderInv', Running, NEW b \in Branches, NEW n \in DOMAIN Prog[b],
           NEW o \in Outcomes \cup {"start"}, NEW box, Ask(b, n, o, box)
    PROVE  LogInv'
<1> DEFINE site == Prog[b][n][1]
           a    == Prog[b][n][2]
           i    == <<site, ordinals[site] + 1>>
           A    == actors[a]
<1>1. a \in Actors /\ A.pendingRecorded \in SUBSET Recorded
  <2>1. Prog[b] \in Seq(Sites \X Actors)
    BY ConstantsAssumption
  <2>2. Prog[b][n] \in Sites \X Actors
    BY <2>1, LenProperties, ElementOfSeq
  <2>3. a \in Actors
    BY <2>2
  <2> QED BY <2>3 DEF LogInv, OrderInv, IInv, RecordedCallsHaveRows
<1>2. CASE Finish("errored", "none", "InputHashMismatch", FALSE, box)
  <2>1. EndedLog(events') /\ ~Running' /\ gate'.queue = <<>>
    BY <1>2, FinishLog DEF RunStatuses
  <2> QED BY <2>1 DEF LogInv
<1>3. ASSUME NEW R \in SUBSET Recorded, NEW L, NEW pumped, Admit(a, R, L, box, pumped),
             UNCHANGED <<up, runSettled>>
      PROVE  LogInv'
  <2>1. OpenLog(events')
    BY <1>1, <1>3, AdmitLog
  <2>2. ~(up' /\ runSettled')
    BY <1>3 DEF Running
  <2> QED BY <2>1, <2>2, OpenIsEnded DEF LogInv
<1>4. \/ /\ Admit(a, A.pendingRecorded, Append(A.pendingLive, <<i, <<b, n, o>>>>), box, Actors)
         /\ UNCHANGED <<up, runSettled>>
      \/ /\ rows[i] # NoRow
         /\ Admit(a, A.pendingRecorded \cup {i}, A.pendingLive, box, {a})
         /\ UNCHANGED <<up, runSettled>>
      \/ Finish("errored", "none", "InputHashMismatch", FALSE, box)
  BY DEF Ask
<1>5. rows[i] # NoRow => A.pendingRecorded \cup {i} \in SUBSET Recorded
  <2>1. Prog[b] \in Seq(Sites \X Actors)
    BY ConstantsAssumption
  <2>2. site \in Sites
    BY <2>1, LenProperties, ElementOfSeq
  <2>3. ordinals[site] < MaxOrdinal /\ ordinals[site] \in 0..MaxOrdinal /\ MaxOrdinal \in Nat
    BY <2>2, ConstantsAssumption DEF Ask, LogInv, OrderInv, IInv, TypeOK
  <2>4. i \in Instances
    BY <2>2, <2>3 DEF Instances
  <2> QED BY <1>1, <2>4 DEF Recorded
<1> HIDE DEF site, a, i, A
<1> QED BY <1>1, <1>2, <1>3, <1>4, <1>5

\* Nothing is logged by a step that neither starts nor ends a life.
LEMMA SilentLog ==
    ASSUME LogInv, OrderInv', UNCHANGED <<up, runSettled, gate, events>>
    PROVE  LogInv'
BY DEF LogInv, Running

\* A settlement of a live ask.
LEMMA SettledLog ==
    ASSUME LogInv, OrderInv', NEW i \in Elements(live), NEW o \in {"ok", "failed"}, Settle(i, o),
           UNCHANGED <<up, runSettled>>
    PROVE  LogInv'
<1>1. DOMAIN <<>> = {}
  BY EmptySeq
<1>2. Running
  BY <1>1 DEF LogInv, OrderInv, AtRest, Elements
<1>3. i \in Instances
  BY ElementsOfSeq DEF LogInv, OrderInv, IInv, TypeOK
<1>4. OpenLog(events')
  BY <1>2, <1>3, SettleLog DEF Outcomes
<1>5. ~(up' /\ runSettled')
  BY <1>2 DEF Running
<1> QED BY <1>4, <1>5, OpenIsEnded DEF LogInv

\* The end of a life.
LEMMA FinishedLog ==
    ASSUME LogInv, OrderInv', Running, NEW st \in RunStatuses, NEW reason, NEW fail, NEW emit,
           NEW box, Finish(st, reason, fail, emit, box)
    PROVE  LogInv'
<1>1. EndedLog(events') /\ ~Running' /\ gate'.queue = <<>>
  BY FinishLog
<1> QED BY <1>1 DEF LogInv

\* The script's steps.
LEMMA ScriptLog == ASSUME LogInv, OrderInv', Script PROVE LogInv'
<1>1. ASSUME NEW b \in Branches, StartBranch(b) PROVE LogInv'
  <2>1. Running /\ Ask(b, 1, "start", inbox)
    BY <1>1 DEF StartBranch
  <2>2. 1 \in DOMAIN Prog[b]
    <3>1. Prog[b] \in Seq(Sites \X Actors) /\ Prog[b] # <<>>
      BY ConstantsAssumption
    <3>2. Len(Prog[b]) \in Nat /\ Len(Prog[b]) # 0 /\ DOMAIN Prog[b] = 1..Len(Prog[b])
      BY <3>1, LenProperties, EmptySeq
    <3> QED BY <3>2
  <2> QED BY <2>1, <2>2, AskLog
<1>2. ASSUME NEW b \in Branches, Continue(b) PROVE LogInv'
  <2> DEFINE o    == Head(inbox)[2]
             rest == Tail(inbox)
  <2>1. Running /\ o \in Outcomes
    <3>1. inbox # <<>> /\ inbox \in Seq(Instances \X Outcomes) /\ Running
      BY <1>2 DEF Continue, LogInv, OrderInv, IInv, TypeOK
    <3>2. Head(inbox) \in Instances \X Outcomes
      BY <3>1, HeadTailProperties
    <3> QED BY <3>1, <3>2
  <2>2. \/ pc[b] < Len(Prog[b]) /\ pc[b] > 0 /\ Ask(b, pc[b] + 1, o, rest)
        \/ UNCHANGED <<up, runSettled, gate, events>>
        \/ Finish("errored", "none", "ScriptError", FALSE, rest)
    BY <1>2 DEF Continue, journalVars
  <2> HIDE DEF o, rest
  <2>3. CASE pc[b] < Len(Prog[b]) /\ pc[b] > 0 /\ Ask(b, pc[b] + 1, o, rest)
    <3>1. Prog[b] \in Seq(Sites \X Actors) /\ pc[b] \in Nat
      BY ConstantsAssumption DEF LogInv, OrderInv, IInv, TypeOK
    <3>2. pc[b] + 1 \in DOMAIN Prog[b]
      BY <2>3, <3>1, LenProperties
    <3> QED BY <2>1, <2>3, <3>2, AskLog
  <2>4. CASE UNCHANGED <<up, runSettled, gate, events>>
    BY <2>4, SilentLog
  <2>5. CASE Finish("errored", "none", "ScriptError", FALSE, rest)
    BY <2>1, <2>5, FinishedLog DEF RunStatuses
  <2> QED BY <2>2, <2>3, <2>4, <2>5
<1>3. CASE ScriptReturns
  BY <1>3, FinishedLog DEF ScriptReturns, RunStatuses
<1>4. CASE FlushReplay
  <2>1. /\ up /\ gate.queue # <<>> /\ events' = events \o CachedEvents(gate.queue)
        /\ UNCHANGED <<up, runSettled>>
    BY <1>4 DEF FlushReplay
  <2>2. Running
    BY <2>1 DEF LogInv, Running
  <2>3. /\ TypeOK /\ gate.queue \in Seq(Terminal) /\ events \in Seq(Event) /\ OpenLog(events)
    BY <2>2 DEF LogInv, OrderInv, IInv, TypeOK, GateHoldsSettled, Gate
  <2>4. CachedEvents(gate.queue) \in Seq(Event) /\ NoEnd(CachedEvents(gate.queue))
    BY <2>3, CachedTypes, CachedEndNone
  <2>5. OpenLog(events')
    BY <2>1, <2>3, <2>4, LogGrows
  <2>6. ~(up' /\ runSettled')
    BY <2>1, <2>2 DEF Running
  <2> QED BY <2>5, <2>6, OpenIsEnded DEF LogInv
<1> QED BY <1>1, <1>2, <1>3, <1>4 DEF Script

\* The driver's steps.
LEMMA DriverLog == ASSUME LogInv, OrderInv', Driver PROVE LogInv'
<1>1. ASSUME NEW a \in Actors, NEW s \in {"ready", "broken"},
             SessionCreated(a, s) \/ Dispatch(a)
      PROVE  LogInv'
  BY <1>1, SilentLog DEF SessionCreated, Dispatch, journalVars
<1>2. ASSUME NEW a \in Actors, DispatchFails(a) PROVE LogInv'
  BY <1>2, SettledLog DEF DispatchFails, Dispatching
<1>3. ASSUME NEW i \in started, Reported(i), EngineUnchanged,
             \/ Settle(i, "ok") \/ Settle(i, "failed")
             \/ UNCHANGED <<rows, events, actors, live, activeAsks, inbox, turns>>
      PROVE  LogInv'
  <2>1. i \in Elements(live) /\ UNCHANGED <<up, runSettled, gate>>
    BY <1>3 DEF Reported, EngineUnchanged
  <2>2. CASE Settle(i, "ok") \/ Settle(i, "failed")
    BY <2>1, <2>2, SettledLog
  <2>3. CASE UNCHANGED <<rows, events, actors, live, activeAsks, inbox, turns>>
    BY <2>1, <2>3, SilentLog
  <2> QED BY <1>3, <2>2, <2>3
<1>4. ASSUME NEW i \in started,
             SubmitAccepted(i) \/ SubmitRejected(i) \/ TurnEnded(i) \/ AskFailed(i)
      PROVE  LogInv'
  BY <1>3, <1>4 DEF SubmitAccepted, SubmitRejected, TurnEnded, AskFailed
<1> QED BY <1>1, <1>2, <1>4 DEF Driver

\* The host's steps.
LEMMA HostLog == ASSUME LogInv, OrderInv', Host PROVE LogInv'
<1>1. ASSUME NEW r \in StopReasons, Stop(r) PROVE LogInv'
  BY <1>1, FinishedLog DEF Stop, RunStatuses
<1>2. ASSUME NEW n \in CapChoices, SetMaxConcurrency(n) PROVE LogInv'
  BY <1>2, SilentLog DEF SetMaxConcurrency
<1>3. ASSUME up' = FALSE, UNCHANGED events PROVE LogInv'
  BY <1>3 DEF LogInv, Running
<1>4. CASE Crash
  BY <1>3, <1>4 DEF Crash, journalVars
<1>5. ASSUME NEW i \in started, NEW o \in {"ok", "failed"}, CrashInSettle(i, o)
      PROVE  LogInv'
  BY <1>3, <1>5 DEF CrashInSettle
<1>6. CASE Reconcile
  BY <1>6, SilentLog DEF Reconcile
<1>7. CASE Resume
  <2>1. events' = Append(events, RunStarted) /\ runSettled' = FALSE
    BY <1>7 DEF Resume, BlankLife
  <2>2. events \in Seq(Event) /\ EndedLog(events)
    BY DEF LogInv, OrderInv, IInv, TypeOK
  <2>3. OpenLog(events')
    BY <2>1, <2>2, LogReopens
  <2> QED BY <2>1, <2>3, OpenIsEnded DEF LogInv
<1> QED BY <1>1, <1>2, <1>4, <1>5, <1>6, <1>7 DEF Host

\* The log's invariant is inductive.
LEMMA LogStep == ASSUME LogInv, [Next]_vars PROVE LogInv'
<1>1. OrderInv'
  BY OrderStep DEF LogInv
<1>2. CASE UNCHANGED vars
  BY <1>1, <1>2, SilentLog DEF vars
<1> QED BY <1>1, <1>2, ScriptLog, DriverLog, HostLog DEF Next, Over

\* The first life logs its start.
LEMMA InitLog == Init => LogInv
<1> SUFFICES ASSUME Init PROVE LogInv
  OBVIOUS
<1>1. events = <<RunStarted>> /\ runSettled = FALSE
  BY DEF Init
<1>2. OpenLog(events)
  BY <1>1 DEF OpenLog, RunStarted
<1> QED BY <1>1, <1>2, InitOrder, OpenIsEnded DEF LogInv

\* Nothing is recorded behind run-settled but the start of the next life
\* (engine-settlement.ts, finishRun): not what the gate still held, not a cancelled ask
\* and not a late report.
THEOREM SettledLogIsClosed == Spec => []RunSettledIsLast
<1>1. LogInv /\ [Next]_vars => LogInv'
  BY LogStep
<1>2. LogInv => RunSettledIsLast
  BY DEF LogInv, EndedLog, RunSettledIsLast
<1> QED BY InitLog, <1>1, <1>2, PTL DEF Spec
================================================================================
