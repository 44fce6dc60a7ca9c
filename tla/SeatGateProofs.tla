------------------------------ MODULE SeatGateProofs ------------------------------
(***************************************************************************)
(* The seats of a run, for every set of subagents and every set of bounds:   *)
(* the two sets of the gate count every started ask once, and the last seat   *)
(* is never empty while somebody waits for one.                              *)
(***************************************************************************)
EXTENDS SeatGate, TLAPS, FiniteSetTheorems, SequenceTheorems

\* What every operation of the gate leaves: two sets that share nobody, the FIFO without
\* repetition.
GateOK(g) ==
    /\ g.working \subseteq Subagents
    /\ g.parked \in Seq(Subagents) /\ IsInjective(g.parked)
    /\ g.working \cap ToSet(g.parked) = {}

Members(g) == g.working \cup ToSet(g.parked)

\* The FIFO moves only while the seats are taken.
Full(g, n) == g.parked # <<>> => Cardinality(g.working) >= n

\* The invariant.  That the seats are taken is inductive only together with the two sets
\* being apart: a seat is filled by who was not counted as working before.
IInv ==
    /\ TypeOK
    /\ working \cap ToSet(parked) = {}
    /\ AsksAreCounted
    /\ SeatsAreTaken
    /\ IsRunning => aborting = {}

--------------------------------------------------------------------------------
(* Facts about the operators. *)

\* The elements of a sequence and its lack of repetition, in terms of its indices.
LEMMA Indexed ==
    ASSUME NEW S, NEW q \in Seq(S)
    PROVE  /\ Len(q) \in Nat /\ DOMAIN q = 1..Len(q)
           /\ \A i \in 1..Len(q) : q[i] \in S /\ q[i] \in ToSet(q)
           /\ \A x \in ToSet(q) : \E i \in 1..Len(q) : q[i] = x
           /\ IsInjective(q) <=> \A i, j \in 1..Len(q) : q[i] = q[j] => i = j
<1>1. Len(q) \in Nat /\ DOMAIN q = 1..Len(q)
  BY LenProperties
<1>2. \A i \in 1..Len(q) : q[i] \in S
  BY ElementOfSeq
<1> QED BY <1>1, <1>2 DEF ToSet, IsInjective

\* splice() of a waiter leaves all the others, in a FIFO without repetition.
LEMMA WithoutOne ==
    ASSUME NEW q \in Seq(Subagents), IsInjective(q), NEW s \in ToSet(q)
    PROVE  /\ Without(q, s) \in Seq(Subagents) /\ IsInjective(Without(q, s))
           /\ ToSet(Without(q, s)) = ToSet(q) \ {s}
<1> DEFINE p == PlaceOf(q, s)
           w == Without(q, s)
<1>1. p \in 1..Len(q) /\ q[p] = s
  BY Indexed DEF PlaceOf
<1>2. Len(q) \in Nat /\ Len(q) >= 1
  BY <1>1, Indexed
<1> DEFINE front == SubSeq(q, 1, p - 1)
           back  == SubSeq(q, p + 1, Len(q))
<1>3. w = front \o back
  BY DEF Without, RemoveAt
<1> HIDE DEF p, w
<1>4. /\ front \in Seq(Subagents) /\ Len(front) = p - 1
      /\ \A j \in 1..(p - 1) : front[j] = q[j]
  <2>1. \A i \in 1..(p - 1) : q[i] \in Subagents
    BY <1>1, <1>2, Indexed
  <2> QED BY <1>1, <1>2, <2>1, SubSeqProperties
<1>5. /\ back \in Seq(Subagents) /\ Len(back) = Len(q) - p
      /\ \A j \in 1..(Len(q) - p) : back[j] = q[p + j]
  <2>1. \A i \in (p + 1)..Len(q) : q[i] \in Subagents
    BY <1>1, <1>2, Indexed
  <2> QED BY <1>1, <1>2, <2>1, SubSeqProperties
<1> HIDE DEF front, back
<1>6. /\ w \in Seq(Subagents) /\ Len(w) = Len(q) - 1
      /\ \A j \in 1..(Len(q) - 1) : w[j] = q[IF j < p THEN j ELSE j + 1]
  <2>1. /\ w \in Seq(Subagents) /\ Len(w) = Len(q) - 1
        /\ \A j \in 1..(Len(q) - 1) : w[j] = IF j <= p - 1 THEN front[j] ELSE back[j - (p - 1)]
    <3>1. Len(front) + Len(back) = Len(q) - 1
      BY <1>1, <1>2, <1>4, <1>5
    <3>2. /\ front \o back \in Seq(Subagents)
          /\ Len(front \o back) = Len(front) + Len(back)
          /\ \A i \in 1 .. Len(front) + Len(back) :
                (front \o back)[i] = IF i <= Len(front) THEN front[i] ELSE back[i - Len(front)]
      BY <1>4, <1>5, ConcatProperties
    <3> QED BY <1>3, <1>4, <3>1, <3>2
  <2>2. ASSUME NEW j \in 1..(Len(q) - 1)
        PROVE  w[j] = q[IF j < p THEN j ELSE j + 1]
    <3>1. CASE j < p
      BY <1>1, <1>2, <1>4, <2>1, <3>1
    <3>2. CASE j >= p
      <4>1. j - (p - 1) \in 1..(Len(q) - p) /\ p + (j - (p - 1)) = j + 1
        BY <1>1, <1>2, <3>2
      <4> QED BY <1>1, <1>2, <1>5, <2>1, <3>2, <4>1
    <3> QED BY <1>1, <1>2, <3>1, <3>2
  <2> QED BY <2>1, <2>2
<1>7. IsInjective(w)
  <2>1. \A i, j \in 1..Len(q) : q[i] = q[j] => i = j
    BY Indexed
  <2> SUFFICES ASSUME NEW i \in 1..Len(w), NEW j \in 1..Len(w), w[i] = w[j] PROVE i = j
    BY <1>6, Indexed
  <2> QED BY <1>1, <1>2, <1>6, <2>1
<1>8. ToSet(w) = ToSet(q) \ {s}
  <2>1. ASSUME NEW x \in ToSet(w) PROVE x \in ToSet(q) /\ x # s
    <3>1. PICK j \in 1..Len(w) : w[j] = x
      BY <1>6, Indexed
    <3> DEFINE i == IF j < p THEN j ELSE j + 1
    <3>2. j \in 1..(Len(q) - 1) /\ p \in 1..Len(q)
      BY <1>1, <1>6
    <3>3. i \in 1..Len(q) /\ i # p
      BY <1>2, <3>2
    <3>4. q[i] = x
      BY <1>6, <3>1, <3>2
    <3> HIDE DEF i
    <3>5. q[i] # s
      <4>1. \A m, n \in 1..Len(q) : q[m] = q[n] => m = n
        BY Indexed
      <4> QED BY <1>1, <3>3, <4>1
    <3> QED BY <3>3, <3>4, <3>5, Indexed
  <2>2. ASSUME NEW x \in ToSet(q), x # s PROVE x \in ToSet(w)
    <3>1. PICK i \in 1..Len(q) : q[i] = x
      BY Indexed
    <3>2. PICK j \in 1..Len(w) : w[j] = q[i]
      <4>1. i # p
        BY <1>1, <2>2, <3>1
      <4>2. CASE i < p
        <5>1. i \in 1..(Len(q) - 1)
          BY <1>1, <1>2, <4>2
        <5> QED BY <1>1, <1>2, <1>6, <4>2, <5>1
      <4>3. CASE i > p
        <5>1. i - 1 \in 1..(Len(q) - 1) /\ ~(i - 1 < p) /\ (i - 1) + 1 = i
          BY <1>1, <1>2, <4>3
        <5> QED BY <1>6, <5>1
      <4> QED BY <1>1, <4>1, <4>2, <4>3
    <3> QED BY <1>6, <3>1, <3>2, Indexed
  <2> QED BY <2>1, <2>2
<1> QED BY <1>6, <1>7, <1>8 DEF w

\* The k heads of a FIFO without repetition are k subagents.
LEMMA HeadsCounted ==
    ASSUME NEW q \in Seq(Subagents), IsInjective(q), NEW k \in 0..Len(q)
    PROVE  LET heads == {q[i] : i \in 1..k}
           IN  IsFiniteSet(heads) /\ Cardinality(heads) = k
<1> DEFINE heads == {q[i] : i \in 1..k}
           f     == [i \in 1..k |-> q[i]]
<1>1. Len(q) \in Nat /\ k \in Nat
  OBVIOUS
<1>2. IsFiniteSet(1..k) /\ Cardinality(1..k) = k
  BY <1>1, FS_Interval
<1>3. f \in Surjection(1..k, heads)
  BY <1>1 DEF Surjection
<1>4. f \in Injection(1..k, heads)
  BY <1>1 DEF Injection, IsInjective
<1> HIDE DEF f
<1>5. IsFiniteSet(heads) /\ Cardinality(heads) = Cardinality(1..k)
  <2> HIDE DEF heads
  <2> QED BY <1>2, <1>3, <1>4, FS_Surjection
<1> QED BY <1>2, <1>5

\* unpark() moves the heads of the FIFO into the working set and leaves no seat free while
\* somebody waits.
LEMMA UnparkedGate ==
    ASSUME NEW g \in [working : SUBSET Subagents, parked : Seq(Subagents)], GateOK(g),
           NEW n \in Nat \ {0}
    PROVE  LET u == Unparked(g, n)
           IN  /\ u \in [working : SUBSET Subagents, parked : Seq(Subagents)] /\ GateOK(u)
               /\ Members(u) = Members(g) /\ ToSet(u.parked) \subseteq ToSet(g.parked)
               /\ Full(u, n)
<1> DEFINE q == g.parked
           k == Seated(g, n)
           u == Unparked(g, n)
           c == Cardinality(g.working)
           heads == {q[i] : i \in 1..k}
<1>0. IsFiniteSet(g.working) /\ c \in Nat
  BY SeatAssumption, FS_Subset, FS_CardinalityType
<1>1. Len(q) \in Nat
  OBVIOUS
<1>2. k \in 0..Len(q) /\ (k < Len(q) => c + k >= n)
  <2> HIDE DEF c
  <2>1. k = IF c < n THEN Least(n - c, Len(q)) ELSE 0
    BY DEF Seated, c
  <2> HIDE DEF k, q
  <2> QED BY <1>0, <1>1, <2>1 DEF Least
<1>3. u = [working |-> g.working \cup heads, parked |-> SubSeq(q, k + 1, Len(q))]
  BY DEF Unparked
<1> HIDE DEF k, u
<1>4. IsFiniteSet(heads) /\ Cardinality(heads) = k
  BY <1>2, HeadsCounted DEF GateOK
<1>5. /\ u.parked \in Seq(Subagents) /\ Len(u.parked) = Len(q) - k
      /\ \A j \in 1..(Len(q) - k) : u.parked[j] = q[j + k]
  <2>1. \A i \in (k + 1)..Len(q) : q[i] \in Subagents
    BY <1>2, Indexed
  <2>2. u.parked = SubSeq(q, k + 1, Len(q))
    BY <1>3
  <2> HIDE DEF q
  <2>3. \A j \in 1..(Len(q) - (k + 1) + 1) : SubSeq(q, k + 1, Len(q))[j] = q[(k + 1) + j - 1]
    BY <1>1, <1>2, <2>1, SubSeqProperties
  <2> QED BY <1>1, <1>2, <2>1, <2>2, <2>3, SubSeqProperties
<1>6. \A i, j \in 1..Len(q) : q[i] = q[j] => i = j
  BY Indexed DEF GateOK
<1> HIDE DEF q
<1>61. IsInjective(u.parked)
  <2> SUFFICES ASSUME NEW i \in 1..Len(u.parked), NEW j \in 1..Len(u.parked),
                      u.parked[i] = u.parked[j]
               PROVE  i = j
    BY <1>5, Indexed
  <2>1. i \in 1..(Len(q) - k) /\ j \in 1..(Len(q) - k)
    BY <1>5
  <2>2. i + k \in 1..Len(q) /\ j + k \in 1..Len(q) /\ q[i + k] = q[j + k]
    BY <1>1, <1>2, <1>5, <2>1
  <2>3. i + k = j + k
    BY <1>6, <2>2
  <2> QED BY <1>2, <2>1, <2>3
<1>62. q \in Seq(Subagents)
  BY DEF q
<1>7. heads \subseteq ToSet(q) /\ ToSet(u.parked) \subseteq ToSet(q)
  <2>1. heads \subseteq ToSet(q)
    BY <1>1, <1>2, <1>62, Indexed
  <2>2. ASSUME NEW x \in ToSet(u.parked) PROVE x \in ToSet(q)
    <3>1. PICK j \in 1..Len(u.parked) : u.parked[j] = x
      BY <1>5, Indexed
    <3>2. j + k \in 1..Len(q)
      BY <1>1, <1>2, <1>5
    <3> QED BY <1>5, <1>62, <3>1, <3>2, Indexed
  <2> QED BY <2>1, <2>2
<1>8. heads \cap ToSet(u.parked) = {}
  <2> SUFFICES ASSUME NEW i \in 1..k, q[i] \in ToSet(u.parked) PROVE FALSE
    OBVIOUS
  <2>1. PICK j \in 1..Len(u.parked) : u.parked[j] = q[i]
    BY <1>5, Indexed
  <2>2. j \in 1..(Len(q) - k)
    BY <1>5
  <2>3. i \in 1..Len(q) /\ j + k \in 1..Len(q) /\ q[j + k] = q[i]
    BY <1>1, <1>2, <1>5, <2>1, <2>2
  <2>4. j + k = i
    BY <1>6, <2>3
  <2> QED BY <1>2, <2>2, <2>4
<1>9. ToSet(q) \subseteq heads \cup ToSet(u.parked)
  <2> SUFFICES ASSUME NEW i \in 1..Len(q), q[i] \notin heads PROVE q[i] \in ToSet(u.parked)
    BY <1>62, Indexed
  <2>1. i > k
    BY <1>1, <1>2
  <2>2. i - k \in 1..(Len(q) - k) /\ (i - k) + k = i
    BY <1>1, <1>2, <2>1
  <2>3. u.parked[i - k] = q[i]
    BY <1>5, <2>2
  <2> QED BY <1>5, <2>2, <2>3, Indexed
<1>10. heads \subseteq Subagents
  BY <1>1, <1>2, <1>62, Indexed
<1>11. Full(u, n)
  <2>1. Cardinality(u.working) = c + k
    <3>1. g.working \cap heads = {}
      BY <1>7 DEF GateOK, q
    <3>2. u.working = g.working \cup heads
      BY <1>3
    <3>3. k \in Int
      BY <1>2
    <3> HIDE DEF heads
    <3>4. Cardinality(u.working) = c + k - Cardinality({})
      BY <1>0, <1>4, <3>1, <3>2, FS_Union
    <3> QED BY <1>0, <3>3, <3>4, FS_EmptySet
  <2>2. u.parked # <<>> => k < Len(q)
    BY <1>1, <1>2, <1>5
  <2> QED BY <1>2, <2>1, <2>2 DEF Full
<1>12. u \in [working : SUBSET Subagents, parked : Seq(Subagents)]
  BY <1>3, <1>5, <1>10
<1>13. GateOK(u)
  BY <1>3, <1>5, <1>61, <1>7, <1>8, <1>10 DEF GateOK, q
<1>14. Members(u) = Members(g)
  BY <1>3, <1>7, <1>9 DEF Members, q
<1> QED BY <1>7, <1>11, <1>12, <1>13, <1>14 DEF u, q

Gates == [working : SUBSET Subagents, parked : Seq(Subagents)]

\* An aborted wait leaves the FIFO for the working set: nobody is lost, no seat is freed.
LEMMA AbortedGate ==
    ASSUME NEW g \in Gates, GateOK(g), NEW s \in Subagents, NEW n \in Nat, Full(g, n)
    PROVE  LET a == Aborted(g, s)
           IN  /\ a \in Gates /\ GateOK(a) /\ Full(a, n)
               /\ Members(a) = Members(g) /\ ToSet(a.parked) = ToSet(g.parked) \ {s}
<1> DEFINE a == Aborted(g, s)
<1>1. CASE s \in ToSet(g.parked)
  <2>1. a = [working |-> g.working \cup {s}, parked |-> Without(g.parked, s)]
    BY <1>1 DEF Aborted
  <2> HIDE DEF a
  <2>2. /\ a.parked \in Seq(Subagents) /\ IsInjective(a.parked)
        /\ ToSet(a.parked) = ToSet(g.parked) \ {s}
    BY <1>1, <2>1, WithoutOne DEF GateOK, Gates
  <2>3. a \in Gates /\ GateOK(a) /\ Members(a) = Members(g)
    BY <1>1, <2>1, <2>2 DEF GateOK, Gates, Members
  <2>4. IsFiniteSet(g.working) /\ Cardinality(g.working) \in Nat
    BY SeatAssumption, FS_Subset, FS_CardinalityType DEF Gates
  <2>5. /\ Cardinality(a.working) \in Nat
        /\ Cardinality(a.working) >= Cardinality(g.working)
    <3>1. a.working = g.working \cup {s}
      BY <2>1
    <3>2. Cardinality(g.working \cup {s}) =
            IF s \in g.working THEN Cardinality(g.working) ELSE Cardinality(g.working) + 1
      BY <2>4, FS_AddElement
    <3> QED BY <2>4, <3>1, <3>2
  <2>6. g.parked # <<>>
    BY <1>1, Indexed DEF ToSet
  <2>8. Full(a, n)
    BY <2>4, <2>5, <2>6 DEF Full
  <2> QED BY <2>2, <2>3, <2>8 DEF a
<1>2. CASE s \notin ToSet(g.parked)
  <2>1. a = g
    BY <1>2 DEF Aborted
  <2> HIDE DEF a
  <2> QED BY <1>2, <2>1 DEF a
<1> QED BY <1>1, <1>2

\* A settled ask leaves the gate, and its seat, if it held one, goes to the next in line.
LEMMA AskSettledGate ==
    ASSUME NEW g \in Gates, GateOK(g), NEW s \in Subagents, limit \in Nat \ {0}, Full(g, limit)
    PROVE  LET t == AskSettled(g, s)
           IN  /\ t \in Gates /\ GateOK(t) /\ Full(t, limit)
               /\ Members(t) = IF stage[s] \in StartedStages THEN Members(g) \ {s} ELSE Members(g)
               /\ ToSet(t.parked) \subseteq ToSet(g.parked)
<1> DEFINE t == AskSettled(g, s)
<1>1. CASE stage[s] \notin StartedStages
  BY <1>1 DEF AskSettled
<1>2. CASE stage[s] \in StartedStages /\ s \in ToSet(g.parked)
  <2>1. t = [working |-> g.working, parked |-> Without(g.parked, s)]
    BY <1>2 DEF AskSettled, Gates
  <2> HIDE DEF t
  <2>2. /\ t.parked \in Seq(Subagents) /\ IsInjective(t.parked)
        /\ ToSet(t.parked) = ToSet(g.parked) \ {s}
    BY <1>2, <2>1, WithoutOne DEF GateOK, Gates
  <2>3. t \in Gates /\ GateOK(t) /\ Members(t) = Members(g) \ {s}
    BY <1>2, <2>1, <2>2 DEF GateOK, Gates, Members
  <2>4. g.parked # <<>>
    BY <1>2, Indexed DEF ToSet
  <2>5. Full(t, limit)
    BY <2>1, <2>4 DEF Full
  <2> QED BY <1>2, <2>2, <2>3, <2>5 DEF t
<1>3. CASE stage[s] \in StartedStages /\ s \notin ToSet(g.parked) /\ s \in g.working
  <2> DEFINE h == [working |-> g.working \ {s}, parked |-> g.parked]
  <2>1. t = Unparked(h, limit)
    <3>1. [g EXCEPT !.working = @ \ {s}] = h
      <4>1. \A W : [g EXCEPT !.working = W] = [working |-> W, parked |-> g.parked]
        BY DEF Gates
      <4> QED BY <4>1, Zenon
    <3> HIDE DEF h
    <3>2. t = Unparked([g EXCEPT !.working = @ \ {s}], limit)
      BY <1>3 DEF AskSettled
    <3> QED BY <3>1, <3>2
  <2>2. h.working = g.working \ {s} /\ h.parked = g.parked
    OBVIOUS
  <2>21. h \in Gates
    BY DEF Gates
  <2> HIDE DEF h, t
  <2>3. h \in Gates /\ GateOK(h) /\ Members(h) = Members(g) \ {s}
    BY <1>3, <2>2, <2>21 DEF GateOK, Members
  <2>4. /\ t \in Gates /\ GateOK(t) /\ Full(t, limit)
        /\ Members(t) = Members(h) /\ ToSet(t.parked) \subseteq ToSet(h.parked)
    BY <2>1, <2>3, UnparkedGate DEF Gates
  <2> QED BY <1>3, <2>2, <2>3, <2>4 DEF t
<1>4. CASE stage[s] \in StartedStages /\ s \notin ToSet(g.parked) /\ s \notin g.working
  <2>1. t = g
    BY <1>4 DEF AskSettled
  <2> HIDE DEF t
  <2>2. Members(g) = Members(g) \ {s}
    BY <1>4 DEF Members
  <2> QED BY <1>4, <2>1, <2>2 DEF t
<1> QED BY <1>1, <1>2, <1>3, <1>4

--------------------------------------------------------------------------------
(* The handlers. *)

\* Who is granted a seat sends; so the stages go on telling the two sets apart.
LEMMA Becomes ==
    ASSUME NEW g \in Gates, GateOK(g), NEW moved \in [Subagents -> Stages],
           GateBecomes(g, moved)
    PROVE  /\ working' = g.working /\ parked' = g.parked
           /\ stage' \in [Subagents -> Stages]
           /\ (/\ \A s \in Subagents : moved[s] \in StartedStages <=> s \in Members(g)
               /\ \A s \in ToSet(g.parked) : moved[s] = "parked"
               /\ \A s \in Subagents :
                     moved[s] = "parked" => stage[s] = "parked" \/ s \in ToSet(g.parked))
              => /\ Members(g) = Started'
                 /\ \A s \in Subagents : stage'[s] = "parked" <=> s \in ToSet(g.parked)
<1>1. /\ working' = g.working /\ parked' = g.parked
      /\ stage' = [s \in Subagents |->
                    IF stage[s] = "parked" /\ moved[s] = "parked" /\ s \in g.working
                    THEN "sending" ELSE moved[s]]
  BY DEF GateBecomes
<1>2. stage' \in [Subagents -> Stages]
  BY <1>1 DEF Stages, StartedStages
<1>3. ASSUME \A s \in Subagents : moved[s] \in StartedStages <=> s \in Members(g),
             \A s \in ToSet(g.parked) : moved[s] = "parked",
             \A s \in Subagents :
                moved[s] = "parked" => stage[s] = "parked" \/ s \in ToSet(g.parked)
      PROVE  /\ Members(g) = Started'
             /\ \A s \in Subagents : stage'[s] = "parked" <=> s \in ToSet(g.parked)
  <2>1. \A s \in Subagents : stage'[s] \in StartedStages <=> moved[s] \in StartedStages
    BY <1>1 DEF StartedStages
  <2>2. Members(g) \subseteq Subagents
    <3>1. ToSet(g.parked) \subseteq Subagents
      BY Indexed DEF Gates
    <3> QED BY <3>1 DEF GateOK, Members
  <2>3. Members(g) = Started'
    BY <1>3, <2>1, <2>2 DEF Started
  <2>4. \A s \in Subagents : s \in ToSet(g.parked) => s \notin g.working
    BY DEF GateOK
  <2>5. \A s \in Subagents : moved[s] = "parked" => s \in ToSet(g.parked) \/ s \in g.working
    BY <1>3 DEF Members, StartedStages
  <2>6. \A s \in Subagents : stage'[s] = "parked" <=> s \in ToSet(g.parked)
    BY <1>1, <1>3, <2>4, <2>5
  <2> QED BY <2>3, <2>6
<1> QED BY <1>1, <1>2, <1>3

\* Running or not, a step that leaves a gate in order and the seats taken, and tells the
\* stages apart while the run lives, keeps the invariant.
LEMMA GateStep ==
    ASSUME IInv, limit' \in Limits, outcome' \in Outcomes, aborting' \subseteq Subagents,
           IsRunning' => IsRunning /\ aborting' = aborting,
           NEW g \in Gates, GateOK(g), Full(g, limit'),
           NEW moved \in [Subagents -> Stages], GateBecomes(g, moved),
           IsRunning' =>
             /\ \A s \in Subagents : moved[s] \in StartedStages <=> s \in Members(g)
             /\ \A s \in ToSet(g.parked) : moved[s] = "parked"
             /\ \A s \in Subagents :
                   moved[s] = "parked" => stage[s] = "parked" \/ s \in ToSet(g.parked)
    PROVE  IInv'
<1>1. /\ working' = g.working /\ parked' = g.parked
      /\ stage' \in [Subagents -> Stages]
      /\ IsRunning' =>
            /\ Members(g) = Started'
            /\ \A s \in Subagents : stage'[s] = "parked" <=> s \in ToSet(g.parked)
  BY Becomes
<1>2. TypeOK'
  BY <1>1 DEF TypeOK, GateOK
<1>3. (working \cap ToSet(parked) = {})'
  BY <1>1 DEF GateOK
<1>4. AsksAreCounted'
  BY <1>1, <1>3 DEF AsksAreCounted, Members
<1>5. SeatsAreTaken'
  BY <1>1 DEF SeatsAreTaken, Full
<1>6. (IsRunning => aborting = {})'
  BY DEF IInv
<1> QED BY <1>2, <1>3, <1>4, <1>5, <1>6 DEF IInv

\* The gate as the handlers find it.
LEMMA GateFound ==
    ASSUME IInv
    PROVE  /\ Gate \in Gates /\ GateOK(Gate) /\ Full(Gate, limit) /\ limit \in Nat \ {0}
           /\ Gate.working = working /\ Gate.parked = parked
           /\ ToSet(parked) \subseteq Subagents
           /\ IsRunning =>
                 /\ \A s \in Subagents : stage[s] \in StartedStages <=> s \in Members(Gate)
                 /\ \A s \in Subagents : stage[s] = "parked" <=> s \in ToSet(parked)
<1>1. Gate.working = working /\ Gate.parked = parked
  BY DEF Gate
<1>2. Gate \in Gates /\ GateOK(Gate) /\ Full(Gate, limit) /\ limit \in Nat \ {0}
  BY SeatAssumption DEF IInv, TypeOK, SeatsAreTaken, Gate, Gates, GateOK, Full
<1>3. ToSet(parked) \subseteq Subagents
  BY Indexed DEF IInv, TypeOK
<1> QED BY <1>1, <1>2, <1>3 DEF IInv, AsksAreCounted, Members, Started

\* A handler of a turn that leaves both sets alone keeps the invariant as long as it keeps
\* the turn outside the FIFO and its ask started.
LEMMA StageStep ==
    ASSUME IInv, NEW s \in Subagents, NEW next \in Stages \ {"parked"},
           stage[s] # "parked", stage[s] \in StartedStages <=> next \in StartedStages,
           stage' = [stage EXCEPT ![s] = next],
           UNCHANGED <<limit, working, parked, outcome, aborting>>
    PROVE  IInv'
<1>1. stage' \in [Subagents -> Stages]
  BY DEF IInv, TypeOK
<1>2. \A q \in Subagents : /\ stage'[q] \in StartedStages <=> stage[q] \in StartedStages
                          /\ stage'[q] = "parked" <=> stage[q] = "parked"
  BY DEF IInv, TypeOK
<1>3. Started' = Started
  BY <1>2 DEF Started
<1> QED BY <1>1, <1>2, <1>3 DEF IInv, TypeOK, AsksAreCounted, SeatsAreTaken, IsRunning

\* A run starts with all seats free.
LEMMA SeatsFree == Init => IInv
<1> SUFFICES ASSUME Init PROVE IInv
  OBVIOUS
<1>1. ToSet(parked) = {} /\ IsInjective(parked) /\ parked \in Seq(Subagents)
  BY DEF Init, ToSet, IsInjective
<1>2. Started = {}
  BY DEF Init, Started, StartedStages
<1> QED BY <1>1, <1>2 DEF Init, IInv, TypeOK, AsksAreCounted, SeatsAreTaken, Stages, Outcomes

\* Every handler keeps the invariant.
LEMMA SeatsKept == IInv /\ [Next]_vars => IInv'
<1> SUFFICES ASSUME IInv, [Next]_vars PROVE IInv'
  OBVIOUS
<1> USE GateFound
<1>1. ASSUME NEW s \in Subagents, Ask(s) PROVE IInv'
  <2> DEFINE next == IF Cardinality(Active) < limit THEN "opening" ELSE "queued"
  <2>1. next \in Stages \ {"parked"} /\ next \notin StartedStages
    BY DEF Stages, StartedStages
  <2>2. stage[s] # "parked" /\ stage[s] \notin StartedStages
    BY <1>1 DEF Ask, StartedStages
  <2>3. stage' = [stage EXCEPT ![s] = next] /\ UNCHANGED <<limit, working, parked, outcome, aborting>>
    BY <1>1 DEF Ask
  <2> HIDE DEF next
  <2> QED BY <2>1, <2>2, <2>3, StageStep
<1>2. ASSUME NEW s \in Subagents, TryRequest(s) PROVE IInv'
  <2> DEFINE next == IF MustPark(Gate, s) THEN "missed" ELSE "sending"
  <2>1. next \in Stages \ {"parked"} /\ next \in StartedStages
    BY DEF Stages, StartedStages
  <2>2. stage[s] # "parked" /\ stage[s] \in StartedStages
    BY <1>2 DEF TryRequest, StartedStages
  <2>3. stage' = [stage EXCEPT ![s] = next] /\ UNCHANGED <<limit, working, parked, outcome, aborting>>
    BY <1>2 DEF TryRequest
  <2> HIDE DEF next
  <2> QED BY <2>1, <2>2, <2>3, StageStep
<1>3. ASSUME NEW s \in Subagents, EndRequest(s) PROVE IInv'
  <2>1. PICK next \in {"thinking", "tools"} : stage' = [stage EXCEPT ![s] = next]
    BY <1>3 DEF EndRequest
  <2>2. next \in Stages \ {"parked"} /\ next \in StartedStages
    BY DEF Stages, StartedStages
  <2>3. stage[s] # "parked" /\ stage[s] \in StartedStages
    BY <1>3 DEF EndRequest, StartedStages
  <2>4. UNCHANGED <<limit, working, parked, outcome, aborting>>
    BY <1>3 DEF EndRequest
  <2> QED BY <2>1, <2>2, <2>3, <2>4, StageStep
<1>4. ASSUME NEW s \in Subagents, EndTools(s) PROVE IInv'
  <2>1. "thinking" \in Stages \ {"parked"} /\ "thinking" \in StartedStages
    BY DEF Stages, StartedStages
  <2>2. stage[s] # "parked" /\ stage[s] \in StartedStages
    BY <1>4 DEF EndTools, StartedStages
  <2>3. /\ stage' = [stage EXCEPT ![s] = "thinking"]
        /\ UNCHANGED <<limit, working, parked, outcome, aborting>>
    BY <1>4 DEF EndTools
  <2> QED BY <2>1, <2>2, <2>3, StageStep
<1>5. ASSUME NEW s \in Subagents, StartAsk(s) PROVE IInv'
  <2> DEFINE g     == AskStarted(Gate, s)
             moved == [stage EXCEPT ![s] = "thinking"]
  <2>1. /\ IsRunning /\ stage[s] = "opening" /\ GateBecomes(g, moved)
        /\ UNCHANGED <<limit, outcome, aborting>>
    BY <1>5 DEF StartAsk
  <2>2. s \notin ToSet(parked)
    BY <2>1
  <2>3. g = [working |-> working \cup {s}, parked |-> parked]
    BY <2>2 DEF AskStarted, Gate
  <2>4. moved \in [Subagents -> Stages]
    BY DEF IInv, TypeOK, Stages, StartedStages
  <2>5. \A q \in Subagents : moved[q] = IF q = s THEN "thinking" ELSE stage[q]
    BY DEF IInv, TypeOK
  <2> HIDE DEF g, moved
  <2>6. g \in Gates /\ GateOK(g) /\ Members(g) = Members(Gate) \cup {s}
    BY <2>2, <2>3 DEF Gates, GateOK, Members
  <2>7. Full(g, limit)
    <3>1. IsFiniteSet(working) /\ Cardinality(working) \in Nat
      BY SeatAssumption, FS_Subset, FS_CardinalityType DEF IInv, TypeOK
    <3>2. Cardinality(working \cup {s}) >= Cardinality(working)
          /\ Cardinality(working \cup {s}) \in Nat
      BY <3>1, FS_AddElement, SMTT(30)
    <3> QED BY <2>3, <3>1, <3>2 DEF Full
  <2>8. \A q \in Subagents : moved[q] \in StartedStages <=> q \in Members(g)
    BY <2>1, <2>5, <2>6 DEF StartedStages
  <2>9. \A q \in Subagents : moved[q] = "parked" => stage[q] = "parked"
    BY <2>5
  <2>10. \A q \in ToSet(g.parked) : moved[q] = "parked"
    BY <2>1, <2>2, <2>3, <2>5
  <2>11. limit' \in Limits /\ outcome' \in Outcomes /\ aborting' \subseteq Subagents
    BY <2>1 DEF IInv, TypeOK
  <2>12. (IsRunning' => IsRunning /\ aborting' = aborting) /\ Full(g, limit')
    BY <2>1, <2>7
  <2> QED BY <2>1, <2>4, <2>6, <2>8, <2>9, <2>10, <2>11, <2>12, GateStep
<1>6. ASSUME NEW s \in Subagents, Settle(s) PROVE IInv'
  <2>1. PICK some \in Pumpable(limit, Active \ {s}) :
          GateBecomes(AskSettled(Gate, s), [Moved(some, "opening") EXCEPT ![s] = "idle"])
    BY <1>6 DEF Settle
  <2> DEFINE g     == AskSettled(Gate, s)
             moved == [Moved(some, "opening") EXCEPT ![s] = "idle"]
  <2>2. /\ IsRunning /\ stage[s] \in {"opening", "thinking", "tools"} /\ GateBecomes(g, moved)
        /\ UNCHANGED <<limit, outcome, aborting>>
    BY <1>6, <2>1 DEF Settle
  <2>3. some \subseteq Queued
    BY DEF Pumpable
  <2>4. \A q \in Subagents :
           moved[q] = IF q = s THEN "idle" ELSE IF q \in some THEN "opening" ELSE stage[q]
    BY DEF Moved
  <2>5. moved \in [Subagents -> Stages]
    BY DEF Moved, IInv, TypeOK, Stages
  <2>6. /\ g \in Gates /\ GateOK(g) /\ Full(g, limit)
        /\ Members(g) = IF stage[s] \in StartedStages THEN Members(Gate) \ {s} ELSE Members(Gate)
        /\ ToSet(g.parked) \subseteq ToSet(parked)
    BY AskSettledGate
  <2> HIDE DEF g, moved
  <2>7. \A q \in some : stage[q] = "queued"
    BY <2>3 DEF Queued
  <2>8. \A q \in Subagents : moved[q] \in StartedStages <=> q \in Members(g)
    BY <2>2, <2>4, <2>6, <2>7 DEF StartedStages
  <2>9. \A q \in Subagents : moved[q] = "parked" => stage[q] = "parked"
    BY <2>4
  <2>10. \A q \in ToSet(g.parked) : moved[q] = "parked"
    BY <2>2, <2>4, <2>6, <2>7
  <2>11. limit' \in Limits /\ outcome' \in Outcomes /\ aborting' \subseteq Subagents
    BY <2>2 DEF IInv, TypeOK
  <2>12. (IsRunning' => IsRunning /\ aborting' = aborting) /\ Full(g, limit')
    BY <2>2, <2>6
  <2> QED BY <2>2, <2>5, <2>6, <2>8, <2>9, <2>10, <2>11, <2>12, GateStep
<1>7. ASSUME NEW n \in Limits, Retune(n) PROVE IInv'
  <2>1. PICK some \in SUBSET Queued : GateBecomes(Unparked(Gate, n), Moved(some, "opening"))
    BY <1>7 DEF Retune, Pumpable
  <2> DEFINE g     == Unparked(Gate, n)
             moved == Moved(some, "opening")
  <2>2. IsRunning /\ limit' = n /\ UNCHANGED <<outcome, aborting>>
    BY <1>7 DEF Retune
  <2>3. \A q \in Subagents : moved[q] = IF q \in some THEN "opening" ELSE stage[q]
    BY DEF Moved
  <2>4. moved \in [Subagents -> Stages]
    BY DEF Moved, IInv, TypeOK, Stages
  <2>5. /\ g \in Gates /\ GateOK(g) /\ Full(g, n) /\ Members(g) = Members(Gate)
        /\ ToSet(g.parked) \subseteq ToSet(parked)
    BY SeatAssumption, UnparkedGate DEF Gates
  <2>6. GateBecomes(g, moved)
    BY <2>1
  <2> HIDE DEF g, moved
  <2>7. \A q \in some : stage[q] = "queued"
    BY DEF Queued
  <2>8. \A q \in Subagents : moved[q] \in StartedStages <=> q \in Members(g)
    BY <2>2, <2>3, <2>5, <2>7 DEF StartedStages
  <2>9. \A q \in Subagents : moved[q] = "parked" => stage[q] = "parked"
    BY <2>3
  <2>10. \A q \in ToSet(g.parked) : moved[q] = "parked"
    BY <2>2, <2>3, <2>5, <2>7
  <2>11. limit' \in Limits /\ outcome' \in Outcomes /\ aborting' \subseteq Subagents
    BY <2>2 DEF IInv, TypeOK
  <2>12. (IsRunning' => IsRunning /\ aborting' = aborting) /\ Full(g, limit')
    BY <2>2, <2>5
  <2> QED BY <2>4, <2>5, <2>6, <2>8, <2>9, <2>10, <2>11, <2>12, GateStep
<1>8. ASSUME NEW how \in Outcomes \ {"running"}, SettleRun(how) PROVE IInv'
  <2>1. /\ outcome' \in Outcomes /\ ~IsRunning' /\ aborting' \subseteq Subagents
        /\ UNCHANGED <<limit, working, parked, stage>>
    BY <1>8 DEF SettleRun, IsRunning, Active, Queued
  <2> QED BY <2>1 DEF IInv, TypeOK, AsksAreCounted, SeatsAreTaken
<1>9. ASSUME NEW s \in Subagents, AbortOne(s) PROVE IInv'
  <2> DEFINE c     == IF stage[s] \in StartedStages THEN Aborted(Gate, s) ELSE Gate
             g     == IF outcome = "stopped" THEN AskSettled(c, s) ELSE c
             moved == [stage EXCEPT ![s] = IF @ = "missed" THEN "missed" ELSE "idle"]
  <2>1. /\ s \in aborting /\ aborting' = aborting \ {s} /\ UNCHANGED <<limit, outcome>>
        /\ GateBecomes(g, moved)
    BY <1>9 DEF AbortOne
  <2>2. c \in Gates /\ GateOK(c) /\ Full(c, limit)
    BY AbortedGate
  <2>3. moved \in [Subagents -> Stages]
    BY DEF IInv, TypeOK, Stages, StartedStages
  <2> HIDE DEF c, moved
  <2>4. g \in Gates /\ GateOK(g) /\ Full(g, limit)
    BY <2>2, AskSettledGate
  <2> HIDE DEF g
  <2>5. ~IsRunning'
    BY <2>1 DEF IInv, IsRunning
  <2>6. limit' \in Limits /\ outcome' \in Outcomes /\ aborting' \subseteq Subagents
    BY <2>1 DEF IInv, TypeOK
  <2>7. Full(g, limit')
    BY <2>1, <2>4
  <2> QED BY <2>1, <2>3, <2>4, <2>5, <2>6, <2>7, GateStep
<1>10. ASSUME NEW s \in Subagents, Acquire(s) PROVE IInv'
  <2>1. stage[s] = "missed" /\ UNCHANGED <<limit, outcome, aborting>>
    BY <1>10 DEF Acquire
  <2>2. limit' \in Limits /\ outcome' \in Outcomes /\ aborting' \subseteq Subagents
        /\ (IsRunning' <=> IsRunning)
    BY <2>1 DEF IInv, TypeOK, IsRunning
  <2>3. CASE IsRunning /\ MustPark(Gate, s)
    <3> DEFINE g     == Parked(Gate, s)
               moved == [stage EXCEPT ![s] = "parked"]
    <3>1. GateBecomes(g, moved)
      BY <1>10, <2>3 DEF Acquire
    <3>2. s \in working /\ s \notin ToSet(parked) /\ Cardinality(working) > limit
      BY <2>1, <2>3 DEF MustPark, NeedsSeat, OverLimit
    <3>3. g = [working |-> working \ {s}, parked |-> Append(parked, s)]
      BY DEF Parked, Gate
    <3>4. moved \in [Subagents -> Stages]
      BY DEF IInv, TypeOK, Stages, StartedStages
    <3>5. \A q \in Subagents : moved[q] = IF q = s THEN "parked" ELSE stage[q]
      BY DEF IInv, TypeOK
    <3> HIDE DEF g, moved
    <3>6. /\ Append(parked, s) \in Seq(Subagents) /\ IsInjective(Append(parked, s))
          /\ ToSet(Append(parked, s)) = ToSet(parked) \cup {s}
      <4>1. parked \in Seq(Subagents) /\ IsInjective(parked)
        BY DEF IInv, TypeOK
      <4> DEFINE q == Append(parked, s)
      <4>2. /\ q \in Seq(Subagents) /\ Len(q) = Len(parked) + 1 /\ Len(parked) \in Nat
            /\ \A i \in 1..Len(parked) : q[i] = parked[i]
            /\ q[Len(parked) + 1] = s
        BY <4>1, AppendProperties, LenProperties
      <4> HIDE DEF q
      <4>3. \A i, j \in 1..Len(parked) : parked[i] = parked[j] => i = j
        BY <4>1, Indexed
      <4>4. \A i \in 1..Len(parked) : parked[i] # s
        BY <3>2, <4>1, Indexed
      <4>5. IsInjective(q)
        <5> SUFFICES ASSUME NEW i \in 1..Len(q), NEW j \in 1..Len(q), q[i] = q[j] PROVE i = j
          BY <4>2, Indexed
        <5> QED BY <4>2, <4>3, <4>4
      <4>6. ToSet(q) = ToSet(parked) \cup {s}
        <5>1. ASSUME NEW x \in ToSet(q) PROVE x \in ToSet(parked) \cup {s}
          <6>1. PICK i \in 1..Len(q) : q[i] = x
            BY <4>2, Indexed
          <6> QED BY <4>1, <4>2, <6>1, Indexed
        <5>2. s \in ToSet(q)
          BY <4>2, Indexed
        <5>3. ASSUME NEW x \in ToSet(parked) PROVE x \in ToSet(q)
          <6>1. PICK i \in 1..Len(parked) : parked[i] = x
            BY <4>1, Indexed
          <6> QED BY <4>2, <6>1, Indexed
        <5> QED BY <5>1, <5>2, <5>3
      <4> QED BY <4>2, <4>5, <4>6 DEF q
    <3>7. g \in Gates /\ GateOK(g) /\ Members(g) = Members(Gate)
      BY <3>2, <3>3, <3>6 DEF Gates, GateOK, Members, IInv, TypeOK
    <3>8. Full(g, limit)
      <4>1. IsFiniteSet(working) /\ Cardinality(working) \in Nat
        BY SeatAssumption, FS_Subset, FS_CardinalityType DEF IInv, TypeOK
      <4>2. Cardinality(working \ {s}) = Cardinality(working) - 1
        BY <3>2, <4>1, FS_RemoveElement
      <4> QED BY <3>2, <3>3, <4>1, <4>2 DEF Full
    <3>9. \A q \in Subagents : moved[q] \in StartedStages <=> q \in Members(g)
      BY <2>1, <2>3, <3>5, <3>7 DEF StartedStages
    <3>10. \A q \in ToSet(g.parked) : moved[q] = "parked"
      BY <2>3, <3>3, <3>5, <3>6
    <3>11. \A q \in Subagents : moved[q] = "parked" => stage[q] = "parked" \/ q \in ToSet(g.parked)
      BY <3>3, <3>5, <3>6
    <3>12. (IsRunning' => IsRunning /\ aborting' = aborting) /\ Full(g, limit')
      BY <2>1, <2>2, <3>8
    <3> QED BY <2>2, <3>1, <3>4, <3>7, <3>9, <3>10, <3>11, <3>12, GateStep
  <2>4. CASE ~(IsRunning /\ MustPark(Gate, s))
    <3> DEFINE next  == IF IsRunning THEN "sending" ELSE "idle"
               moved == [stage EXCEPT ![s] = next]
    <3>1. GateBecomes(Gate, moved)
      BY <1>10, <2>4 DEF Acquire
    <3>2. moved \in [Subagents -> Stages]
      BY DEF IInv, TypeOK, Stages, StartedStages
    <3>3. \A q \in Subagents : moved[q] = IF q = s THEN next ELSE stage[q]
      BY DEF IInv, TypeOK
    <3> HIDE DEF moved
    <3>4. IsRunning => /\ \A q \in Subagents : moved[q] \in StartedStages <=> q \in Members(Gate)
                       /\ \A q \in ToSet(Gate.parked) : moved[q] = "parked"
                       /\ \A q \in Subagents : moved[q] = "parked" => stage[q] = "parked"
      BY <2>1, <3>3 DEF StartedStages
    <3>5. (IsRunning' => IsRunning /\ aborting' = aborting) /\ Full(Gate, limit')
      BY <2>1, <2>2
    <3> QED BY <2>2, <3>1, <3>2, <3>4, <3>5, GateStep
  <2> QED BY <2>3, <2>4
<1>11. ASSUME NEW s \in Subagents, AbortRequest(s) PROVE IInv'
  <2> DEFINE g     == Aborted(Gate, s)
             moved == [stage EXCEPT ![s] = "thinking"]
  <2>1. /\ IsRunning /\ stage[s] \in {"missed", "parked"} /\ GateBecomes(g, moved)
        /\ UNCHANGED <<limit, outcome, aborting>>
    BY <1>11 DEF AbortRequest
  <2>2. /\ g \in Gates /\ GateOK(g) /\ Full(g, limit)
        /\ Members(g) = Members(Gate) /\ ToSet(g.parked) = ToSet(parked) \ {s}
    BY AbortedGate
  <2>3. moved \in [Subagents -> Stages]
    BY DEF IInv, TypeOK, Stages, StartedStages
  <2>4. \A q \in Subagents : moved[q] = IF q = s THEN "thinking" ELSE stage[q]
    BY DEF IInv, TypeOK
  <2> HIDE DEF g, moved
  <2>5. \A q \in Subagents : moved[q] \in StartedStages <=> q \in Members(g)
    BY <2>1, <2>2, <2>4 DEF StartedStages
  <2>6. /\ \A q \in ToSet(g.parked) : moved[q] = "parked"
        /\ \A q \in Subagents : moved[q] = "parked" => stage[q] = "parked"
    BY <2>1, <2>2, <2>4
  <2>7. limit' \in Limits /\ outcome' \in Outcomes /\ aborting' \subseteq Subagents
    BY <2>1 DEF IInv, TypeOK
  <2>8. (IsRunning' => IsRunning /\ aborting' = aborting) /\ Full(g, limit')
    BY <2>1, <2>2
  <2> QED BY <2>1, <2>2, <2>3, <2>5, <2>6, <2>7, <2>8, GateStep
<1>12. ASSUME UNCHANGED vars PROVE IInv'
  BY <1>12 DEF vars, IInv, TypeOK, AsksAreCounted, SeatsAreTaken, Started, IsRunning
<1> QED BY <1>1, <1>2, <1>3, <1>4, <1>5, <1>6, <1>7, <1>8, <1>9, <1>10, <1>11, <1>12 DEF Next, Turn

\* Whenever anyone is parked, more asks are active than the bound allows.
LEMMA ParkedMeansFull ==
    IInv /\ IsRunning /\ parked # <<>> => Cardinality(Active) > limit
<1> SUFFICES ASSUME IInv, IsRunning, parked # <<>> PROVE Cardinality(Active) > limit
  OBVIOUS
<1>1. IsFiniteSet(Active) /\ Cardinality(Active) \in Nat
  BY SeatAssumption, FS_Subset, FS_CardinalityType DEF Active
<1>2. limit \in Nat /\ Cardinality(working) >= limit
  BY SeatAssumption DEF IInv, TypeOK, SeatsAreTaken
<1>3. parked[1] \in ToSet(parked)
  <2>1. parked \in Seq(Subagents) /\ Len(parked) \in Nat /\ Len(parked) # 0
    BY EmptySeq, LenProperties DEF IInv, TypeOK
  <2> QED BY <2>1, Indexed
<1>4. parked[1] \in Active /\ parked[1] \notin working /\ working \subseteq Active
  BY <1>3 DEF IInv, AsksAreCounted, Started, Active
<1>5. /\ working \in SUBSET (Active \ {parked[1]}) /\ IsFiniteSet(Active \ {parked[1]})
      /\ Cardinality(Active \ {parked[1]}) = Cardinality(Active) - 1
  BY <1>1, <1>4, FS_RemoveElement
<1>6. Cardinality(working) <= Cardinality(Active \ {parked[1]}) /\ Cardinality(working) \in Nat
  BY <1>5, FS_Subset, FS_CardinalityType
<1> QED BY <1>1, <1>2, <1>5, <1>6

\* pumpAll() fills the free slots and no more.
LEMMA PumpFillsSlots ==
    ASSUME NEW n \in Nat, NEW active \in SUBSET Subagents, NEW some \in Pumpable(n, active),
           some # {}
    PROVE  Cardinality(active \cup some) <= n
<1>1. IsFiniteSet(active) /\ Cardinality(active) \in Nat
  BY SeatAssumption, FS_Subset, FS_CardinalityType
<1>2. some \in SUBSET Subagents
  BY DEF Pumpable, Queued
<1>3. IsFiniteSet(some) /\ Cardinality(some) \in Nat
  BY <1>2, SeatAssumption, FS_Subset, FS_CardinalityType
<1>4. Cardinality(some) # 0
  BY <1>3, FS_EmptySet
<1>5. IsFiniteSet(Queued) /\ Cardinality(Queued) \in Nat
  BY SeatAssumption, FS_Subset, FS_CardinalityType DEF Queued
<1>6. Cardinality(some) = Least(FreeSlots(n, active), Cardinality(Queued))
  BY DEF Pumpable
<1>7. Cardinality(active) < n /\ Cardinality(some) <= n - Cardinality(active)
  BY <1>1, <1>3, <1>4, <1>5, <1>6 DEF Least, FreeSlots
<1>8. active \cap some \in SUBSET some
  OBVIOUS
<1>9. Cardinality(active \cap some) \in Nat
  BY <1>3, <1>8, FS_Subset, FS_CardinalityType
<1>10. Cardinality(active \cup some) =
         Cardinality(active) + Cardinality(some) - Cardinality(active \cap some)
  BY <1>1, <1>3, FS_Union
<1> QED BY <1>1, <1>3, <1>7, <1>9, <1>10

\* Granting seats moves nobody into or out of the active asks.
LEMMA ActiveMoved ==
    ASSUME NEW g, NEW moved, GateBecomes(g, moved)
    PROVE  Active' = {q \in Subagents : moved[q] \in StartedStages \cup {"opening"}}
<1>1. \A q \in Subagents : stage'[q] = IF stage[q] = "parked" /\ moved[q] = "parked" /\ q \in g.working
                                    THEN "sending" ELSE moved[q]
  BY DEF GateBecomes
<1>2. \A q \in Subagents : stage'[q] \in StartedStages \cup {"opening"}
                             <=> moved[q] \in StartedStages \cup {"opening"}
  BY <1>1 DEF StartedStages
<1> QED BY <1>2 DEF Active

\* Nor does a step that moves one subagent, unless it dispatches that one.
LEMMA OneMoved ==
    ASSUME NEW g, NEW s \in Subagents, NEW place, stage \in [Subagents -> Stages],
           GateBecomes(g, [stage EXCEPT ![s] = place]),
           s \in Active \/ place \notin StartedStages \cup {"opening"}
    PROVE  Active' \subseteq Active
<1> DEFINE moved == [stage EXCEPT ![s] = place]
<1>1. \A q \in Subagents : moved[q] = IF q = s THEN place ELSE stage[q]
  OBVIOUS
<1>2. Active' = {q \in Subagents : moved[q] \in StartedStages \cup {"opening"}}
  BY ActiveMoved
<1> HIDE DEF moved
<1> SUFFICES ASSUME NEW q \in Active' PROVE q \in Active
  OBVIOUS
<1>3. q \in Subagents /\ moved[q] \in StartedStages \cup {"opening"}
  BY <1>2
<1>4. CASE q = s
  BY <1>1, <1>3, <1>4
<1>5. CASE q # s
  BY <1>1, <1>3, <1>5 DEF Active
<1> QED BY <1>4, <1>5

\* A step that dispatches leaves no more asks active than the bound allows.
LEMMA DispatchWithinBound ==
    ASSUME IInv, Next, ~(Active' \subseteq Active)
    PROVE  IsRunning' /\ Cardinality(Active') <= limit'
<1>0. limit \in Nat /\ Limits \subseteq Nat /\ Active \in SUBSET Subagents
  BY SeatAssumption DEF IInv, TypeOK, Active
<1>1. ASSUME NEW s \in Subagents, Ask(s) PROVE IsRunning' /\ Cardinality(Active') <= limit'
  <2>1. IsFiniteSet(Active) /\ Cardinality(Active) \in Nat
    BY <1>0, SeatAssumption, FS_Subset, FS_CardinalityType
  <2>2. Cardinality(Active) < limit
    <3> SUFFICES ASSUME ~(Cardinality(Active) < limit) PROVE Active' \subseteq Active
      OBVIOUS
    <3> QED BY <1>1 DEF Ask, Active, IInv, TypeOK, StartedStages
  <2>3. Active' = Active \cup {s}
    BY <1>1, <2>2 DEF Ask, Active, IInv, TypeOK, StartedStages
  <2>4. Cardinality(Active \cup {s}) =
          IF s \in Active THEN Cardinality(Active) ELSE Cardinality(Active) + 1
    BY <2>1, FS_AddElement
  <2>5. limit' = limit /\ IsRunning'
    BY <1>1 DEF Ask, IsRunning
  <2> QED BY <1>0, <2>1, <2>2, <2>3, <2>4, <2>5
<1>2. ASSUME NEW s \in Subagents, Settle(s) PROVE IsRunning' /\ Cardinality(Active') <= limit'
  <2>1. PICK some \in Pumpable(limit, Active \ {s}) :
          GateBecomes(AskSettled(Gate, s), [Moved(some, "opening") EXCEPT ![s] = "idle"])
    BY <1>2 DEF Settle
  <2> DEFINE moved == [Moved(some, "opening") EXCEPT ![s] = "idle"]
  <2>2. Active' = {q \in Subagents : moved[q] \in StartedStages \cup {"opening"}}
    BY <2>1, ActiveMoved
  <2>3. \A q \in Subagents :
           moved[q] = IF q = s THEN "idle" ELSE IF q \in some THEN "opening" ELSE stage[q]
    BY DEF Moved
  <2>4. \A q \in some : q \in Subagents /\ stage[q] = "queued"
    BY DEF Pumpable, Queued
  <2>5. s \notin some
    BY <1>2, <2>4 DEF Settle
  <2> HIDE DEF moved
  <2>6. Active' = (Active \ {s}) \cup some
    BY <2>2, <2>3, <2>4, <2>5 DEF Active, StartedStages
  <2>7. some # {}
    BY <2>6
  <2>8. Cardinality((Active \ {s}) \cup some) <= limit
    BY <1>0, <2>7, PumpFillsSlots
  <2> QED BY <1>2, <2>6, <2>8 DEF Settle, IsRunning
<1>3. ASSUME NEW n \in Limits, Retune(n) PROVE IsRunning' /\ Cardinality(Active') <= limit'
  <2>1. PICK some \in IF n > limit THEN Pumpable(n, Active) ELSE {{}} :
          GateBecomes(Unparked(Gate, n), Moved(some, "opening"))
    BY <1>3 DEF Retune
  <2>2. \A q \in some : q \in Subagents /\ stage[q] = "queued"
    BY DEF Pumpable, Queued
  <2>3. Active' = {q \in Subagents : Moved(some, "opening")[q] \in StartedStages \cup {"opening"}}
    BY <2>1, ActiveMoved
  <2>4. Active' = Active \cup some
    BY <2>2, <2>3 DEF Active, Moved, StartedStages
  <2>5. some # {} /\ some \in Pumpable(n, Active)
    BY <2>1, <2>4
  <2>6. Cardinality(Active \cup some) <= n
    BY <1>0, <2>5, PumpFillsSlots
  <2> QED BY <1>3, <2>4, <2>6 DEF Retune, IsRunning
<1>4. ASSUME NEW s \in Subagents,
             StartAsk(s) \/ AbortOne(s) \/ Turn(s) \/ AbortRequest(s)
      PROVE  FALSE
  <2>0. stage \in [Subagents -> Stages]
    BY DEF IInv, TypeOK
  <2>1. CASE StartAsk(s)
    <3>1. GateBecomes(AskStarted(Gate, s), [stage EXCEPT ![s] = "thinking"]) /\ s \in Active
      BY <2>1 DEF StartAsk, Active
    <3> QED BY <2>0, <3>1, OneMoved
  <2>2. CASE AbortOne(s)
    <3> DEFINE place == IF stage[s] = "missed" THEN "missed" ELSE "idle"
    <3>1. PICK g : GateBecomes(g, [stage EXCEPT ![s] = place])
      BY <2>2 DEF AbortOne
    <3>2. s \in Active \/ place \notin StartedStages \cup {"opening"}
      BY DEF Active, StartedStages
    <3> HIDE DEF place
    <3> QED BY <2>0, <3>1, <3>2, OneMoved
  <2>3. CASE TryRequest(s)
    BY <2>3 DEF TryRequest, Active, IInv, TypeOK, StartedStages
  <2>4. CASE EndRequest(s)
    BY <2>4 DEF EndRequest, Active, IInv, TypeOK, StartedStages
  <2>5. CASE EndTools(s)
    BY <2>5 DEF EndTools, Active, IInv, TypeOK, StartedStages
  <2>6. CASE Acquire(s)
    <3>1. s \in Active
      BY <2>6 DEF Acquire, Active, StartedStages
    <3>2. \/ GateBecomes(Parked(Gate, s), [stage EXCEPT ![s] = "parked"])
          \/ GateBecomes(Gate, [stage EXCEPT ![s] = "sending"])
          \/ GateBecomes(Gate, [stage EXCEPT ![s] = "idle"])
      BY <2>6 DEF Acquire
    <3> QED BY <2>0, <3>1, <3>2, OneMoved
  <2>7. CASE AbortRequest(s)
    <3>1. GateBecomes(Aborted(Gate, s), [stage EXCEPT ![s] = "thinking"]) /\ s \in Active
      BY <2>7 DEF AbortRequest, Active, StartedStages
    <3> QED BY <2>0, <3>1, OneMoved
  <2> QED BY <1>4, <2>1, <2>2, <2>3, <2>4, <2>5, <2>6, <2>7 DEF Turn
<1>5. ASSUME NEW how, SettleRun(how) PROVE FALSE
  BY <1>5 DEF SettleRun, Active
<1> QED BY <1>1, <1>2, <1>3, <1>4, <1>5 DEF Next

--------------------------------------------------------------------------------
(* Theorems. *)

\* The inductive invariant of the gate, whatever the bounds, retunes, aborts and settlements.
THEOREM SeatInvariant == Spec => []IInv
BY SeatsFree, SeatsKept, PTL DEF Spec

\* No deadlock at any limit: while somebody waits for a seat, as many work as the limit
\* allows (unpark() in setLimit and askSettled, onAbort's return to working).
THEOREM LastSeatTaken == Spec => []SeatsAreTaken
<1>1. IInv => SeatsAreTaken
  BY DEF IInv
<1> QED BY <1>1, SeatInvariant, PTL

\* activeAsks = working + parked, from askStarted to askSettled.
THEOREM EveryAskCounted == Spec => []AsksAreCounted
<1>1. IInv => AsksAreCounted
  BY DEF IInv
<1> QED BY <1>1, SeatInvariant, PTL

\* The scheduler never dispatches past a parked subagent: what it dispatches fits the bound,
\* and with anyone parked the active asks would not.
THEOREM NeverPastParked == Spec => NoDispatchPastParked
<1>1. ASSUME IInv, IInv', [Next]_vars, ~(Active' \subseteq Active) PROVE parked' = <<>>
  <2>1. CASE Next
    <3>1. IsRunning' /\ Cardinality(Active') <= limit'
      BY <1>1, <2>1, DispatchWithinBound
    <3>2. (IInv /\ IsRunning /\ parked # <<>> => Cardinality(Active) > limit)'
      BY ParkedMeansFull, PTL
    <3>3. limit' \in Nat /\ Cardinality(Active') \in Nat
      <4>1. Active' \in SUBSET Subagents
        BY DEF Active
      <4>2. Cardinality(Active') \in Nat
        BY <4>1, SeatAssumption, FS_Subset, FS_CardinalityType
      <4> QED BY <1>1, <4>2, SeatAssumption DEF IInv, TypeOK
    <3> QED BY <1>1, <3>1, <3>2, <3>3
  <2>2. CASE UNCHANGED vars
    BY <1>1, <2>2 DEF vars, Active
  <2> QED BY <1>1, <2>1, <2>2
<1>2. IInv /\ IInv' /\ [Next]_vars => [~(Active' \subseteq Active) => parked' = <<>>]_vars
  BY <1>1
<1> QED BY <1>2, SeatInvariant, PTL DEF Spec, NoDispatchPastParked
================================================================================
