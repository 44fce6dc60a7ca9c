---------------------------- MODULE EngineReplayProofs ----------------------------
(***************************************************************************)
(* A life that resumes a run is told the one history of the run, from its  *)
(* beginning and in the order in which the calls first settled, before it  *)
(* can add to it; so the calls it makes are numbered as the journal has    *)
(* them, and the engine implements a durable run.  This holds for every    *)
(* script, every number of subagents, stops, deaths and lives, up to the   *)
(* step at which the journal first bears one of the three marks of         *)
(* EngineRefinement: a settlement torn by a death, an ask that a stop      *)
(* cancelled and another overtook, a live answer ahead of the replay.      *)
(***************************************************************************)
EXTENDS EnginePlacesProofs, EngineRefinement

--------------------------------------------------------------------------------
(* What the log says: the inductive invariant of the history. *)

\* Each settled ask was logged once when it settled, with its outcome, and before every
\* other answer that repeats it.
LogIsSound(log, rw) ==
    /\ \A m, n \in SettledAt(log) : log[m].inst = log[n].inst => m = n
    /\ \A n \in SettledAt(log) : /\ log[n].inst \in Rows(rw) /\ rw[log[n].inst].status # "running"
                                 /\ log[n].outcome = OutcomeOf[rw[log[n].inst].status]
    /\ \A i \in Rows(rw) : rw[i].status # "running" => \E n \in SettledAt(log) : log[n].inst = i
    /\ \A n \in DOMAIN log : IsAnswer(log[n]) =>
           \E m \in SettledAt(log) : m <= n /\ log[m].inst = log[n].inst

RunRowAgrees == (Running => run.status = "running") /\ (up /\ runSettled => run.status # "running")

\* The gate of a life that is told T of the history H: it was opened over a beginning of H,
\* has passed what the life was told and what is on its way, in that order, and H is longer
\* only once all of that beginning was told.
CaughtUp(g) == g.cursor > Len(g.order) /\ g.queue = <<>>
QueueIsPart(q, o, c) == Len(q) <= c - 1 /\ \A m \in 1..Len(q) : q[m] = o[c - 1 - Len(q) + m]
GateFollows(g, H, T) ==
    /\ ~g.opened
    /\ Len(g.order) <= Len(H) /\ \A k \in DOMAIN g.order : g.order[k] = H[k][1]
    /\ g.cursor - 1 <= Len(g.order) /\ QueueIsPart(g.queue, g.order, g.cursor)
    /\ Len(T) = g.cursor - 1 - Len(g.queue) + (Len(H) - Len(g.order))
    /\ Len(H) > Len(g.order) => CaughtUp(g)

\* What the life was told is a beginning of the history, and the answers on their way
\* are the end of it.
IsBeginning(T, H) == Len(T) <= Len(H) /\ \A n \in DOMAIN T : T[n] = H[n]
IsEnding(box, T)  == Len(box) <= Len(T) /\ \A m \in DOMAIN box : box[m] = T[Len(T) - Len(box) + m]
ToldFollows(H, T, box) == IsBeginning(T, H) /\ IsEnding(box, T)

\* What this life has reached, of all subagents.
ReachedAny(rw, as) == UNION {Reached(rw, as, a) : a \in Actors}

\* The life has reached what its gate has passed; a settled ask it has not reached is one
\* its gate waits for.
GateKnows(g, rw, as) ==
    /\ \A k \in DOMAIN g.order : k < g.cursor => g.order[k] \in ReachedAny(rw, as)
    /\ \A i \in Rows(rw) : rw[i].status # "running" =>
           i \in ReachedAny(rw, as) \/ i \in Elements(g.order)

HistoryInv ==
    /\ PlacesInv
    /\ LogIsSound(events, rows) /\ RunRowAgrees
    /\ Running => /\ GateFollows(gate, History, LifeTold)
                  /\ ToldFollows(History, LifeTold, inbox)
                  /\ GateKnows(gate, rows, actors)
--------------------------------------------------------------------------------
(* What the script does: the inductive invariant of the ordinals. *)

\* The causes of the script's calls: first the starts of its branches, then the answers
\* of the history H, each of which lets one branch go on.
Starts == Len(BranchOrder)
Causes(H) == 1..(Starts + Len(H))

\* The hash of the call whose answer the q-th cause is.
Answered(H, rw, q) == rw[H[q - Starts][1]].hash
\* A cause makes a call: a start does, and an answer does when its branch has calls left
\* and does not end at a failure that it does not catch.
Makes(H, rw, q) ==
    q > Starts =>
        LET h == Answered(H, rw, q)
        IN  h[2] < Len(Prog[h[1]]) /\ ~(H[q - Starts][2] = "failed" /\ h[1] \in Throwing)
CallOf(H, rw, q) ==
    IF q <= Starts
    THEN <<BranchOrder[q], 1, "start">>
    ELSE LET h == Answered(H, rw, q) IN <<h[1], h[2] + 1, H[q - Starts][2]>>
SiteOf(hash) == Prog[hash[1]][hash[2]][1]

\* The causes in Q that make a call of site s.
CallsOfSite(H, rw, Q, s) == {q \in Q : Makes(H, rw, q) /\ SiteOf(CallOf(H, rw, q)) = s}
\* Call i with that hash is made by a cause, and numbered by its place among the causes.
MadeBy(H, rw, q, i, hash) ==
    /\ Makes(H, rw, q) /\ hash = CallOf(H, rw, q)
    /\ i = <<SiteOf(hash), Cardinality(CallsOfSite(H, rw, 1..q, SiteOf(hash)))>>
IsMade(H, rw, i, hash) == \E q \in Causes(H) : MadeBy(H, rw, q, i, hash)

\* The causes that this life has acted on.
Consumed == Len(LifeTold) - Len(inbox)
Done(p, consumed, H) ==
    {q \in Causes(H) : IF q <= Starts THEN p[BranchOrder[q]] > 0 ELSE q - Starts <= consumed}

\* Branches start in order and before any of them goes on.
StartsInOrder(p, consumed) ==
    /\ \A m, n \in DOMAIN BranchOrder : m < n /\ p[BranchOrder[n]] > 0 => p[BranchOrder[m]] > 0
    /\ consumed > 0 => \A b \in Branches : p[b] > 0

\* A branch awaits the call of its own step.
AskingMatches(ask, p, rw, as) ==
    \A b \in Branches : ask[b] # NoInst =>
        /\ rw[ask[b]] # NoRow => rw[ask[b]].hash[1] = b /\ rw[ask[b]].hash[2] = p[b]
        /\ \A a \in Actors : \A n \in DOMAIN as[a].pendingLive :
               as[a].pendingLive[n][1] = ask[b] =>
                   as[a].pendingLive[n][2][1] = b /\ as[a].pendingLive[n][2][2] = p[b]

WaitingAreMade(H, rw, as) ==
    \A a \in Actors : \A n \in DOMAIN as[a].pendingLive :
        IsMade(H, rw, as[a].pendingLive[n][1], as[a].pendingLive[n][2])

OrdinalsCount(os, H, rw, p, consumed) ==
    \A s \in Sites : os[s] = Cardinality(CallsOfSite(H, rw, Done(p, consumed, H), s))

ReplayInv ==
    /\ HistoryInv
    /\ \A i \in Recorded : IsMade(History, rows, i, rows[i].hash)
    /\ Running => /\ StartsInOrder(pc, Consumed)
                  /\ AskingMatches(asking, pc, rows, actors)
                  /\ WaitingAreMade(History, rows, actors)
                  /\ OrdinalsCount(ordinals, History, rows, pc, Consumed)
    /\ NoReplayMismatch
--------------------------------------------------------------------------------
(* Reading a log. *)

\* s names every element of S by increasing rank.
Enumerates(s, S, rank) ==
    /\ s \in Seq(S)
    /\ \A i \in S : \E n \in DOMAIN s : s[n] = i
    /\ \A m, n \in DOMAIN s : m < n => rank[s[m]] < rank[s[n]]

\* There is only one such order.
LEMMA OneOrder ==
    ASSUME NEW S, NEW rank, \A i \in S : rank[i] \in Int,
           NEW s, NEW t, Enumerates(s, S, rank), Enumerates(t, S, rank)
    PROVE  Len(s) <= Len(t) /\ \A n \in DOMAIN s : s[n] = t[n]
<1>1. /\ Len(s) \in Nat /\ DOMAIN s = 1..Len(s) /\ \A n \in 1..Len(s) : s[n] \in S
      /\ Len(t) \in Nat /\ DOMAIN t = 1..Len(t) /\ \A n \in 1..Len(t) : t[n] \in S
  BY LenProperties, ElementOfSeq DEF Enumerates
<1> DEFINE D == {n \in 1..Len(s) : ~(n <= Len(t) /\ s[n] = t[n])}
<1>2. D = {}
  <2> SUFFICES ASSUME D # {} PROVE FALSE
    OBVIOUS
  <2>1. D \in SUBSET Nat
    BY <1>1
  <2>2. PICK n \in D : \A m \in D : n <= m
    <3> HIDE DEF D
    <3> QED BY <2>1, SmallestNat
  <2>3. n \in 1..Len(s) /\ ~(n <= Len(t) /\ s[n] = t[n])
    OBVIOUS
  <2>4. \A m \in 1..Len(s) : m < n => m <= Len(t) /\ s[m] = t[m]
    BY <1>1, <2>2, <2>3
  <2> HIDE DEF D
  <2>5. PICK k \in 1..Len(t) : t[k] = s[n]
    BY <1>1, <2>3 DEF Enumerates
  <2>6. ~(k < n)
    <3> SUFFICES ASSUME k < n PROVE FALSE
      OBVIOUS
    <3>1. k \in 1..Len(s) /\ s[k] = t[k]
      BY <1>1, <2>3, <2>4, <2>5
    <3>2. rank[s[k]] < rank[s[n]]
      BY <1>1, <2>3, <3>1 DEF Enumerates
    <3>3. rank[s[n]] \in Int /\ s[k] = s[n]
      BY <1>1, <2>3, <2>5, <3>1
    <3> QED BY <3>2, <3>3
  <2>7. k # n
    BY <1>1, <2>3, <2>5
  <2>8. n < k /\ n \in 1..Len(t)
    BY <1>1, <2>3, <2>5, <2>6, <2>7
  <2>9. rank[t[n]] < rank[t[k]]
    BY <1>1, <2>5, <2>8 DEF Enumerates
  <2>10. PICK j \in 1..Len(s) : s[j] = t[n]
    BY <1>1, <2>8 DEF Enumerates
  <2>11. ~(n < j)
    <3> SUFFICES ASSUME n < j PROVE FALSE
      OBVIOUS
    <3>1. rank[s[n]] < rank[s[j]]
      BY <1>1, <2>3, <2>10 DEF Enumerates
    <3>2. rank[s[n]] \in Int /\ rank[s[j]] \in Int
      BY <1>1, <2>3, <2>10
    <3> QED BY <2>5, <2>9, <2>10, <3>1, <3>2
  <2>12. j # n
    BY <2>3, <2>8, <2>10
  <2>13. j < n /\ s[j] = t[j] /\ j \in 1..Len(t)
    BY <1>1, <2>3, <2>4, <2>10, <2>11, <2>12
  <2>14. rank[t[j]] < rank[t[n]]
    BY <1>1, <2>8, <2>13 DEF Enumerates
  <2>15. rank[t[n]] \in Int /\ t[j] = t[n]
    BY <1>1, <2>8, <2>10, <2>13
  <2> QED BY <2>14, <2>15
<1>3. \A n \in 1..Len(s) : n <= Len(t) /\ s[n] = t[n]
  BY <1>2
<1>4. Len(s) <= Len(t)
  <2>1. CASE Len(s) = 0
    BY <1>1, <2>1
  <2>2. CASE Len(s) # 0
    BY <1>1, <1>3, <2>2
  <2> QED BY <2>1, <2>2
<1> QED BY <1>1, <1>3, <1>4

LEMMA SameOrder ==
    ASSUME NEW S, NEW rank, \A i \in S : rank[i] \in Int,
           NEW s, NEW t, Enumerates(s, S, rank), Enumerates(t, S, rank)
    PROVE  s = t
<1>1. s \in Seq(S) /\ t \in Seq(S)
  BY DEF Enumerates
<1>2. Len(s) <= Len(t) /\ Len(t) <= Len(s) /\ \A n \in DOMAIN s : s[n] = t[n]
  <2>1. Len(s) <= Len(t) /\ \A n \in DOMAIN s : s[n] = t[n]
    BY OneOrder
  <2>2. Len(t) <= Len(s)
    BY OneOrder
  <2> QED BY <2>1, <2>2
<1>3. Len(s) \in Nat /\ Len(t) \in Nat /\ DOMAIN s = 1..Len(s)
  BY <1>1, LenProperties
<1>4. Len(s) = Len(t)
  BY <1>2, <1>3
<1> QED BY <1>1, <1>2, <1>3, <1>4, SeqEqual

\* Sorting finds it.
LEMMA SortEnumerates ==
    ASSUME NEW S, IsFiniteSet(S), NEW rank, \A i \in S : rank[i] \in Int,
           \A i, j \in S : rank[i] = rank[j] => i = j
    PROVE  Enumerates(SortedBy(S, rank), S, rank)
<1>1. Lists(SortedBy(S, rank), S, rank)
  BY SortedByRank
<1> QED BY <1>1 DEF Lists, Enumerates

\* The places of a log by their numbers.
ByNumber(S) == [n \in S |-> n]

LEMMA NumbersSorted ==
    ASSUME NEW S \in SUBSET Nat, IsFiniteSet(S)
    PROVE  Enumerates(SortedBy(S, ByNumber(S)), S, ByNumber(S))
<1>1. \A i \in S : ByNumber(S)[i] = i /\ i \in Int
  BY DEF ByNumber
<1> QED BY <1>1, SortEnumerates

\* The k-th place in that order is the one with k places up to it.
LEMMA CountedPlaces ==
    ASSUME NEW S \in SUBSET Nat, NEW at, Enumerates(at, S, ByNumber(S))
    PROVE  /\ IsFiniteSet(S) /\ Cardinality(S) = Len(at)
           /\ Len(at) \in Nat /\ DOMAIN at = 1..Len(at) /\ \A k \in DOMAIN at : at[k] \in S
           /\ \A m, n \in DOMAIN at : m < n => at[m] < at[n]
           /\ \A k \in DOMAIN at : Cardinality({m \in S : m <= at[k]}) = k
<1>1. /\ Len(at) \in Nat /\ DOMAIN at = 1..Len(at) /\ \A n \in 1..Len(at) : at[n] \in S
      /\ \A i \in S : \E n \in 1..Len(at) : at[n] = i
  BY LenProperties, ElementOfSeq DEF Enumerates
<1>2. \A m, n \in 1..Len(at) : m < n => at[m] < at[n]
  BY <1>1 DEF Enumerates, ByNumber
<1>3. \A m, n \in 1..Len(at) : at[m] = at[n] => m = n
  <2> SUFFICES ASSUME NEW m \in 1..Len(at), NEW n \in 1..Len(at), at[m] = at[n], m # n
               PROVE  FALSE
    OBVIOUS
  <2>1. at[m] \in Nat
    BY <1>1
  <2>2. m < n \/ n < m
    BY <1>1
  <2> QED BY <1>2, <2>1, <2>2
<1>4. ASSUME NEW k \in 0..Len(at)
      PROVE  LET T == {at[n] : n \in 1..k} IN IsFiniteSet(T) /\ Cardinality(T) = k
  <2>1. IsFiniteSet(1..k) /\ Cardinality(1..k) = k
    BY <1>1, FS_Interval
  <2>2. \A m, n \in 1..k : at[m] = at[n] => m = n
    BY <1>1, <1>3
  <2>3. IsFiniteSet(Values(at, 1..k)) /\ Cardinality(Values(at, 1..k)) = k
    BY <2>1, <2>2, DistinctImage
  <2> QED BY <2>3 DEF Values
<1>5. IsFiniteSet(S) /\ Cardinality(S) = Len(at)
  <2>1. S = {at[n] : n \in 1..Len(at)}
    BY <1>1
  <2>2. Len(at) \in 0..Len(at)
    BY <1>1
  <2> QED BY <1>4, <2>1, <2>2
<1>6. ASSUME NEW k \in 1..Len(at) PROVE Cardinality({m \in S : m <= at[k]}) = k
  <2>1. ASSUME NEW m \in S, m <= at[k] PROVE m \in {at[n] : n \in 1..k}
    <3>1. PICK n \in 1..Len(at) : at[n] = m
      BY <1>1
    <3>2. ~(k < n)
      <4>1. at[k] \in Nat /\ m \in Nat
        BY <1>1
      <4> QED BY <1>2, <2>1, <3>1, <4>1
    <3> QED BY <1>1, <3>1, <3>2
  <2>2. ASSUME NEW n \in 1..k PROVE at[n] \in S /\ at[n] <= at[k]
    <3>0. n \in 1..Len(at)
      <4>1. Len(at) \in Nat
        BY <1>1
      <4> QED BY <4>1
    <3>1. n \in 1..Len(at) /\ at[n] \in S /\ at[n] \in Nat /\ at[k] \in Nat
      BY <1>1, <3>0
    <3>2. CASE n < k
      <4>1. at[n] < at[k]
        BY <1>2, <3>1, <3>2
      <4> QED BY <3>1, <4>1
    <3>3. CASE n = k
      BY <3>1, <3>3
    <3> QED BY <1>1, <3>1, <3>2, <3>3
  <2>3. {m \in S : m <= at[k]} = {at[n] : n \in 1..k}
    BY <2>1, <2>2
  <2>4. k \in 0..Len(at)
    BY <1>1
  <2> QED BY <1>4, <2>3, <2>4
<1> QED BY <1>1, <1>2, <1>5, <1>6

\* So the answers of a log at the places S are those at its ordered places.
AnswerOf(e) == <<e.inst, e.outcome>>

LEMMA AnswersRead ==
    ASSUME NEW log, NEW S \in SUBSET Nat, NEW at, Enumerates(at, S, ByNumber(S))
    PROVE  AnswersAt(log, S) = [k \in 1..Len(at) |-> AnswerOf(log[at[k]])]
<1> DEFINE Nth(k) == CHOOSE n \in S : Cardinality({m \in S : m <= n}) = k
<1>1. /\ Cardinality(S) = Len(at) /\ DOMAIN at = 1..Len(at)
      /\ \A k \in 1..Len(at) : at[k] \in S /\ Cardinality({m \in S : m <= at[k]}) = k
      /\ \A n \in S : \E k \in 1..Len(at) : at[k] = n
  <2>1. \A n \in S : \E k \in DOMAIN at : at[k] = n
    BY DEF Enumerates
  <2> QED BY <2>1, CountedPlaces
<1>2. ASSUME NEW k \in 1..Len(at) PROVE Nth(k) = at[k]
  <2>1. at[k] \in S /\ Cardinality({m \in S : m <= at[k]}) = k
    BY <1>1
  <2>2. Nth(k) \in S /\ Cardinality({m \in S : m <= Nth(k)}) = k
    BY <2>1
  <2> HIDE DEF Nth
  <2>3. PICK j \in 1..Len(at) : at[j] = Nth(k)
    BY <1>1, <2>2
  <2>4. Cardinality({m \in S : m <= at[j]}) = j
    BY <1>1
  <2> QED BY <2>2, <2>3, <2>4
<1>3. AnswersAt(log, S) = [k \in 1..Cardinality(S) |-> <<log[Nth(k)].inst, log[Nth(k)].outcome>>]
  BY DEF AnswersAt
<1> HIDE DEF Nth
<1> QED BY <1>1, <1>2, <1>3 DEF AnswerOf

\* They are a sequence of the answers at these places.
LEMMA AnswersType ==
    ASSUME NEW log, NEW S \in SUBSET Nat, IsFiniteSet(S), NEW X,
           \A n \in S : AnswerOf(log[n]) \in X
    PROVE  /\ AnswersAt(log, S) \in Seq(X) /\ Len(AnswersAt(log, S)) = Cardinality(S)
           /\ DOMAIN AnswersAt(log, S) = 1..Cardinality(S) /\ Cardinality(S) \in Nat
<1> DEFINE at == SortedBy(S, ByNumber(S))
<1>1. Enumerates(at, S, ByNumber(S))
  BY NumbersSorted
<1> HIDE DEF at
<1>2. /\ Cardinality(S) = Len(at) /\ Len(at) \in Nat /\ DOMAIN at = 1..Len(at)
      /\ \A k \in DOMAIN at : at[k] \in S
  BY <1>1, CountedPlaces
<1>3. AnswersAt(log, S) = [k \in 1..Len(at) |-> AnswerOf(log[at[k]])]
  BY <1>1, AnswersRead
<1> DEFINE h == [k \in 1..Len(at) |-> AnswerOf(log[at[k]])]
<1>4. \A k \in 1..Len(at) : h[k] \in X
  BY <1>2
<1> HIDE DEF h
<1>5. h \in Seq(X) /\ Len(h) = Len(at) /\ DOMAIN h = 1..Len(at)
  <2>1. h = [k \in 1..Len(at) |-> h[k]]
    BY DEF h
  <2>2. h \in Seq(X)
    BY <1>2, <1>4, <2>1, IsASeq
  <2>3. DOMAIN h = 1..Len(at)
    BY DEF h
  <2> QED BY <1>2, <2>2, <2>3, LenProperties
<1> QED BY <1>2, <1>3, <1>5 DEF h

\* Each of the places has its answer among them.
LEMMA AnswersFound ==
    ASSUME NEW log, NEW S \in SUBSET Nat, IsFiniteSet(S), NEW n \in S
    PROVE  \E k \in DOMAIN AnswersAt(log, S) : AnswersAt(log, S)[k][1] = log[n].inst
<1> DEFINE at == SortedBy(S, ByNumber(S))
<1>1. Enumerates(at, S, ByNumber(S))
  BY NumbersSorted
<1> HIDE DEF at
<1>2. AnswersAt(log, S) = [k \in 1..Len(at) |-> AnswerOf(log[at[k]])] /\ DOMAIN at = 1..Len(at)
  BY <1>1, AnswersRead, CountedPlaces
<1>3. PICK k \in 1..Len(at) : at[k] = n
  BY <1>1, <1>2 DEF Enumerates
<1> QED BY <1>2, <1>3 DEF AnswerOf

\* What is appended to a log stands behind it: the places up to its old end read as before,
\* and those of what was appended follow them.
\* (Joined hides the concatenation from the arithmetic below.)
Joined(s, t) == s \o t
Appended(log, t) == {Len(log) + k : k \in 1..Len(t)}

LEMMA JoinedType ==
    ASSUME NEW U, NEW log \in Seq(U), NEW t \in Seq(U)
    PROVE  Joined(log, t) \in Seq(U)
BY ConcatProperties DEF Joined

LEMMA JoinedReads ==
    ASSUME NEW U, NEW log \in Seq(U), NEW t \in Seq(U)
    PROVE  /\ Len(log) \in Nat /\ Len(t) \in Nat
           /\ DOMAIN log = 1..Len(log) /\ DOMAIN t = 1..Len(t)
           /\ \A n \in 1..Len(log) : Joined(log, t)[n] = log[n]
           /\ \A k \in 1..Len(t) : Joined(log, t)[Len(log) + k] = t[k]
<1>1. /\ Len(log) \in Nat /\ Len(t) \in Nat /\ DOMAIN log = 1..Len(log) /\ DOMAIN t = 1..Len(t)
      /\ log \o t \in Seq(U) /\ Len(log \o t) = Len(log) + Len(t)
      /\ \A n \in 1..(Len(log) + Len(t)) :
             (log \o t)[n] = IF n <= Len(log) THEN log[n] ELSE t[n - Len(log)]
  BY LenProperties, ConcatProperties
<1>2. \A n \in 1..Len(log) : (log \o t)[n] = log[n]
  BY <1>1
<1>3. \A k \in 1..Len(t) : (log \o t)[Len(log) + k] = t[k]
  <2> TAKE k \in 1..Len(t)
  <2>1. /\ Len(log) + k \in 1..(Len(log) + Len(t)) /\ ~(Len(log) + k <= Len(log))
        /\ Len(log) + k - Len(log) = k
    BY <1>1
  <2> QED BY <1>1, <2>1
<1> QED BY <1>1, <1>2, <1>3 DEF Joined

LEMMA JoinedPlaces ==
    ASSUME NEW U, NEW log \in Seq(U), NEW t \in Seq(U)
    PROVE  /\ Len(log) \in Nat /\ Len(t) \in Nat
           /\ DOMAIN log = 1..Len(log) /\ DOMAIN t = 1..Len(t)
           /\ DOMAIN Joined(log, t) = DOMAIN log \cup Appended(log, t)
<1>1. /\ Len(log) \in Nat /\ Len(t) \in Nat /\ DOMAIN log = 1..Len(log) /\ DOMAIN t = 1..Len(t)
      /\ log \o t \in Seq(U) /\ Len(log \o t) = Len(log) + Len(t)
  BY LenProperties, ConcatProperties
<1>2. DOMAIN (log \o t) = 1..(Len(log) + Len(t))
  BY <1>1, LenProperties
<1>3. 1..(Len(log) + Len(t)) = (1..Len(log)) \cup Appended(log, t)
  <2>1. ASSUME NEW n \in 1..(Len(log) + Len(t)), n \notin 1..Len(log)
        PROVE  n \in Appended(log, t)
    <3>1. n - Len(log) \in 1..Len(t) /\ n = Len(log) + (n - Len(log))
      BY <1>1, <2>1
    <3> QED BY <3>1 DEF Appended
  <2>2. Appended(log, t) \subseteq 1..(Len(log) + Len(t))
    BY <1>1 DEF Appended
  <2>3. 1..Len(log) \subseteq 1..(Len(log) + Len(t))
    BY <1>1
  <2> QED BY <2>1, <2>2, <2>3
<1> QED BY <1>1, <1>2, <1>3 DEF Joined

\* The answers a batch of events brings.
AnswersOf(t) == [k \in 1..Len(t) |-> AnswerOf(t[k])]

LEMMA AnswersKept ==
    ASSUME NEW U, NEW log \in Seq(U), NEW t \in Seq(U), NEW S \in SUBSET DOMAIN log
    PROVE  AnswersAt(Joined(log, t), S) = AnswersAt(log, S)
<1>0. PICK w : w = Joined(log, t)
  OBVIOUS
<1> DEFINE at   == SortedBy(S, ByNumber(S))
<1>1. /\ Len(log) \in Nat /\ Len(t) \in Nat /\ DOMAIN log = 1..Len(log)
      /\ \A n \in 1..Len(log) : w[n] = log[n]
      /\ \A k \in 1..Len(t) : w[Len(log) + k] = t[k]
  BY <1>0, JoinedReads
<1>2. IsFiniteSet(S) /\ S \in SUBSET Nat /\ \A n \in S : n <= Len(log)
  <2>1. IsFiniteSet(1..Len(log))
    BY <1>1, FS_Interval
  <2> QED BY <1>1, <2>1, FS_Subset
<1>3. Enumerates(at, S, ByNumber(S))
  BY <1>2, NumbersSorted
<1> HIDE DEF at
<1>4. /\ Len(at) \in Nat /\ DOMAIN at = 1..Len(at) /\ \A k \in 1..Len(at) : at[k] \in S
      /\ \A m, n \in 1..Len(at) : m < n => at[m] < at[n]
      /\ \A i \in S : \E n \in 1..Len(at) : at[n] = i
  <2>1. \A i \in S : \E n \in DOMAIN at : at[n] = i
    BY <1>3 DEF Enumerates
  <2> QED BY <1>2, <1>3, <2>1, CountedPlaces
<1>5. /\ AnswersAt(log, S) = [k \in 1..Len(at) |-> AnswerOf(log[at[k]])]
      /\ AnswersAt(w, S) = [k \in 1..Len(at) |-> AnswerOf(w[at[k]])]
  <2>1. AnswersAt(log, S) = [k \in 1..Len(at) |-> AnswerOf(log[at[k]])]
    BY <1>2, <1>3, AnswersRead
  <2>2. AnswersAt(w, S) = [k \in 1..Len(at) |-> AnswerOf(w[at[k]])]
    BY <1>2, <1>3, AnswersRead
  <2> QED BY <2>1, <2>2
<1>6. \A k \in 1..Len(at) : w[at[k]] = log[at[k]] /\ at[k] \in 1..Len(log)
  BY <1>1, <1>4
<1> QED BY <1>0, <1>5, <1>6

LEMMA AnswersExtended ==
    ASSUME NEW U, NEW log \in Seq(U), NEW t \in Seq(U), NEW S \in SUBSET DOMAIN log
    PROVE  AnswersAt(Joined(log, t), S \cup Appended(log, t)) = Joined(AnswersAt(log, S), AnswersOf(t))
<1>0. PICK w : w = Joined(log, t)
  OBVIOUS
<1> DEFINE at   == SortedBy(S, ByNumber(S))
           both == S \cup Appended(log, t)
           on   == [k \in 1..(Len(at) + Len(t)) |->
                       IF k <= Len(at) THEN at[k] ELSE Len(log) + (k - Len(at))]
<1>1. /\ Len(log) \in Nat /\ Len(t) \in Nat /\ DOMAIN log = 1..Len(log)
      /\ \A n \in 1..Len(log) : w[n] = log[n]
      /\ \A k \in 1..Len(t) : w[Len(log) + k] = t[k]
  BY <1>0, JoinedReads
<1>2. IsFiniteSet(S) /\ S \in SUBSET Nat /\ \A n \in S : n <= Len(log)
  <2>1. IsFiniteSet(1..Len(log))
    BY <1>1, FS_Interval
  <2> QED BY <1>1, <2>1, FS_Subset
<1>3. Enumerates(at, S, ByNumber(S))
  BY <1>2, NumbersSorted
<1> HIDE DEF at
<1>4. /\ Len(at) \in Nat /\ DOMAIN at = 1..Len(at) /\ \A k \in 1..Len(at) : at[k] \in S
      /\ \A m, n \in 1..Len(at) : m < n => at[m] < at[n]
      /\ \A i \in S : \E n \in 1..Len(at) : at[n] = i
  <2>1. \A i \in S : \E n \in DOMAIN at : at[n] = i
    BY <1>3 DEF Enumerates
  <2> QED BY <1>2, <1>3, <2>1, CountedPlaces
<1>5. /\ AnswersAt(log, S) = [k \in 1..Len(at) |-> AnswerOf(log[at[k]])]
      /\ AnswersAt(w, S) = [k \in 1..Len(at) |-> AnswerOf(w[at[k]])]
  <2>1. AnswersAt(log, S) = [k \in 1..Len(at) |-> AnswerOf(log[at[k]])]
    BY <1>2, <1>3, AnswersRead
  <2>2. AnswersAt(w, S) = [k \in 1..Len(at) |-> AnswerOf(w[at[k]])]
    BY <1>2, <1>3, AnswersRead
  <2> QED BY <2>1, <2>2
<1>6. \A k \in 1..Len(at) : w[at[k]] = log[at[k]] /\ at[k] \in 1..Len(log)
  BY <1>1, <1>4
<1>8. both \in SUBSET Nat
  BY <1>1, <1>2 DEF Appended
<1>9. Enumerates(on, both, ByNumber(both))
  <2>1. DOMAIN on = 1..(Len(at) + Len(t))
    OBVIOUS
  <2>2. \A k \in 1..(Len(at) + Len(t)) : k <= Len(at) => k \in 1..Len(at) /\ on[k] = at[k]
    BY <1>4
  <2>3. \A k \in 1..(Len(at) + Len(t)) : ~(k <= Len(at)) =>
            k - Len(at) \in 1..Len(t) /\ on[k] = Len(log) + (k - Len(at))
    BY <1>1, <1>4
  <2>4. on = [k \in 1..(Len(at) + Len(t)) |-> on[k]]
    OBVIOUS
  <2> HIDE DEF on, both
  <2>5. \A k \in 1..(Len(at) + Len(t)) : on[k] \in both
    <3> TAKE k \in 1..(Len(at) + Len(t))
    <3>1. CASE k <= Len(at)
      BY <1>4, <2>2, <3>1 DEF both
    <3>2. CASE ~(k <= Len(at))
      BY <2>3, <3>2 DEF both, Appended
    <3> QED BY <3>1, <3>2
  <2>6. on \in Seq(both) /\ Len(at) + Len(t) \in Nat
    <3>1. Len(at) + Len(t) \in Nat
      BY <1>1, <1>4
    <3> QED BY <2>4, <2>5, <3>1, IsASeq
  <2>7. ASSUME NEW i \in both PROVE \E n \in DOMAIN on : on[n] = i
    <3>1. CASE i \in S
      <4>1. PICK n \in 1..Len(at) : at[n] = i
        BY <1>4, <3>1
      <4>2. n \in 1..(Len(at) + Len(t)) /\ n <= Len(at)
        BY <1>1, <1>4, <4>1
      <4> QED BY <2>1, <2>2, <4>1, <4>2
    <3>2. CASE i \in Appended(log, t)
      <4>1. PICK k \in 1..Len(t) : i = Len(log) + k
        BY <3>2 DEF Appended
      <4>2. /\ Len(at) + k \in 1..(Len(at) + Len(t)) /\ ~(Len(at) + k <= Len(at))
            /\ (Len(at) + k) - Len(at) = k
        BY <1>1, <1>4, <4>1
      <4>3. on[Len(at) + k] = i
        BY <2>3, <4>1, <4>2
      <4> QED BY <2>1, <4>2, <4>3
    <3> QED BY <3>1, <3>2 DEF both
  <2>8. ASSUME NEW m \in 1..(Len(at) + Len(t)), NEW n \in 1..(Len(at) + Len(t)), m < n
        PROVE  on[m] < on[n]
    <3>0. m \in Nat /\ n \in Nat
      BY <1>1, <1>4
    <3>1. CASE n <= Len(at)
      <4>1. m <= Len(at)
        BY <1>4, <2>8, <3>0, <3>1
      <4> QED BY <1>4, <2>2, <2>8, <3>1, <4>1
    <3>2. CASE m <= Len(at) /\ ~(n <= Len(at))
      <4>1. on[m] \in S /\ on[m] \in Nat /\ on[m] <= Len(log)
        BY <1>2, <1>4, <2>2, <3>2
      <4>2. on[n] = Len(log) + (n - Len(at)) /\ n - Len(at) \in 1..Len(t)
        BY <2>3, <3>2
      <4> QED BY <1>1, <4>1, <4>2
    <3>3. CASE ~(m <= Len(at)) /\ ~(n <= Len(at))
      <4>1. on[n] = Len(log) + (n - Len(at)) /\ on[m] = Len(log) + (m - Len(at))
        BY <2>3, <3>3
      <4> QED BY <1>1, <1>4, <2>8, <3>0, <4>1
    <3>4. n <= Len(at) \/ (m <= Len(at) /\ ~(n <= Len(at))) \/ (~(m <= Len(at)) /\ ~(n <= Len(at)))
      OBVIOUS
    <3> QED BY <3>1, <3>2, <3>3, <3>4
  <2> QED BY <2>1, <2>5, <2>6, <2>7, <2>8 DEF Enumerates, ByNumber
<1> DEFINE h == AnswersAt(log, S)
           u == AnswersOf(t)
           X == {AnswerOf(log[n]) : n \in S} \cup {AnswerOf(t[k]) : k \in 1..Len(t)}
<1>10. Len(on) = Len(at) + Len(t)
  <2>1. on \in Seq(both) /\ DOMAIN on = 1..(Len(at) + Len(t)) /\ Len(at) + Len(t) \in Nat
    BY <1>1, <1>4, <1>9 DEF Enumerates
  <2> HIDE DEF on
  <2> QED BY <2>1, LenProperties
<1>11. AnswersAt(w, both) = [k \in 1..(Len(at) + Len(t)) |-> AnswerOf(w[on[k]])]
  <2> HIDE DEF on, both
  <2>1. AnswersAt(w, both) = [k \in 1..Len(on) |-> AnswerOf(w[on[k]])]
    BY <1>8, <1>9, AnswersRead
  <2> QED BY <1>10, <2>1
<1>12. h \in Seq(X) /\ Len(h) = Len(at)
  <2>1. h \in Seq(X)
    <3> HIDE DEF X, h
    <3>1. \A n \in S : AnswerOf(log[n]) \in X
      BY DEF X
    <3> QED BY <1>2, <3>1, AnswersType DEF h
  <2>2. DOMAIN h = 1..Len(at)
    BY <1>5
  <2> HIDE DEF X, h
  <2> QED BY <1>4, <2>1, <2>2, LenProperties
<1>13. u \in Seq(X) /\ Len(u) = Len(t)
  <2>1. u = [k \in 1..Len(t) |-> AnswerOf(t[k])] /\ \A k \in 1..Len(t) : AnswerOf(t[k]) \in X
    BY DEF AnswersOf
  <2> HIDE DEF X, u
  <2>2. u \in Seq(X)
    BY <1>1, <2>1, IsASeq
  <2>3. DOMAIN u = 1..Len(t)
    BY <2>1
  <2> QED BY <1>1, <2>2, <2>3, LenProperties
<1>14. /\ Joined(h, u) \in Seq(X) /\ Len(Joined(h, u)) = Len(at) + Len(t)
       /\ \A k \in 1..(Len(at) + Len(t)) :
              Joined(h, u)[k] = IF k <= Len(at) THEN h[k] ELSE u[k - Len(at)]
  <2> HIDE DEF h, u, X
  <2>1. /\ Joined(h, u) \in Seq(X) /\ Len(Joined(h, u)) = Len(h) + Len(u)
        /\ \A k \in 1..(Len(h) + Len(u)) :
               Joined(h, u)[k] = IF k <= Len(h) THEN h[k] ELSE u[k - Len(h)]
    BY <1>12, <1>13, ConcatProperties DEF Joined
  <2> QED BY <1>12, <1>13, <2>1
<1>15. \A k \in 1..(Len(at) + Len(t)) : AnswerOf(w[on[k]]) = Joined(h, u)[k]
  <2> TAKE k \in 1..(Len(at) + Len(t))
  <2>1. CASE k <= Len(at)
    <3>1. k \in 1..Len(at) /\ on[k] = at[k]
      BY <1>4, <2>1
    <3>2. Joined(h, u)[k] = h[k] /\ h[k] = AnswerOf(log[at[k]])
      <4>1. h[k] = AnswerOf(log[at[k]])
        BY <1>5, <3>1
      <4> HIDE DEF h, u, X
      <4> QED BY <1>14, <2>1, <4>1
    <3> HIDE DEF h, u, on
    <3> QED BY <1>6, <3>1, <3>2
  <2>2. CASE ~(k <= Len(at))
    <3>1. k - Len(at) \in 1..Len(t) /\ on[k] = Len(log) + (k - Len(at))
      BY <1>1, <1>4, <2>2
    <3>2. Joined(h, u)[k] = u[k - Len(at)] /\ u[k - Len(at)] = AnswerOf(t[k - Len(at)])
      <4>1. u[k - Len(at)] = AnswerOf(t[k - Len(at)])
        BY <3>1 DEF AnswersOf
      <4> HIDE DEF h, u, X
      <4> QED BY <1>14, <2>2, <4>1
    <3> HIDE DEF h, u, on
    <3> QED BY <1>1, <3>1, <3>2
  <2> QED BY <2>1, <2>2
<1>16. AnswersAt(w, both) = Joined(h, u)
  <2> DEFINE r == AnswersAt(w, both)
  <2>1. DOMAIN r = 1..(Len(at) + Len(t)) /\ \A k \in 1..(Len(at) + Len(t)) : r[k] = Joined(h, u)[k]
    <3> HIDE DEF h, u, on, both
    <3> QED BY <1>11, <1>15
  <2>2. Joined(h, u) = [k \in 1..(Len(at) + Len(t)) |-> Joined(h, u)[k]]
    <3> HIDE DEF h, u, X
    <3> QED BY <1>14, LenProperties
  <2>3. r = [k \in 1..(Len(at) + Len(t)) |-> r[k]]
    BY <1>11
  <2> HIDE DEF r, h, u
  <2>4. PICK e : e = Joined(h, u)
    OBVIOUS
  <2>5. e = [k \in 1..(Len(at) + Len(t)) |-> e[k]]
    BY <2>2, <2>4
  <2>6. \A k \in 1..(Len(at) + Len(t)) : r[k] = e[k]
    BY <2>1, <2>4
  <2>7. r = e
    BY <2>3, <2>5, <2>6
  <2> QED BY <2>4, <2>7 DEF r
<1> QED BY <1>0, <1>16


\* Where a log that grew by t has its settlements, and the answers of its last life.
Settling(e) == IsAnswer(e) /\ ~e.cached

LEMMA SettlingPlaces ==
    ASSUME NEW U, NEW log \in Seq(U), NEW t \in Seq(U)
    PROVE  /\ (\A k \in 1..Len(t) : ~Settling(t[k])) => SettledAt(Joined(log, t)) = SettledAt(log)
           /\ (\A k \in 1..Len(t) : Settling(t[k])) =>
                  SettledAt(Joined(log, t)) = SettledAt(log) \cup Appended(log, t)
<1>0. PICK w : w = Joined(log, t)
  OBVIOUS
<1>1. /\ Len(log) \in Nat /\ Len(t) \in Nat /\ DOMAIN log = 1..Len(log)
      /\ DOMAIN w = DOMAIN log \cup Appended(log, t)
      /\ \A n \in 1..Len(log) : w[n] = log[n]
      /\ \A k \in 1..Len(t) : w[Len(log) + k] = t[k]
  <2>1. /\ Len(log) \in Nat /\ Len(t) \in Nat /\ DOMAIN log = 1..Len(log)
        /\ \A n \in 1..Len(log) : w[n] = log[n]
        /\ \A k \in 1..Len(t) : w[Len(log) + k] = t[k]
    BY <1>0, JoinedReads
  <2>2. DOMAIN w = DOMAIN log \cup Appended(log, t)
    BY <1>0, JoinedPlaces
  <2> QED BY <2>1, <2>2
<1>2. SettledAt(w) = {n \in DOMAIN w : Settling(w[n])} /\ SettledAt(log) = {n \in DOMAIN log : Settling(log[n])}
  BY DEF SettledAt, Settling
<1>3. SettledAt(w) = SettledAt(log) \cup {n \in Appended(log, t) : Settling(w[n])}
  <2>1. \A n \in DOMAIN log : w[n] = log[n]
    BY <1>1
  <2> QED BY <1>1, <1>2, <2>1
<1>4. \A n \in Appended(log, t) : \E k \in 1..Len(t) : w[n] = t[k]
  BY <1>1 DEF Appended
<1>5. (\A k \in 1..Len(t) : ~Settling(t[k])) => {n \in Appended(log, t) : Settling(w[n])} = {}
  BY <1>4
<1>6. (\A k \in 1..Len(t) : Settling(t[k])) => {n \in Appended(log, t) : Settling(w[n])} = Appended(log, t)
  BY <1>4
<1> QED BY <1>0, <1>3, <1>5, <1>6

LEMMA TellingPlaces ==
    ASSUME NEW U, NEW log \in Seq(U), NEW t \in Seq(U)
    PROVE  /\ (\A k \in 1..Len(t) : IsAnswer(t[k])) =>
                  ToldAt(Joined(log, t)) = ToldAt(log) \cup Appended(log, t)
           /\ t = <<RunStarted>> => ToldAt(Joined(log, t)) = {}
<1>0. PICK w : w = Joined(log, t)
  OBVIOUS
<1>1. /\ Len(log) \in Nat /\ Len(t) \in Nat /\ DOMAIN log = 1..Len(log)
      /\ DOMAIN w = DOMAIN log \cup Appended(log, t)
      /\ \A n \in 1..Len(log) : w[n] = log[n]
      /\ \A k \in 1..Len(t) : w[Len(log) + k] = t[k]
  <2>1. /\ Len(log) \in Nat /\ Len(t) \in Nat /\ DOMAIN log = 1..Len(log)
        /\ \A n \in 1..Len(log) : w[n] = log[n]
        /\ \A k \in 1..Len(t) : w[Len(log) + k] = t[k]
    BY <1>0, JoinedReads
  <2>2. DOMAIN w = DOMAIN log \cup Appended(log, t)
    BY <1>0, JoinedPlaces
  <2> QED BY <2>1, <2>2
<1>2. ASSUME \A k \in 1..Len(t) : IsAnswer(t[k])
      PROVE  ToldAt(w) = ToldAt(log) \cup Appended(log, t)
  <2>1. \A n \in Appended(log, t) : IsAnswer(w[n]) /\ w[n].type # "run-started"
    BY <1>1, <1>2 DEF Appended, IsAnswer
  <2>2. \A n \in DOMAIN log : w[n] = log[n]
    BY <1>1
  <2>3. ASSUME NEW n \in Appended(log, t) PROVE n \in ToldAt(w)
    <3>0. n > Len(log) /\ n \in Int
      BY <1>1 DEF Appended
    <3>1. \A m \in DOMAIN w : m > n => m \in Appended(log, t)
      <4>1. \A m \in DOMAIN log : ~(m > n)
        BY <1>1, <3>0
      <4> QED BY <1>1, <4>1
    <3> QED BY <1>1, <2>1, <3>1 DEF ToldAt
  <2>4. ASSUME NEW n \in DOMAIN log PROVE n \in ToldAt(w) <=> n \in ToldAt(log)
    <3>1. n \in ToldAt(w) => n \in ToldAt(log)
      BY <1>1, <2>2 DEF ToldAt
    <3>2. ASSUME n \in ToldAt(log) PROVE n \in ToldAt(w)
      <4>1. IsAnswer(w[n]) /\ n \in DOMAIN w
        BY <1>1, <2>2, <3>2 DEF ToldAt
      <4>2. ASSUME NEW m \in DOMAIN w, m > n PROVE w[m].type # "run-started"
        <5>1. CASE m \in DOMAIN log
          BY <2>2, <3>2, <4>2, <5>1 DEF ToldAt
        <5>2. CASE m \in Appended(log, t)
          BY <2>1, <5>2
        <5> QED BY <1>1, <5>1, <5>2
      <4> QED BY <4>1, <4>2 DEF ToldAt
    <3> QED BY <3>1, <3>2
  <2>5. ToldAt(w) \subseteq DOMAIN w /\ ToldAt(log) \subseteq DOMAIN log
    BY DEF ToldAt
  <2> QED BY <1>1, <2>3, <2>4, <2>5
<1>3. ASSUME t = <<RunStarted>> PROVE ToldAt(w) = {}
  <2>1. Len(t) = 1 /\ t[1] = RunStarted /\ RunStarted.type = "run-started"
    BY <1>3 DEF RunStarted
  <2>2. Len(log) + 1 \in DOMAIN w /\ w[Len(log) + 1].type = "run-started"
    BY <1>1, <2>1 DEF Appended
  <2>3. \A n \in DOMAIN w : n \in Appended(log, t) => n = Len(log) + 1
    BY <2>1 DEF Appended
  <2>4. \A n \in DOMAIN w : Len(log) + 1 > n \/ n = Len(log) + 1
    BY <1>1, <2>3
  <2>5. ~IsAnswer(w[Len(log) + 1])
    BY <2>2 DEF IsAnswer
  <2> QED BY <2>2, <2>4, <2>5 DEF ToldAt
<1> QED BY <1>0, <1>2, <1>3

\* Cached settlements settle nothing and tell what they repeat.
LEMMA CachedTell ==
    ASSUME TypeOK, NEW ks \in Seq(Terminal)
    PROVE  /\ CachedEvents(ks) \in Seq(Event)
           /\ Len(CachedEvents(ks)) = Len(ks)
           /\ \A k \in 1..Len(CachedEvents(ks)) :
                  /\ ~Settling(CachedEvents(ks)[k]) /\ IsAnswer(CachedEvents(ks)[k])
                  /\ CachedEvents(ks)[k].inst = ks[k] /\ ks[k] \in Terminal
           /\ AnswersOf(CachedEvents(ks)) = CachedAnswers(ks)
<1>1. /\ Len(ks) \in Nat /\ DOMAIN ks = 1..Len(ks) /\ \A k \in 1..Len(ks) : ks[k] \in Terminal
  BY LenProperties, ElementOfSeq
<1>2. CachedEvents(ks) \in Seq(Event)
  BY CachedTypes
<1>3. CachedEvents(ks) = [k \in 1..Len(ks) |-> NodeSettled(ks[k], OutcomeOf[rows[ks[k]].status], TRUE)]
  BY <1>1 DEF CachedEvents
<1>4. Len(CachedEvents(ks)) = Len(ks)
  BY <1>1, <1>2, <1>3, LenProperties
<1>5. \A i \in Terminal : OutcomeOf[rows[i].status] \in {"ok", "failed"}
  BY RowFacts DEF OutcomeOf, Terminal
<1>6. ASSUME NEW k \in 1..Len(ks)
      PROVE  /\ ~Settling(CachedEvents(ks)[k]) /\ IsAnswer(CachedEvents(ks)[k])
             /\ AnswerOf(CachedEvents(ks)[k]) = <<ks[k], OutcomeOf[rows[ks[k]].status]>>
             /\ CachedEvents(ks)[k].inst = ks[k]
  <2>1. CachedEvents(ks)[k] = NodeSettled(ks[k], OutcomeOf[rows[ks[k]].status], TRUE)
    BY <1>3
  <2> QED BY <1>1, <1>5, <2>1 DEF NodeSettled, Settling, IsAnswer, AnswerOf
<1>7. AnswersOf(CachedEvents(ks)) = [k \in 1..Len(ks) |-> <<ks[k], OutcomeOf[rows[ks[k]].status]>>]
  BY <1>4, <1>6 DEF AnswersOf
<1>8. CachedAnswers(ks) = [k \in 1..Len(ks) |-> <<ks[k], OutcomeOf[rows[ks[k]].status]>>]
  BY <1>1 DEF CachedAnswers
<1> QED BY <1>1, <1>2, <1>4, <1>6, <1>7, <1>8


\* The history and the answers of the last life, of any log.
HistoryOf(log) == AnswersAt(log, SettledAt(log))
ToldOf(log)    == AnswersAt(log, ToldAt(log))
SettledRows(rw) == {i \in Rows(rw) : rw[i].status # "running"}

\* Events that settle nothing leave the history as it is, and the log sound if the answers
\* among them repeat what has settled.
LEMMA LogRepeats ==
    ASSUME NEW U, NEW log \in Seq(U), NEW t \in Seq(U), NEW rw,
           \A k \in 1..Len(t) : /\ ~Settling(t[k])
                                /\ IsAnswer(t[k]) => t[k].inst \in SettledRows(rw)
    PROVE  /\ HistoryOf(Joined(log, t)) = HistoryOf(log)
           /\ LogIsSound(log, rw) => LogIsSound(Joined(log, t), rw)
<1>0. PICK w : w = Joined(log, t)
  OBVIOUS
<1>1. /\ Len(log) \in Nat /\ Len(t) \in Nat /\ DOMAIN log = 1..Len(log)
      /\ DOMAIN w = DOMAIN log \cup Appended(log, t)
      /\ \A n \in 1..Len(log) : w[n] = log[n]
      /\ \A k \in 1..Len(t) : w[Len(log) + k] = t[k]
  <2>1. /\ Len(log) \in Nat /\ Len(t) \in Nat /\ DOMAIN log = 1..Len(log)
        /\ \A n \in 1..Len(log) : w[n] = log[n]
        /\ \A k \in 1..Len(t) : w[Len(log) + k] = t[k]
    BY <1>0, JoinedReads
  <2>2. DOMAIN w = DOMAIN log \cup Appended(log, t)
    BY <1>0, JoinedPlaces
  <2> QED BY <2>1, <2>2
<1>2. SettledAt(w) = SettledAt(log) /\ SettledAt(log) \subseteq DOMAIN log
  <2>1. SettledAt(w) = SettledAt(log)
    BY <1>0, SettlingPlaces
  <2> QED BY <2>1 DEF SettledAt
<1>3. HistoryOf(w) = HistoryOf(log)
  <2>1. PICK S \in SUBSET DOMAIN log : S = SettledAt(log)
    BY <1>2
  <2>2. AnswersAt(Joined(log, t), S) = AnswersAt(log, S)
    BY AnswersKept
  <2> QED BY <1>0, <1>2, <2>1, <2>2 DEF HistoryOf
<1>4. ASSUME LogIsSound(log, rw) PROVE LogIsSound(w, rw)
  <2>1. \A n \in SettledAt(log) : w[n] = log[n] /\ n \in 1..Len(log)
    BY <1>1, <1>2
  <2>2. \A m, n \in SettledAt(w) : w[m].inst = w[n].inst => m = n
    BY <1>2, <1>4, <2>1 DEF LogIsSound
  <2>3. \A n \in SettledAt(w) : /\ w[n].inst \in Rows(rw) /\ rw[w[n].inst].status # "running"
                                /\ w[n].outcome = OutcomeOf[rw[w[n].inst].status]
    BY <1>2, <1>4, <2>1 DEF LogIsSound
  <2>4. \A i \in Rows(rw) : rw[i].status # "running" => \E n \in SettledAt(w) : w[n].inst = i
    BY <1>2, <1>4, <2>1 DEF LogIsSound
  <2>5. ASSUME NEW n \in DOMAIN w, IsAnswer(w[n])
        PROVE  \E m \in SettledAt(w) : m <= n /\ w[m].inst = w[n].inst
    <3>1. CASE n \in DOMAIN log
      <4>1. w[n] = log[n]
        BY <1>1, <3>1
      <4>2. PICK m \in SettledAt(log) : m <= n /\ log[m].inst = log[n].inst
        BY <1>4, <2>5, <3>1, <4>1 DEF LogIsSound
      <4> QED BY <1>2, <2>1, <4>1, <4>2
    <3>2. CASE n \in Appended(log, t)
      <4>1. PICK k \in 1..Len(t) : n = Len(log) + k
        BY <3>2 DEF Appended
      <4>2. w[n].inst \in SettledRows(rw)
        BY <1>1, <2>5, <4>1
      <4>3. PICK m \in SettledAt(w) : w[m].inst = w[n].inst
        BY <2>4, <4>2 DEF SettledRows
      <4>4. m \in 1..Len(log)
        BY <1>1, <1>2, <4>3
      <4>5. m <= n
        BY <1>1, <4>1, <4>4
      <4> QED BY <4>3, <4>5
    <3> QED BY <1>1, <2>5, <3>1, <3>2
  <2> QED BY <2>2, <2>3, <2>4, <2>5 DEF LogIsSound
<1> QED BY <1>0, <1>3, <1>4

\* A settlement is the next entry of the history, and the life is told it.
LEMMA LogSettles ==
    ASSUME NEW log \in Seq(Event), NEW i \in Instances, NEW o \in {"ok", "failed"},
           NEW rw, NEW rx, LogIsSound(log, rw), i \in Rows(rw), rw[i].status = "running",
           Rows(rx) = Rows(rw), \A j \in Rows(rw) \ {i} : rx[j] = rw[j],
           rx[i].status = RowStatus[o]
    PROVE  LET w == Append(log, NodeSettled(i, o, FALSE))
           IN  /\ HistoryOf(w) = Joined(HistoryOf(log), << <<i, o>> >>)
               /\ ToldOf(w) = Joined(ToldOf(log), << <<i, o>> >>)
               /\ LogIsSound(w, rx)
<1> DEFINE x == NodeSettled(i, o, FALSE)
           t == <<x>>
<1>1. x \in Event /\ Settling(x) /\ IsAnswer(x) /\ x.inst = i /\ x.outcome = o
  BY DEF NodeSettled, Event, Settling, IsAnswer, Outcomes
<1>2. AnswerOf(x) = <<i, o>>
  BY <1>1 DEF AnswerOf
<1> HIDE DEF x
<1>3. t \in Seq(Event) /\ Len(t) = 1 /\ t[1] = x
  BY <1>1
<1>4. AnswersOf(t) = << <<i, o>> >>
  <2>1. AnswersOf(t) = [k \in 1..1 |-> <<i, o>>]
    BY <1>2, <1>3 DEF AnswersOf
  <2> QED BY <2>1
<1> HIDE DEF t
<1>5. PICK w : w = Joined(log, t)
  OBVIOUS
<1>6. Append(log, x) = w
  BY <1>1, <1>5, AppendIsConcat DEF t, Joined
<1>7. /\ Len(log) \in Nat /\ DOMAIN log = 1..Len(log)
      /\ DOMAIN w = DOMAIN log \cup {Len(log) + 1}
      /\ \A n \in 1..Len(log) : w[n] = log[n]
      /\ w[Len(log) + 1] = x
  <2>1. /\ Len(log) \in Nat /\ DOMAIN log = 1..Len(log)
        /\ DOMAIN w = DOMAIN log \cup Appended(log, t)
        /\ \A n \in 1..Len(log) : w[n] = log[n]
        /\ \A k \in 1..Len(t) : w[Len(log) + k] = t[k]
    <3>0. t \in Seq(Event)
      BY <1>3
    <3>1. /\ Len(log) \in Nat /\ DOMAIN log = 1..Len(log)
          /\ \A n \in 1..Len(log) : w[n] = log[n]
          /\ \A k \in 1..Len(t) : w[Len(log) + k] = t[k]
      BY <1>5, <3>0, JoinedReads
    <3>2. DOMAIN w = DOMAIN log \cup Appended(log, t)
      BY <1>3, <1>5, JoinedPlaces
    <3> QED BY <3>1, <3>2
  <2>2. Appended(log, t) = {Len(log) + 1}
    BY <1>3, <2>1 DEF Appended
  <2> QED BY <1>3, <2>1, <2>2
<1>8. /\ SettledAt(w) = SettledAt(log) \cup Appended(log, t) /\ SettledAt(log) \subseteq DOMAIN log
      /\ ToldAt(w) = ToldAt(log) \cup Appended(log, t) /\ ToldAt(log) \subseteq DOMAIN log
  <2>1. SettledAt(log) \subseteq DOMAIN log /\ ToldAt(log) \subseteq DOMAIN log
    BY DEF SettledAt, ToldAt
  <2>2. \A k \in 1..Len(t) : Settling(t[k]) /\ IsAnswer(t[k])
    BY <1>1, <1>3
  <2>3. SettledAt(w) = SettledAt(log) \cup Appended(log, t)
    BY <1>3, <1>5, <2>2, SettlingPlaces
  <2>4. ToldAt(w) = ToldAt(log) \cup Appended(log, t)
    BY <1>3, <1>5, <2>2, TellingPlaces
  <2> QED BY <2>1, <2>3, <2>4
<1>9. HistoryOf(w) = Joined(HistoryOf(log), << <<i, o>> >>)
  <2> DEFINE S == SettledAt(log)
  <2>1. S \in SUBSET DOMAIN log
    BY <1>8
  <2> HIDE DEF S
  <2>2. AnswersAt(Joined(log, t), S \cup Appended(log, t)) = Joined(AnswersAt(log, S), AnswersOf(t))
    BY <1>3, <2>1, AnswersExtended
  <2> QED BY <1>4, <1>5, <1>8, <2>2 DEF HistoryOf, S
<1>10. ToldOf(w) = Joined(ToldOf(log), << <<i, o>> >>)
  <2> DEFINE S == ToldAt(log)
  <2>1. S \in SUBSET DOMAIN log
    BY <1>8
  <2> HIDE DEF S
  <2>2. AnswersAt(Joined(log, t), S \cup Appended(log, t)) = Joined(AnswersAt(log, S), AnswersOf(t))
    BY <1>3, <2>1, AnswersExtended
  <2> QED BY <1>4, <1>5, <1>8, <2>2 DEF ToldOf, S
<1>11. LogIsSound(w, rx)
  <2>1. /\ SettledAt(w) = SettledAt(log) \cup {Len(log) + 1}
        /\ \A n \in SettledAt(log) : w[n] = log[n] /\ n \in 1..Len(log)
    <3>1. Appended(log, t) = {Len(log) + 1}
      BY <1>3 DEF Appended
    <3> QED BY <1>7, <1>8, <3>1
  <2>2. \A n \in SettledAt(log) : log[n].inst # i /\ w[n].inst # i
    BY <2>1 DEF LogIsSound
  <2>3. \A m, n \in SettledAt(w) : w[m].inst = w[n].inst => m = n
    <3>1. \A m, n \in SettledAt(log) : w[m].inst = w[n].inst => m = n
      BY <2>1 DEF LogIsSound
    <3> QED BY <1>1, <1>7, <2>1, <2>2, <3>1
  <2>4. ASSUME NEW n \in SettledAt(w)
        PROVE  /\ w[n].inst \in Rows(rx) /\ rx[w[n].inst].status # "running"
               /\ w[n].outcome = OutcomeOf[rx[w[n].inst].status]
    <3>1. CASE n \in SettledAt(log)
      BY <2>1, <2>2, <3>1 DEF LogIsSound
    <3>2. CASE n = Len(log) + 1
      BY <1>1, <1>7, <3>2 DEF RowStatus, OutcomeOf
    <3> QED BY <2>1, <3>1, <3>2
  <2>5. ASSUME NEW j \in Rows(rx), rx[j].status # "running"
        PROVE  \E n \in SettledAt(w) : w[n].inst = j
    <3>1. CASE j = i
      BY <1>1, <1>7, <2>1, <3>1
    <3>2. CASE j # i
      <4>1. PICK n \in SettledAt(log) : log[n].inst = j
        BY <2>5, <3>2 DEF LogIsSound
      <4> QED BY <2>1, <4>1
    <3> QED BY <3>1, <3>2
  <2>6. ASSUME NEW n \in DOMAIN w, IsAnswer(w[n])
        PROVE  \E m \in SettledAt(w) : m <= n /\ w[m].inst = w[n].inst
    <3>1. CASE n \in DOMAIN log
      <4>1. w[n] = log[n]
        BY <1>7, <3>1
      <4>2. PICK m \in SettledAt(log) : m <= n /\ log[m].inst = log[n].inst
        BY <2>6, <3>1, <4>1 DEF LogIsSound
      <4> QED BY <2>1, <4>1, <4>2
    <3>2. CASE n = Len(log) + 1
      BY <1>7, <2>1, <3>2
    <3> QED BY <1>7, <3>1, <3>2
  <2> QED BY <2>3, <2>4, <2>5, <2>6 DEF LogIsSound
<1> QED BY <1>6, <1>9, <1>10, <1>11 DEF x

\* What the cached answers of a batch tell, and what the next life starts from.
LEMMA LogTells ==
    ASSUME TypeOK, NEW ks \in Seq(Terminal)
    PROVE  ToldOf(Joined(events, CachedEvents(ks))) = Joined(ToldOf(events), CachedAnswers(ks))
<1> DEFINE t == CachedEvents(ks)
<1>1. /\ t \in Seq(Event) /\ AnswersOf(t) = CachedAnswers(ks)
      /\ \A k \in 1..Len(t) : IsAnswer(t[k])
  BY CachedTell
<1>2. events \in Seq(Event) /\ ToldAt(events) \subseteq DOMAIN events
  BY DEF TypeOK, ToldAt
<1> HIDE DEF t
<1>3. ToldAt(Joined(events, t)) = ToldAt(events) \cup Appended(events, t)
  BY <1>1, <1>2, TellingPlaces
<1> DEFINE S == ToldAt(events)
<1>4. S \in SUBSET DOMAIN events
  BY <1>2
<1> HIDE DEF S
<1>5. AnswersAt(Joined(events, t), S \cup Appended(events, t)) = Joined(AnswersAt(events, S), AnswersOf(t))
  BY <1>1, <1>2, <1>4, AnswersExtended
<1> QED BY <1>1, <1>3, <1>5 DEF ToldOf, S, t

LEMMA LogRestarts ==
    ASSUME TypeOK
    PROVE  /\ HistoryOf(Append(events, RunStarted)) = HistoryOf(events)
           /\ ToldOf(Append(events, RunStarted)) = <<>>
           /\ LogIsSound(events, rows) => LogIsSound(Append(events, RunStarted), rows)
<1> DEFINE t == <<RunStarted>>
<1>1. RunStarted \in Event /\ ~IsAnswer(RunStarted) /\ ~Settling(RunStarted)
  BY DEF RunStarted, Event, IsAnswer, Settling
<1>2. events \in Seq(Event) /\ t \in Seq(Event) /\ Len(t) = 1 /\ t[1] = RunStarted
  BY <1>1 DEF TypeOK
<1>3. Append(events, RunStarted) = Joined(events, t)
  BY <1>1, <1>2, AppendIsConcat DEF Joined
<1>4. \A k \in 1..Len(t) : /\ ~Settling(t[k])
                           /\ IsAnswer(t[k]) => t[k].inst \in SettledRows(rows)
  BY <1>1, <1>2
<1>5. ToldAt(Joined(events, t)) = {}
  BY <1>2, TellingPlaces
<1>6. ToldOf(Joined(events, t)) = <<>>
  <2>1. Cardinality({}) = 0
    BY FS_EmptySet
  <2>2. \A log : AnswersAt(log, {}) = <<>>
    BY <2>1 DEF AnswersAt
  <2> QED BY <1>5, <2>2 DEF ToldOf
<1> HIDE DEF t
<1> QED BY <1>2, <1>3, <1>4, <1>6, LogRepeats


\* The places of a log are finitely many, and there is an order of them.
LEMMA HistoryForm ==
    ASSUME NEW log \in Seq(Event)
    PROVE  \E at : /\ Len(at) \in Nat /\ DOMAIN at = 1..Len(at)
                   /\ \A k \in 1..Len(at) : at[k] \in SettledAt(log)
                   /\ \A m, n \in 1..Len(at) : m < n => at[m] < at[n]
                   /\ \A n \in SettledAt(log) : \E k \in 1..Len(at) : at[k] = n
                   /\ HistoryOf(log) = [k \in 1..Len(at) |-> AnswerOf(log[at[k]])]
<1>1. Len(log) \in Nat /\ DOMAIN log = 1..Len(log)
  BY LenProperties
<1> DEFINE S  == SettledAt(log)
           at == SortedBy(S, ByNumber(S))
<1>2. S \in SUBSET (1..Len(log))
  BY <1>1 DEF SettledAt
<1>3. HistoryOf(log) = AnswersAt(log, S)
  BY DEF HistoryOf
<1> HIDE DEF S
<1>4. S \in SUBSET Nat /\ IsFiniteSet(S)
  <2>1. IsFiniteSet(1..Len(log))
    BY <1>1, FS_Interval
  <2>2. IsFiniteSet(S)
    BY <1>2, <2>1, FS_Subset
  <2>3. 1..Len(log) \subseteq Nat
    BY <1>1
  <2> QED BY <1>2, <2>2, <2>3
<1>5. Enumerates(at, S, ByNumber(S))
  BY <1>4, NumbersSorted
<1> HIDE DEF at
<1>6. /\ Len(at) \in Nat /\ DOMAIN at = 1..Len(at) /\ \A k \in DOMAIN at : at[k] \in S
      /\ \A m, n \in DOMAIN at : m < n => at[m] < at[n]
  BY <1>4, <1>5, CountedPlaces
<1>7. AnswersAt(log, S) = [k \in 1..Len(at) |-> AnswerOf(log[at[k]])]
  BY <1>4, <1>5, AnswersRead
<1>8. \A n \in S : \E k \in 1..Len(at) : at[k] = n
  BY <1>5, <1>6 DEF Enumerates
<1>9. \A m, n \in 1..Len(at) : m < n => at[m] < at[n]
  BY <1>6
<1> QED BY <1>3, <1>6, <1>7, <1>8, <1>9 DEF S

\* The history has each settled ask once, with the outcome of its row.
IsHistory(H, rw) ==
    /\ H \in Seq(Instances \X {"ok", "failed"})
    /\ \A m, n \in DOMAIN H : H[m][1] = H[n][1] => m = n
    /\ \A n \in DOMAIN H : H[n][1] \in SettledRows(rw) /\ H[n][2] = OutcomeOf[rw[H[n][1]].status]
    /\ \A i \in SettledRows(rw) : \E n \in DOMAIN H : H[n][1] = i

LEMMA HistoryIsOne ==
    ASSUME NEW log \in Seq(Event), NEW rw, LogIsSound(log, rw)
    PROVE  IsHistory(HistoryOf(log), rw)
<1>1. PICK at : /\ Len(at) \in Nat /\ DOMAIN at = 1..Len(at)
                /\ \A k \in 1..Len(at) : at[k] \in SettledAt(log)
                /\ \A m, n \in 1..Len(at) : m < n => at[m] < at[n]
                /\ \A n \in SettledAt(log) : \E k \in 1..Len(at) : at[k] = n
                /\ HistoryOf(log) = [k \in 1..Len(at) |-> AnswerOf(log[at[k]])]
  BY HistoryForm
<1>2. PICK H : H = HistoryOf(log)
  OBVIOUS
<1>3. /\ DOMAIN H = 1..Len(at) /\ H = [k \in 1..Len(at) |-> H[k]]
      /\ \A k \in 1..Len(at) : H[k] = <<log[at[k]].inst, log[at[k]].outcome>>
  BY <1>1, <1>2 DEF AnswerOf
<1>4. \A n \in SettledAt(log) : n \in DOMAIN log /\ n \in Nat
  BY LenProperties DEF SettledAt
<1>5. ASSUME NEW n \in SettledAt(log)
      PROVE  log[n].inst \in Instances /\ log[n].outcome \in {"ok", "failed"}
  <2>1. log[n] \in Event /\ IsAnswer(log[n])
    BY <1>4, LenProperties, ElementOfSeq DEF SettledAt
  <2> QED BY <2>1 DEF Event, IsAnswer, Outcomes
<1>6. H \in Seq(Instances \X {"ok", "failed"})
  <2>1. ASSUME NEW k \in 1..Len(at) PROVE H[k] \in Instances \X {"ok", "failed"}
    <3>1. at[k] \in SettledAt(log) /\ H[k] = <<log[at[k]].inst, log[at[k]].outcome>>
      BY <1>1, <1>3
    <3>2. log[at[k]].inst \in Instances /\ log[at[k]].outcome \in {"ok", "failed"}
      BY <1>5, <3>1
    <3> QED BY <3>1, <3>2
  <2> QED BY <1>1, <1>3, <2>1, IsASeq
<1>7. ASSUME NEW m \in DOMAIN H, NEW n \in DOMAIN H, H[m][1] = H[n][1] PROVE m = n
  <2>1. at[m] = at[n]
    BY <1>1, <1>3, <1>7 DEF LogIsSound
  <2>2. at[m] \in Nat /\ at[n] \in Nat
    BY <1>1, <1>3, <1>4
  <2>3. ~(m < n) /\ ~(n < m)
    BY <1>1, <1>3, <2>1, <2>2
  <2> QED BY <1>1, <1>3, <2>3
<1>8. \A n \in DOMAIN H : H[n][1] \in SettledRows(rw) /\ H[n][2] = OutcomeOf[rw[H[n][1]].status]
  BY <1>1, <1>3 DEF LogIsSound, SettledRows
<1>9. ASSUME NEW i \in SettledRows(rw) PROVE \E n \in DOMAIN H : H[n][1] = i
  <2>1. PICK n \in SettledAt(log) : log[n].inst = i
    BY DEF LogIsSound, SettledRows
  <2>2. PICK k \in 1..Len(at) : at[k] = n
    BY <1>1
  <2> QED BY <1>3, <2>1, <2>2
<1> QED BY <1>2, <1>6, <1>7, <1>8, <1>9 DEF IsHistory

\* What a resume recovers from the log is the history, if the log names the asks first in
\* the order in which they settled.
LEMMA RecoversHistory ==
    ASSUME TypeOK, LogIsSound(events, rows), SettleOrderKept
    PROVE  /\ RecoveredOrder \in Seq(Instances) /\ Len(RecoveredOrder) = Len(HistoryOf(events))
           /\ \A k \in DOMAIN RecoveredOrder : RecoveredOrder[k] = HistoryOf(events)[k][1]
<1>0. events \in Seq(Event) /\ Len(events) \in Nat /\ DOMAIN events = 1..Len(events)
  BY LenProperties DEF TypeOK
<1>1. PICK at : /\ Len(at) \in Nat /\ DOMAIN at = 1..Len(at)
                /\ \A k \in 1..Len(at) : at[k] \in SettledAt(events)
                /\ \A m, n \in 1..Len(at) : m < n => at[m] < at[n]
                /\ \A n \in SettledAt(events) : \E k \in 1..Len(at) : at[k] = n
                /\ HistoryOf(events) = [k \in 1..Len(at) |-> AnswerOf(events[at[k]])]
  BY <1>0, HistoryForm
<1>2. Terminal = SettledRows(rows) /\ Terminal \subseteq Instances
  BY RowFacts DEF SettledRows, Terminal, Recorded
<1>3. ASSUME NEW i \in Terminal
      PROVE  /\ FirstSettle(i) \in DOMAIN events /\ IsSettleOf(i, FirstSettle(i))
             /\ \A m \in DOMAIN events : IsSettleOf(i, m) => FirstSettle(i) <= m
  <2> DEFINE D == {n \in DOMAIN events : IsSettleOf(i, n)}
             f == FirstSettle(i)
  <2>1. PICK d \in SettledAt(events) : events[d].inst = i
    BY <1>2 DEF LogIsSound, SettledRows
  <2>2. d \in D
    BY <2>1 DEF SettledAt, IsAnswer, IsSettleOf
  <2>3. D \in SUBSET Nat
    BY <1>0
  <2>4. PICK e \in D : \A m \in D : e <= m
    <3> HIDE DEF D
    <3> QED BY <2>2, <2>3, SmallestNat
  <2>5. e \in DOMAIN events /\ IsSettleOf(i, e) /\ \A m \in 1..(e - 1) : ~IsSettleOf(i, m)
    <3>1. e \in 1..Len(events) /\ IsSettleOf(i, e)
      BY <1>0
    <3>2. ASSUME NEW m \in 1..(e - 1), IsSettleOf(i, m) PROVE FALSE
      <4>1. m \in 1..Len(events) /\ m < e
        BY <1>0, <3>1
      <4>2. m \in D
        BY <1>0, <3>2, <4>1
      <4> QED BY <2>4, <3>1, <4>1, <4>2
    <3> QED BY <1>0, <3>1, <3>2
  <2>6. f \in DOMAIN events /\ IsSettleOf(i, f) /\ \A m \in 1..(f - 1) : ~IsSettleOf(i, m)
    BY <2>5 DEF FirstSettle
  <2> HIDE DEF f, D
  <2>7. ASSUME NEW m \in DOMAIN events, IsSettleOf(i, m) PROVE f <= m
    <3>1. f \in 1..Len(events) /\ m \in 1..Len(events) /\ ~(m \in 1..(f - 1))
      BY <1>0, <2>6, <2>7
    <3> QED BY <1>0, <3>1
  <2> QED BY <2>6, <2>7 DEF f
<1> DEFINE rank == [i \in Terminal |-> FirstSettle(i)]
           s    == [k \in 1..Len(at) |-> events[at[k]].inst]
<1>4. \A n \in SettledAt(events) : n \in Nat /\ n \in DOMAIN events /\ events[n].inst \in Terminal
  BY <1>0, <1>2 DEF SettledAt, LogIsSound, SettledRows
<1>5. \A i \in Terminal : rank[i] \in Int /\ \A j \in Terminal : rank[i] = rank[j] => i = j
  <2>1. \A i \in Terminal : events[FirstSettle(i)].inst = i /\ FirstSettle(i) \in Int
    BY <1>0, <1>3 DEF IsSettleOf
  <2> QED BY <2>1
<1>6. \A k \in 1..Len(at) : /\ s[k] \in Terminal /\ events[at[k]].inst = s[k]
                            /\ at[k] \in SettledAt(events)
  BY <1>1, <1>4
<1>7. DOMAIN s = 1..Len(at) /\ s = [k \in 1..Len(at) |-> s[k]]
  OBVIOUS
<1>8. \A i \in Terminal : \E k \in 1..Len(at) : s[k] = i
  <2> TAKE i \in Terminal
  <2>1. PICK n \in SettledAt(events) : events[n].inst = i
    BY <1>2 DEF LogIsSound, SettledRows
  <2>2. PICK k \in 1..Len(at) : at[k] = n
    BY <1>1
  <2> QED BY <2>1, <2>2
<1>9. RecoveredOrder = SortedBy(Terminal, rank)
  <2>1. {i \in Terminal : \E n \in DOMAIN events : IsSettleOf(i, n)} = Terminal
    BY <1>3
  <2> QED BY <2>1 DEF RecoveredOrder
<1> HIDE DEF rank, s
<1>10. Enumerates(s, Terminal, rank)
  <2>1. s \in Seq(Terminal)
    BY <1>1, <1>6, <1>7, IsASeq
  <2>2. ASSUME NEW m \in DOMAIN s, NEW n \in DOMAIN s, m < n PROVE rank[s[m]] < rank[s[n]]
    <3>1. /\ at[m] \in SettledAt(events) /\ at[n] \in SettledAt(events) /\ at[m] < at[n]
          /\ s[m] \in Terminal /\ events[at[m]].inst = s[m]
          /\ s[n] \in Terminal /\ events[at[n]].inst = s[n]
      BY <1>1, <1>6, <1>7, <2>2
    <3>2. PICK k \in 1..at[m] : IsSettleOf(s[m], k) /\ \A l \in 1..k : ~IsSettleOf(s[n], l)
      BY <3>1 DEF SettleOrderKept
    <3>3. k \in DOMAIN events /\ k \in Nat
      BY <1>0, <1>4, <3>1
    <3>4. rank[s[m]] <= k /\ rank[s[m]] \in Nat
      BY <1>0, <1>3, <3>1, <3>2, <3>3 DEF rank
    <3>5. rank[s[n]] \in 1..Len(events) /\ ~(rank[s[n]] \in 1..k)
      BY <1>0, <1>3, <3>1, <3>2 DEF rank
    <3> QED BY <3>3, <3>4, <3>5
  <2> QED BY <1>7, <1>8, <2>1, <2>2 DEF Enumerates
<1>11. Enumerates(SortedBy(Terminal, rank), Terminal, rank)
  <2>1. IsFiniteSet(Terminal)
    BY <1>2, InstancesFinite, FS_Subset
  <2> QED BY <1>5, <2>1, SortEnumerates
<1>12. RecoveredOrder = s
  <2>1. \A i \in Terminal : rank[i] \in Int
    BY <1>5
  <2> QED BY <1>9, <1>10, <1>11, <2>1, SameOrder
<1>13. s \in Seq(Instances) /\ Len(s) = Len(at)
  <2>1. \A k \in 1..Len(at) : s[k] \in Instances
    BY <1>2, <1>6
  <2>2. s \in Seq(Instances)
    BY <1>1, <1>7, <2>1, IsASeq
  <2> QED BY <1>1, <1>7, <2>2, LenProperties
<1>14. \A k \in 1..Len(at) : HistoryOf(events)[k][1] = s[k]
  BY <1>1 DEF AnswerOf, s
<1>15. Len(HistoryOf(events)) = Len(at)
  <2>1. HistoryOf(events) \in Seq(Instances \X {"ok", "failed"})
    BY <1>0, HistoryIsOne DEF IsHistory
  <2>2. DOMAIN HistoryOf(events) = 1..Len(at)
    BY <1>1
  <2> QED BY <1>1, <2>1, <2>2, LenProperties
<1> QED BY <1>7, <1>12, <1>13, <1>14, <1>15
--------------------------------------------------------------------------------
(* The gate follows the history. *)

\* A gate h is further than g: it has let go of the next keys, which were among K.
Between(o, c, d) == SubSeq(o, c, d - 1)
IsFurther(g, h, K) ==
    /\ h.order = g.order /\ h.opened = g.opened
    /\ h.cursor \in Nat /\ g.cursor <= h.cursor /\ h.cursor - 1 <= Len(g.order)
    /\ h.queue = Joined(g.queue, Between(g.order, g.cursor, h.cursor))
    /\ \A m \in g.cursor..(h.cursor - 1) : g.order[m] \in K

LEMMA PumpedIsFurther ==
    ASSUME NEW Keys, NEW g \in Gate(Keys), g.cursor - 1 <= Len(g.order)
    PROVE  IsFurther(g, Pumped(g), g.parked)
<1> DEFINE from   == g.cursor
           last   == Len(g.order)
           passed == {n \in from..last : \A m \in from..n : g.order[m] \in g.parked}
           stop   == from + Cardinality(passed)
           gone   == {g.order[m] : m \in passed}
           queued == SubSeq(g.order, from, stop - 1)
<1>1. from \in Nat \ {0} /\ last \in Nat /\ from - 1 <= last
  BY LenProperties DEF Gate
<1>2. Cardinality(passed) \in Nat /\ passed = from..(stop - 1)
  <2>1. IsFiniteSet(from..last)
    <3> HIDE DEF from, last
    <3> QED BY <1>1, FS_Interval
  <2>2. passed \subseteq from..last /\ passed \in SUBSET Int
    OBVIOUS
  <2>3. ASSUME NEW s \in passed PROVE s >= from /\ from..s \subseteq passed
    <3>1. s \in from..last /\ \A m \in from..s : g.order[m] \in g.parked
      OBVIOUS
    <3>2. ASSUME NEW r \in from..s PROVE r \in passed
      <4>1. r \in from..last /\ \A m \in from..r : m \in from..s
        BY <1>1, <3>1
      <4> QED BY <3>1, <4>1
    <3> QED BY <1>1, <3>1, <3>2
  <2> HIDE DEF passed, from, last
  <2>4. IsFiniteSet(passed)
    BY <2>1, <2>2, FS_Subset
  <2>5. from \in Int
    BY <1>1
  <2>6. Cardinality(passed) \in Nat /\ passed = from..(from + Cardinality(passed) - 1)
    BY <2>2, <2>3, <2>4, <2>5, InitialSegment
  <2> QED BY <1>1, <2>6
<1>3. \A m \in passed : g.order[m] \in g.parked /\ m \in from..last
  <2> TAKE m \in passed
  <2>1. m \in from..last /\ \A k \in from..m : g.order[k] \in g.parked
    OBVIOUS
  <2>2. m \in from..m
    BY <1>1, <2>1
  <2> QED BY <2>1, <2>2
<1>4. Pumped(g) = [g EXCEPT !.cursor = stop, !.queue = @ \o queued, !.parked = @ \ gone]
  BY DEF Pumped
<1>5. stop \in Nat /\ from <= stop /\ stop - 1 <= last
  <2> HIDE DEF passed, from, last
  <2>1. stop \in Nat /\ from <= stop
    BY <1>1, <1>2
  <2>2. CASE stop = from
    BY <1>1, <2>2
  <2>3. CASE stop # from
    <3>1. stop - 1 \in passed
      BY <1>1, <1>2, <2>1, <2>3
    <3>2. stop - 1 \in from..last
      BY <1>3, <3>1
    <3> QED BY <1>1, <2>1, <3>2
  <2> QED BY <2>1, <2>2, <2>3
<1> HIDE DEF from, last, passed, stop, gone, queued
<1>6. /\ Pumped(g).cursor = stop /\ Pumped(g).queue = g.queue \o queued
      /\ Pumped(g).order = g.order /\ Pumped(g).opened = g.opened
  BY <1>4 DEF Gate
<1> QED BY <1>2, <1>3, <1>5, <1>6 DEF IsFurther, Joined, Between, from, last, queued

LEMMA HoldIsFurther ==
    ASSUME NEW Keys, NEW g \in Gate(Keys), NEW K \in SUBSET Keys, g.cursor - 1 <= Len(g.order),
           \A k \in K : ~Passes(g, k)
    PROVE  IsFurther(g, Hold(g, K), g.parked \cup K)
<1> DEFINE parking == [g EXCEPT !.parked = @ \cup K]
<1>1. /\ parking \in Gate(Keys) /\ parking.parked = g.parked \cup K
      /\ parking.queue = g.queue /\ parking.order = g.order
      /\ parking.cursor = g.cursor /\ parking.opened = g.opened
  BY DEF Gate
<1>2. Hold(g, K) = IF K = {} THEN g ELSE Pumped(parking)
  <2>1. {k \in K : ~Passes(g, k)} = K
    OBVIOUS
  <2> QED BY <2>1 DEF Hold
<1> HIDE DEF parking
<1>3. CASE K = {}
  <2>1. /\ g.cursor \in Nat \ {0} /\ g.queue \in Seq(Keys) /\ g.order \in Seq(Keys)
        /\ Hold(g, K) = g
    BY <1>2, <1>3 DEF Gate
  <2>2. SubSeq(g.order, g.cursor, g.cursor - 1) = <<>>
    BY <2>1
  <2>3. g.queue = g.queue \o <<>>
    BY <2>1, ConcatEmptySeq
  <2>4. \A m \in g.cursor..(g.cursor - 1) : FALSE
    BY <2>1
  <2> QED BY <2>1, <2>2, <2>3, <2>4 DEF IsFurther, Joined, Between
<1>4. CASE K # {}
  <2>1. IsFurther(parking, Pumped(parking), parking.parked)
    BY <1>1, PumpedIsFurther
  <2> QED BY <1>1, <1>2, <1>4, <2>1 DEF IsFurther
<1> QED BY <1>3, <1>4

\* The queue stays the part of the order in front of the cursor.
LEMMA QueueFollows ==
    ASSUME NEW X, NEW q \in Seq(X), NEW o \in Seq(X), NEW c \in Nat \ {0}, NEW d \in Nat,
           c <= d, d - 1 <= Len(o), QueueIsPart(q, o, c)
    PROVE  /\ QueueIsPart(Joined(q, Between(o, c, d)), o, d)
           /\ Len(Joined(q, Between(o, c, d))) = Len(q) + (d - c)
           /\ d = c => Joined(q, Between(o, c, d)) = q
<1>1. PICK n, e : n = Len(q) /\ e = Len(o) /\ n \in Nat /\ e \in Nat
  BY LenProperties
<1>2. PICK s : s = SubSeq(o, c, d - 1)
  OBVIOUS
<1>3. s \in Seq(X) /\ Len(s) = d - c /\ \A k \in 1..(d - c) : s[k] = o[c + k - 1]
  <2>1. \A k \in c..(d - 1) : o[k] \in X
    <3> TAKE k \in c..(d - 1)
    <3>1. k \in 1..e
      BY <1>1
    <3> QED BY <1>1, <3>1, ElementOfSeq
  <2>2. c \in Int /\ d - 1 \in Int
    OBVIOUS
  <2>3. /\ SubSeq(o, c, d - 1) \in Seq(X)
        /\ Len(SubSeq(o, c, d - 1)) = IF c <= d - 1 THEN d - 1 - c + 1 ELSE 0
        /\ \A k \in 1..(d - 1 - c + 1) : SubSeq(o, c, d - 1)[k] = o[c + k - 1]
    BY <2>1, <2>2, SubSeqProperties
  <2>4. (IF c <= d - 1 THEN d - 1 - c + 1 ELSE 0) = d - c /\ d - 1 - c + 1 = d - c
    OBVIOUS
  <2> QED BY <1>2, <2>3, <2>4
<1>4. PICK r : r = Joined(q, Between(o, c, d))
  OBVIOUS
<1>5. r = Joined(q, s)
  BY <1>2, <1>4 DEF Between
<1>6. r \in Seq(X) /\ Len(r) = Len(q) + (d - c)
  <2>1. q \o s \in Seq(X) /\ Len(q \o s) = Len(q) + Len(s)
    BY <1>3, ConcatProperties
  <2> QED BY <1>3, <1>5, <2>1 DEF Joined
<1>7. n <= c - 1 /\ \A m \in 1..n : q[m] = o[c - 1 - n + m]
  BY <1>1 DEF QueueIsPart
<1>8. ASSUME NEW m \in 1..(n + (d - c)) PROVE r[m] = o[c - 1 - n + m]
  <2>1. CASE m <= n
    <3>1. m \in 1..Len(q) /\ s \in Seq(X) /\ m \in 1..n
      BY <1>1, <1>3, <2>1
    <3>2. r[m] = q[m]
      BY <1>5, <3>1, JoinedReads
    <3> QED BY <1>7, <3>1, <3>2
  <2>2. CASE ~(m <= n)
    <3>1. PICK k : k = m - n
      OBVIOUS
    <3>2. k \in 1..(d - c) /\ m = n + k /\ c + k - 1 = c - 1 - n + m
      <4>1. n \in Nat /\ m \in Nat /\ c \in Nat /\ d \in Nat /\ m \in 1..(n + (d - c))
        BY <1>1
      <4> QED BY ONLY <2>2, <3>1, <4>1
    <3>3. k \in 1..Len(s) /\ s \in Seq(X) /\ s[k] = o[c + k - 1]
      BY <1>3, <3>2
    <3>4. r[n + k] = s[k]
      BY <1>1, <1>5, <3>3, JoinedReads
    <3> QED BY <3>2, <3>3, <3>4
  <2> QED BY <2>1, <2>2
<1>9. QueueIsPart(r, o, d)
  <2>1. PICK l : l = Len(r)
    OBVIOUS
  <2>2. l = n + (d - c) /\ n \in Int /\ c \in Int /\ d \in Int
    BY <1>1, <1>6, <2>1
  <2>3. l <= d - 1 /\ d - 1 - l = c - 1 - n
    BY <1>7, <2>2
  <2>4. \A m \in 1..l : r[m] = o[d - 1 - l + m]
    BY <1>8, <2>2, <2>3
  <2> QED BY <2>1, <2>3, <2>4 DEF QueueIsPart
<1>10. d = c => r = q
  <2> SUFFICES ASSUME d = c PROVE r = q
    OBVIOUS
  <2>1. Len(s) = 0 /\ s \in Seq(X)
    BY <1>3
  <2>2. s = <<>>
    BY <2>1, EmptySeq
  <2> QED BY <1>5, <2>2, ConcatEmptySeq DEF Joined
<1> QED BY <1>4, <1>6, <1>9, <1>10

\* A gate that is further follows the same history.
LEMMA FurtherFollows ==
    ASSUME NEW g \in Gate(Instances), NEW h, NEW K, IsFurther(g, h, K), NEW H, NEW T,
           Len(H) \in Nat, Len(T) \in Nat,
           GateFollows(g, H, T)
    PROVE  GateFollows(h, H, T)
<1>1. PICK c, d, q, r, o, n, e : c = g.cursor /\ d = h.cursor /\ q = g.queue /\ r = h.queue
                                 /\ o = g.order /\ n = Len(q) /\ e = Len(o)
  OBVIOUS
<1>2. c \in Nat \ {0} /\ q \in Seq(Instances) /\ o \in Seq(Instances) /\ n \in Nat /\ e \in Nat
  <2>1. c \in Nat \ {0} /\ q \in Seq(Instances) /\ o \in Seq(Instances)
    BY <1>1 DEF Gate
  <2> QED BY <1>1, <2>1, LenProperties
<1>3. /\ d \in Nat /\ c <= d /\ d - 1 <= e /\ h.order = o /\ h.opened = g.opened
      /\ r = Joined(q, Between(o, c, d))
  BY <1>1 DEF IsFurther
<1>4. /\ ~g.opened /\ e <= Len(H) /\ \A k \in DOMAIN o : o[k] = H[k][1]
      /\ c - 1 <= e /\ QueueIsPart(q, o, c)
      /\ Len(T) = c - 1 - n + (Len(H) - e)
      /\ Len(H) > e => CaughtUp(g)
  BY <1>1 DEF GateFollows
<1>5. d - 1 <= Len(o)
  BY <1>1, <1>3
<1>a. QueueIsPart(q, o, c) /\ c <= d
  BY <1>3, <1>4
<1>b. /\ QueueIsPart(Joined(q, Between(o, c, d)), o, d)
      /\ Len(Joined(q, Between(o, c, d))) = Len(q) + (d - c)
      /\ d = c => Joined(q, Between(o, c, d)) = q
  <2>1. q \in Seq(Instances) /\ o \in Seq(Instances) /\ c \in Nat \ {0} /\ d \in Nat
    BY <1>2, <1>3
  <2> QED BY ONLY <2>1, <1>a, <1>5, QueueFollows
<1>6. QueueIsPart(Joined(q, Between(o, c, d)), o, d)
  BY <1>b
<1>7. Len(Joined(q, Between(o, c, d))) = Len(q) + (d - c) /\ (d = c => Joined(q, Between(o, c, d)) = q)
  BY <1>b
<1>8. d - 1 - Len(r) = c - 1 - n
  <2>1. Len(r) = n + (d - c) /\ n \in Int /\ c \in Int /\ d \in Int
    BY <1>1, <1>2, <1>3, <1>7
  <2> QED BY ONLY <2>1
<1>9. Len(H) > e => CaughtUp(h)
  <2> SUFFICES ASSUME Len(H) > e PROVE CaughtUp(h)
    OBVIOUS
  <2>1. c > e /\ q = <<>>
    BY <1>1, <1>4 DEF CaughtUp
  <2>2. d = c
    <3>1. d \in Int /\ c \in Int /\ e \in Int /\ c > e /\ d - 1 <= e /\ c <= d
      BY <1>2, <1>3, <2>1
    <3> QED BY ONLY <3>1
  <2>3. d > e /\ r = <<>>
    BY <1>3, <1>7, <2>1, <2>2
  <2> QED BY <1>1, <1>3, <2>3 DEF CaughtUp
<1>10. Len(T) = d - 1 - Len(r) + (Len(H) - e)
  BY <1>4, <1>8
<1> QED BY <1>1, <1>3, <1>4, <1>6, <1>9, <1>10 DEF GateFollows
--------------------------------------------------------------------------------
(* An admission. *)

\* What the gate has passed this life has reached, so a settled ask that is asked again
\* waits at the gate: nothing is answered within an admission.
LEMMA HeldBack ==
    ASSUME HistoryInv, Running, NEW a \in Actors, NEW R \in SUBSET Recorded,
           \A i \in R : rows[i].actor = a
    PROVE  /\ Cached(a, R) \in SUBSET Instances /\ \A i \in Cached(a, R) : ~Passes(gate, i)
           /\ PassingNow(a, R) = <<>>
<1>1. OrderInv /\ TypeOK /\ GateFollows(gate, History, LifeTold) /\ GateKnows(gate, rows, actors)
  BY DEF HistoryInv, PlacesInv, LogInv, OrderInv, IInv
<1>2. ASSUME NEW i \in Cached(a, R)
      PROVE  i \in Instances /\ i \notin ReachedAny(rows, actors) /\ i \in Rows(rows)
             /\ rows[i].status # "running"
  <2>1. /\ i \in R /\ i \in Recorded /\ rows[i].status # "running"
        /\ rows[i].actorSeq >= actors[a].nextAdmitSeq
    BY <1>2 DEF Cached, Rerun, Leaving
  <2>2. rows[i].actorSeq \in Nat /\ i \in Rows(rows) /\ i \in Instances /\ rows[i].actor = a
    BY <1>1, <2>1, RowFacts
  <2>3. actors[a].nextAdmitSeq \in Nat
    BY <1>1 DEF TypeOK, Actor
  <2>4. ASSUME NEW d \in Actors, i \in Reached(rows, actors, d) PROVE FALSE
    <3>1. d = a /\ rows[i].actorSeq < actors[d].nextAdmitSeq
      BY <2>2, <2>4 DEF Reached, RowsOf
    <3> QED BY <2>1, <2>2, <2>3, <3>1
  <2> QED BY <2>1, <2>2, <2>4 DEF ReachedAny
<1>3. ASSUME NEW i \in Cached(a, R) PROVE ~Passes(gate, i)
  <2>1. i \in Elements(gate.order)
    BY <1>1, <1>2 DEF GateKnows
  <2>2. PICK n \in DOMAIN gate.order : gate.order[n] = i
    BY <2>1 DEF Elements
  <2>3. ~(n < gate.cursor)
    BY <1>1, <1>2, <2>2 DEF GateKnows
  <2> QED BY <1>1, <2>2, <2>3 DEF Passes, GateFollows
<1>4. PassingNow(a, R) = <<>>
  <2>1. Elements(PassingNow(a, R)) = {}
    BY <1>1, <1>3, PassingElements
  <2>2. PassingNow(a, R) \in Seq(Terminal)
    BY PassingNowType
  <2>3. PICK s \in Seq(Terminal) : s = PassingNow(a, R)
    BY <2>2
  <2>4. DOMAIN s = 1..Len(s) /\ Len(s) \in Nat /\ DOMAIN s = {}
    BY <2>1, <2>3, LenProperties DEF Elements
  <2>5. Len(s) = 0
    BY <2>4
  <2> QED BY <2>3, <2>5, EmptySeq
<1> QED BY <1>2, <1>3, <1>4

\* What this life has reached stays reached.
LEMMA ReachedGrows ==
    ASSUME NEW rw, NEW rx, NEW as, NEW bs,
           \A i \in Rows(rw) : i \in Rows(rx) /\ rx[i].actor = rw[i].actor
                               /\ rx[i].actorSeq = rw[i].actorSeq /\ rw[i].actorSeq \in Nat,
           \A d \in Actors : /\ as[d].nextAdmitSeq \in Nat /\ bs[d].nextAdmitSeq \in Nat
                             /\ as[d].nextAdmitSeq <= bs[d].nextAdmitSeq
    PROVE  ReachedAny(rw, as) \subseteq ReachedAny(rx, bs)
<1>1. ASSUME NEW d \in Actors, NEW i \in Reached(rw, as, d) PROVE i \in Reached(rx, bs, d)
  <2>1. i \in Rows(rw) /\ rw[i].actor = d /\ rw[i].actorSeq < as[d].nextAdmitSeq
    BY DEF Reached, RowsOf
  <2>2. i \in Rows(rx) /\ rx[i].actor = d /\ rx[i].actorSeq = rw[i].actorSeq /\ rw[i].actorSeq \in Nat
    BY <2>1
  <2>3. as[d].nextAdmitSeq \in Nat /\ bs[d].nextAdmitSeq \in Nat /\ as[d].nextAdmitSeq <= bs[d].nextAdmitSeq
    OBVIOUS
  <2>4. rx[i].actorSeq < bs[d].nextAdmitSeq
    <3>1. PICK x, y, z, v : x = rw[i].actorSeq /\ y = rx[i].actorSeq
                            /\ z = as[d].nextAdmitSeq /\ v = bs[d].nextAdmitSeq
      OBVIOUS
    <3>2. x \in Nat /\ z \in Nat /\ v \in Nat /\ x < z /\ z <= v /\ y = x
      BY <2>1, <2>2, <2>3, <3>1
    <3>3. y < v
      BY ONLY <3>2
    <3> QED BY <3>1, <3>3
  <2> QED BY <2>2, <2>4 DEF Reached, RowsOf
<1> QED BY <1>1 DEF ReachedAny

\* What an admission does to what is told and what is known.
Heard(a, R, L, box) ==
    /\ events' = events /\ inbox' = box
    /\ gate' = Hold(gate, Cached(a, R))
    /\ \A i \in Rows(rows) : i \in Rows(rows') /\ rows'[i] = rows[i]
    /\ \A i \in Rows(rows') \ Rows(rows) :
           /\ rows'[i].status = "running"
           /\ \E n \in DOMAIN L : L[n][1] = i /\ rows'[i].hash = L[n][2]
    /\ \A d \in Actors : /\ actors[d].nextAdmitSeq \in Nat /\ actors'[d].nextAdmitSeq \in Nat
                         /\ actors[d].nextAdmitSeq <= actors'[d].nextAdmitSeq
                         /\ actors'[d].recordedCount = actors[d].recordedCount
    /\ \A i \in Leaving(a, R) : i \in Reached(rows', actors', a)
    /\ actors'[a].pendingLive \in {L, <<>>}
    /\ \A d \in Actors \ {a} : actors'[d].pendingLive = actors[d].pendingLive

LEMMA AdmitHeard ==
    ASSUME HistoryInv, TypeOK', Running, NEW a \in Actors, NEW R \in SUBSET Recorded,
           NEW L \in Seq(Instances \X Hashes), NEW box \in Seq(Instances \X Outcomes),
           NEW pumped \in SUBSET Actors,
           Admit(a, R, L, box, pumped), CallsOf(rows, a, R, L),
           \A n \in DOMAIN L : rows[L[n][1]] = NoRow
    PROVE  Heard(a, R, L, box)
<1>1. OrderInv /\ TypeOK
  BY DEF HistoryInv, PlacesInv, LogInv, OrderInv, IInv
<1>2. /\ \A i \in R : rows[i].actor = a
      /\ \A m, n \in DOMAIN L : L[m][1] = L[n][1] => m = n
  BY DEF CallsOf
<1>3. AdmissionParts(a, R, L, box, pumped)
  BY <1>2, AdmitParts
<1>4. AfterAdmission(a, R, L)
  BY <1>1, AdmissionMoves
<1>5. events' = events /\ inbox' = box /\ gate' = Hold(gate, Cached(a, R))
  <2>1. PassingNow(a, R) = <<>>
    BY <1>2, HeldBack
  <2>2. /\ gate' = Hold(gate, Cached(a, R))
        /\ events' = events \o CachedEvents(<<>>) /\ inbox' = box \o CachedAnswers(<<>>)
    BY <1>3, <2>1 DEF AdmissionParts
  <2>3. CachedEvents(<<>>) = <<>> /\ CachedAnswers(<<>>) = <<>>
    BY DEF CachedEvents, CachedAnswers
  <2>4. events \in Seq(Event)
    BY <1>1 DEF TypeOK
  <2> QED BY <2>2, <2>3, <2>4, ConcatEmptySeq
<1>6. /\ Behind(a, R) \in Nat /\ actors[a].nextAdmitSeq \in Nat
      /\ actors[a].nextAdmitSeq <= Behind(a, R)
      /\ \A i \in Leaving(a, R) : rows[i].actorSeq < Behind(a, R)
  BY <1>1, <1>2, LeavingNumbers
<1>7. /\ New(a, R, L) \in Seq(Instances \X Hashes) /\ WritesRows(a, New(a, R, L), Behind(a, R))
      /\ \A n \in DOMAIN New(a, R, L) : n \in DOMAIN L /\ New(a, R, L)[n] = L[n]
      /\ Pump(AdmittedActors(a, R, L), activeAsks, pumped, cap)
  BY <1>3 DEF AdmissionParts
<1>8. PICK k : k = Len(New(a, R, L)) /\ k \in Nat
  BY <1>7, LenProperties
<1>9. /\ actors'[a].nextAdmitSeq = Behind(a, R) + k
      /\ \A d \in Actors \ {a} : actors'[d].nextAdmitSeq = actors[d].nextAdmitSeq
      /\ RowsOf(rows', a) = RowsOf(rows, a) \cup Names(New(a, R, L))
      /\ \A d \in Actors \ {a} : RowsOf(rows', d) = RowsOf(rows, d)
      /\ \A i \in Rows(rows) : rows'[i] = rows[i]
  BY <1>4, <1>8 DEF AfterAdmission
<1>10. \A i \in Rows(rows) : i \in Rows(rows') /\ rows'[i] = rows[i]
  BY <1>9 DEF Rows
<1>11. ASSUME NEW i \in Rows(rows') \ Rows(rows)
       PROVE  /\ rows'[i].status = "running"
              /\ \E n \in DOMAIN L : L[n][1] = i /\ rows'[i].hash = L[n][2]
  <2>1. i \in Instances /\ rows[i] = NoRow /\ rows'[i] # NoRow
    BY DEF Rows
  <2>2. i \in Names(New(a, R, L))
    BY <1>7, <2>1 DEF WritesRows
  <2>3. PICK n \in DOMAIN New(a, R, L) : New(a, R, L)[n][1] = i
    BY <2>2 DEF Names
  <2>4. rows'[i] = [status |-> "running", actor |-> a, actorSeq |-> Behind(a, R) + n - 1,
                    hash |-> New(a, R, L)[n][2]]
    BY <1>7, <2>3 DEF WritesRows
  <2>5. n \in DOMAIN L /\ New(a, R, L)[n] = L[n]
    BY <1>7
  <2>6. L[n][1] = i /\ rows'[i].hash = L[n][2] /\ rows'[i].status = "running"
    BY <2>3, <2>4, <2>5
  <2> QED BY <2>5, <2>6
<1>12. \A d \in Actors : actors[d].nextAdmitSeq \in Nat /\ actors'[d].nextAdmitSeq \in Nat
                         /\ actors[d].nextAdmitSeq <= actors'[d].nextAdmitSeq
  <2>1. \A d \in Actors : actors[d].nextAdmitSeq \in Nat
    BY <1>1 DEF TypeOK, Actor
  <2>2. actors'[a].nextAdmitSeq \in Nat /\ actors[a].nextAdmitSeq <= actors'[a].nextAdmitSeq
    BY <1>6, <1>8, <1>9
  <2>3. \A d \in Actors \ {a} : actors'[d].nextAdmitSeq \in Nat /\ actors[d].nextAdmitSeq <= actors'[d].nextAdmitSeq
    BY <1>9, <2>1
  <2> QED BY <2>1, <2>2, <2>3
<1>13. \A i \in Leaving(a, R) : i \in Reached(rows', actors', a)
  <2> TAKE i \in Leaving(a, R)
  <2>1. i \in R /\ i \in Recorded /\ rows[i].actor = a
    BY <1>2 DEF Leaving
  <2>2. i \in RowsOf(rows', a) /\ rows'[i] = rows[i] /\ rows[i].actorSeq \in Nat
    BY <1>1, <1>9, <1>10, <2>1, RowFacts DEF RowsOf
  <2>3. rows[i].actorSeq < Behind(a, R) + k
    BY <1>6, <1>8, <2>2
  <2> QED BY <1>9, <2>2, <2>3 DEF Reached
<1>14. /\ actors'[a].pendingLive \in {L, <<>>}
       /\ \A d \in Actors \ {a} : actors'[d].pendingLive = actors[d].pendingLive
  BY <1>4 DEF AfterAdmission, Left
<1>15. \A d \in Actors : actors'[d].recordedCount = actors[d].recordedCount
  <2> DEFINE as == AdmittedActors(a, R, L)
  <2>1. Batch(a, R, L) \in Seq(Instances)
    <3>1. /\ New(a, R, L) \in Seq(Instances \X Hashes) /\ WritesRows(a, New(a, R, L), Behind(a, R))
          /\ \A n \in DOMAIN New(a, R, L) : /\ n \in DOMAIN L /\ New(a, R, L)[n] = L[n]
                                            /\ Behind(a, R) >= actors[a].recordedCount
          /\ \A m, n \in DOMAIN New(a, R, L) : New(a, R, L)[m][1] = New(a, R, L)[n][1] => m = n
      BY <1>3 DEF AdmissionParts
    <3>2. /\ OrderInv /\ Running /\ TypeOK' /\ a \in Actors /\ R \in SUBSET Recorded
          /\ L \in Seq(Instances \X Hashes) /\ CallsOf(rows, a, R, L)
          /\ \A n \in DOMAIN L : rows[L[n][1]] = NoRow
      BY <1>1
    <3> QED BY ONLY <3>1, <3>2, BatchInOrder
  <2>2. HandedOver(a, R, L, as)
    BY <1>1, <1>6, <1>7, <2>1, AdmittedSubagents DEF TypeOK
  <2> HIDE DEF as
  <2>3. /\ as \in [Actors -> Actor] /\ as[a].recordedCount = actors[a].recordedCount
        /\ \A c \in Actors \ {a} : as[c] = actors[c]
    BY <2>2 DEF HandedOver
  <2>4. Pump(as, activeAsks, pumped, cap)
    BY <1>7 DEF as
  <2>5. \A c \in Actors : SamePlaces(as, c)
    BY ONLY <2>3, <2>4, pumped \in SUBSET Actors, PumpPlaces, Zenon
  <2> QED BY <2>3, <2>5 DEF SamePlaces
<1> QED BY <1>5, <1>10, <1>11, <1>12, <1>13, <1>14, <1>15 DEF Heard


\* A log stays sound of a table with more asks in flight.
LEMMA SoundKept ==
    ASSUME NEW log, NEW rw, NEW rx, LogIsSound(log, rw),
           \A i \in Rows(rw) : i \in Rows(rx) /\ rx[i] = rw[i],
           \A i \in Rows(rx) \ Rows(rw) : rx[i].status = "running"
    PROVE  LogIsSound(log, rx)
<1>1. /\ \A m, n \in SettledAt(log) : log[m].inst = log[n].inst => m = n
      /\ \A n \in DOMAIN log : IsAnswer(log[n]) =>
             \E m \in SettledAt(log) : m <= n /\ log[m].inst = log[n].inst
  BY DEF LogIsSound
<1>2. ASSUME NEW n \in SettledAt(log)
      PROVE  log[n].inst \in Rows(rx) /\ rx[log[n].inst].status # "running"
             /\ log[n].outcome = OutcomeOf[rx[log[n].inst].status]
  BY DEF LogIsSound
<1>3. ASSUME NEW i \in Rows(rx), rx[i].status # "running"
      PROVE  \E n \in SettledAt(log) : log[n].inst = i
  <2>1. i \in Rows(rw) /\ rw[i].status # "running"
    BY <1>3
  <2> QED BY <2>1 DEF LogIsSound
<1> QED BY <1>1, <1>2, <1>3 DEF LogIsSound

\* What a life was told are answers.
LEMMA ToldLength ==
    ASSUME NEW log \in Seq(Event)
    PROVE  Len(ToldOf(log)) \in Nat /\ DOMAIN ToldOf(log) = 1..Len(ToldOf(log))
<1> DEFINE S == ToldAt(log)
<1>1. Len(log) \in Nat /\ DOMAIN log = 1..Len(log)
  BY LenProperties
<1>2. S \subseteq 1..Len(log)
  BY <1>1 DEF ToldAt
<1>3. S \in SUBSET Nat /\ IsFiniteSet(S)
  <2>1. IsFiniteSet(1..Len(log)) /\ 1..Len(log) \subseteq Nat
    BY <1>1, FS_Interval
  <2> QED BY <1>2, <2>1, FS_Subset
<1>4. ToldOf(log) = AnswersAt(log, S)
  BY DEF ToldOf
<1> DEFINE X == {AnswerOf(log[n]) : n \in S}
<1>5. \A n \in S : AnswerOf(log[n]) \in X
  OBVIOUS
<1> HIDE DEF S, X
<1>6. /\ Len(AnswersAt(log, S)) = Cardinality(S)
      /\ DOMAIN AnswersAt(log, S) = 1..Cardinality(S) /\ Cardinality(S) \in Nat
  BY <1>3, <1>5, AnswersType
<1> QED BY <1>4, <1>6

\* The invariant of a running life, of any gate, history and rows.
Following(g, H, T, as, rw, box) ==
    GateFollows(g, H, T) /\ ToldFollows(H, T, box) /\ GateKnows(g, rw, as)

\* The facts that the steps below start from.
LEMMA HistoryFacts ==
    ASSUME HistoryInv
    PROVE  /\ PlacesInv /\ LogInv /\ OrderInv /\ IInv /\ TypeOK
           /\ gate \in Gate(Instances) /\ events \in Seq(Event)
           /\ History = HistoryOf(events) /\ LifeTold = ToldOf(events)
           /\ LogIsSound(events, rows) /\ RunRowAgrees
           /\ IsHistory(History, rows)
           /\ Len(History) \in Nat /\ DOMAIN History = 1..Len(History)
           /\ Len(LifeTold) \in Nat /\ DOMAIN LifeTold = 1..Len(LifeTold)
           /\ Running => Following(gate, History, LifeTold, actors, rows, inbox) /\ CallsHavePlaces
<1>1. /\ PlacesInv /\ LogInv /\ OrderInv /\ IInv /\ TypeOK
      /\ LogIsSound(events, rows) /\ RunRowAgrees
      /\ Running => CallsHavePlaces
  BY DEF HistoryInv, PlacesInv, LogInv, OrderInv, IInv
<1>2. gate \in Gate(Instances) /\ events \in Seq(Event)
  BY <1>1 DEF TypeOK
<1>3. History = HistoryOf(events) /\ LifeTold = ToldOf(events)
  BY DEF History, HistoryOf, LifeTold, ToldOf
<1>4. IsHistory(History, rows)
  BY <1>1, <1>2, <1>3, HistoryIsOne
<1>5. Len(History) \in Nat /\ DOMAIN History = 1..Len(History)
  BY <1>4, LenProperties DEF IsHistory
<1>6. Len(LifeTold) \in Nat /\ DOMAIN LifeTold = 1..Len(LifeTold)
  BY <1>2, <1>3, ToldLength
<1>7. Running => Following(gate, History, LifeTold, actors, rows, inbox)
  BY DEF HistoryInv, Following
<1> QED BY <1>1, <1>2, <1>3, <1>4, <1>5, <1>6, <1>7

\* An admission keeps what the life knows of its gate.
LEMMA AdmitFollows ==
    ASSUME HistoryInv, Running, NEW a \in Actors, NEW R \in SUBSET Recorded,
           \A i \in R : rows[i].actor = a,
           NEW L, NEW box, Heard(a, R, L, box), ToldFollows(History, LifeTold, box)
    PROVE  /\ Following(gate', History, LifeTold, actors', rows', inbox')
           /\ LogIsSound(events', rows')
<1> DEFINE K == Cached(a, R)
           P == gate.parked
<1>1. /\ TypeOK /\ gate \in Gate(Instances) /\ LogIsSound(events, rows)
      /\ Len(History) \in Nat /\ Len(LifeTold) \in Nat
      /\ GateFollows(gate, History, LifeTold) /\ GateKnows(gate, rows, actors)
      /\ AnsweredAreReached(rows, actors, gate, inbox)
  BY HistoryFacts DEF Following, CallsHavePlaces
<1>2. K \in SUBSET Instances /\ \A i \in K : ~Passes(gate, i)
  BY HeldBack
<1>3. gate' = Hold(gate, K) /\ gate.cursor - 1 <= Len(gate.order)
  BY <1>1 DEF Heard, GateFollows
<1> HIDE DEF K
<1>4. IsFurther(gate, Hold(gate, K), P \cup K)
  BY <1>1, <1>2, <1>3, HoldIsFurther
<1>5. IsFurther(gate, gate', P \cup K)
  BY <1>3, <1>4
<1>6. GateFollows(gate', History, LifeTold)
  BY <1>1, <1>5, FurtherFollows
<1>7. ToldFollows(History, LifeTold, inbox')
  BY DEF Heard
<1>8. ReachedAny(rows, actors) \subseteq ReachedAny(rows', actors')
  <2>1. \A i \in Rows(rows) : i \in Rows(rows') /\ rows'[i].actor = rows[i].actor
                /\ rows'[i].actorSeq = rows[i].actorSeq /\ rows[i].actorSeq \in Nat
    BY <1>1, RowFacts DEF Heard
  <2>2. \A d \in Actors : /\ actors[d].nextAdmitSeq \in Nat /\ actors'[d].nextAdmitSeq \in Nat
                          /\ actors[d].nextAdmitSeq <= actors'[d].nextAdmitSeq
    BY DEF Heard
  <2> QED BY <2>1, <2>2, ReachedGrows
<1>9. \A i \in P \cup K : i \in ReachedAny(rows', actors')
  <2>1. ASSUME NEW i \in K PROVE i \in ReachedAny(rows', actors')
    BY DEF K, Cached, Heard, ReachedAny
  <2>2. ASSUME NEW i \in P PROVE i \in ReachedAny(rows, actors)
    BY <1>1 DEF AnsweredAreReached, Kept, IsAnswered, ReachedAny
  <2> QED BY <1>8, <2>1, <2>2
<1>10. GateKnows(gate', rows', actors')
  <2>1. /\ gate'.order = gate.order /\ gate'.cursor \in Nat /\ gate.cursor \in Nat
        /\ \A m \in gate.cursor..(gate'.cursor - 1) : gate.order[m] \in P \cup K
    BY <1>1, <1>5 DEF IsFurther, Gate
  <2>2. ASSUME NEW k \in DOMAIN gate.order, k < gate'.cursor
        PROVE  gate.order[k] \in ReachedAny(rows', actors')
    <3>1. CASE k < gate.cursor
      BY <1>1, <1>8, <3>1 DEF GateKnows
    <3>2. CASE ~(k < gate.cursor)
      <4>1. k \in Nat
        <5>1. gate.order \in Seq(Instances)
          BY <1>1 DEF Gate
        <5>2. DOMAIN gate.order = 1..Len(gate.order) /\ Len(gate.order) \in Nat
          BY <5>1, LenProperties
        <5> QED BY <5>2
      <4>2. k \in gate.cursor..(gate'.cursor - 1)
        BY <2>1, <2>2, <3>2, <4>1
      <4> QED BY <1>9, <2>1, <4>2
    <3> QED BY <3>1, <3>2
  <2>3. ASSUME NEW i \in Rows(rows'), rows'[i].status # "running"
        PROVE  i \in ReachedAny(rows', actors') \/ i \in Elements(gate.order)
    <3>1. i \in Rows(rows) /\ rows[i].status # "running"
      BY <2>3 DEF Heard
    <3> QED BY <1>1, <1>8, <3>1 DEF GateKnows
  <2> QED BY <2>1, <2>2, <2>3 DEF GateKnows
<1>11. LogIsSound(events', rows')
  <2>1. LogIsSound(events, rows')
    <3>1. /\ \A i \in Rows(rows) : i \in Rows(rows') /\ rows'[i] = rows[i]
          /\ \A i \in Rows(rows') \ Rows(rows) : rows'[i].status = "running"
      BY DEF Heard
    <3> QED BY <1>1, <3>1, SoundKept
  <2> QED BY <2>1 DEF Heard
<1> QED BY <1>6, <1>7, <1>10, <1>11 DEF Following


\* A call that is heard: what it is about, and what its admission did.
CallHeard(b, n, a, i, hash, R, L, box) ==
    /\ R \in SUBSET Recorded /\ \A j \in R : rows[j].actor = a
    /\ Heard(a, R, L, box)
    /\ \/ rows[i] = NoRow /\ L = Append(actors[a].pendingLive, <<i, hash>>)
       \/ rows[i] # NoRow /\ rows[i].hash = hash /\ L = actors[a].pendingLive
    /\ asking' = [asking EXCEPT ![b] = i] /\ UNCHANGED <<run, up, runSettled>>

\* The call that branch b makes with its n-th step when told o: its site, subagent, name
\* and hash.
IsCall(b, n, o, site, a, i, hash) ==
    /\ site = Prog[b][n][1] /\ a = Prog[b][n][2]
    /\ i = <<site, ordinals[site] + 1>> /\ hash = <<b, n, o>>

\* A call is heard, or the run fails because the row of the call asks something else.
LEMMA AskHeard ==
    ASSUME HistoryInv, TypeOK', Running, NEW b \in Branches, NEW n \in DOMAIN Prog[b],
           NEW o \in Outcomes \cup {"start"}, NEW box \in Seq(Instances \X Outcomes),
           Ask(b, n, o, box),
           NEW site, NEW a, NEW i, NEW hash, IsCall(b, n, o, site, a, i, hash)
    PROVE  /\ site \in Sites /\ a \in Actors /\ i \in Instances /\ hash \in Hashes /\ i # NoInst
           /\ ordinals[site] < MaxOrdinal /\ ordinals' = [ordinals EXCEPT ![site] = @ + 1]
           /\ pc' = [pc EXCEPT ![b] = n]
           /\ \/ \E R, L : CallHeard(b, n, a, i, hash, R, L, box)
              \/ /\ rows[i] # NoRow /\ rows[i].hash # hash
                 /\ Finish("errored", "none", "InputHashMismatch", FALSE, box)
<1>0. /\ site = Prog[b][n][1] /\ a = Prog[b][n][2]
      /\ i = <<site, ordinals[site] + 1>> /\ hash = <<b, n, o>>
  BY DEF IsCall
<1>1. site \in Sites /\ a \in Actors /\ n \in Nat
  <2>1. Prog[b] \in Seq(Sites \X Actors)
    BY ConstantsAssumption
  <2>2. n \in 1..Len(Prog[b]) /\ Len(Prog[b]) \in Nat /\ Prog[b][n] \in Sites \X Actors
    BY <2>1, LenProperties, ElementOfSeq
  <2> QED BY <1>0, <2>2
<1>2. AskedOf(hash, a) /\ \A c : AskedOf(hash, c) => c = a
  BY <1>0 DEF AskedOf
<1>3. /\ ordinals[site] < MaxOrdinal /\ pc' = [pc EXCEPT ![b] = n]
      /\ ordinals' = [ordinals EXCEPT ![site] = @ + 1]
      /\ \/ /\ rows[i] = NoRow
            /\ asking' = [asking EXCEPT ![b] = i]
            /\ Admit(a, actors[a].pendingRecorded, Append(actors[a].pendingLive, <<i, hash>>), box, Actors)
            /\ UNCHANGED <<run, up, runSettled>>
         \/ /\ rows[i] # NoRow /\ rows[i].hash = hash
            /\ asking' = [asking EXCEPT ![b] = i]
            /\ Admit(a, actors[a].pendingRecorded \cup {i}, actors[a].pendingLive, box, {a})
            /\ UNCHANGED <<run, up, runSettled>>
         \/ /\ rows[i] # NoRow /\ rows[i].hash # hash
            /\ Finish("errored", "none", "InputHashMismatch", FALSE, box)
  BY <1>0 DEF Ask
<1>4. /\ TypeOK /\ NewCallsAreNew /\ RecordedCallsHaveRows /\ Numbered(rows)
      /\ Placed(rows, actors, live, started) /\ CallsHavePlaces
      /\ ordinals \in [Sites -> 0..MaxOrdinal] /\ actors[a] \in Actor
  <2>1. PlacesInv /\ OrderInv /\ IInv /\ TypeOK /\ CallsHavePlaces
    BY HistoryFacts
  <2> QED BY <1>1, <2>1 DEF OrderInv, IInv, TypeOK
<1>5. /\ MaxOrdinal \in Nat /\ ordinals[site] \in Nat
  BY <1>1, <1>4, ConstantsAssumption
<1>6. i \in Instances /\ hash \in Hashes /\ i[1] = site /\ i[2] = ordinals[site] + 1 /\ i # NoInst
  <2>1. PICK k : k = ordinals[site] + 1
    OBVIOUS
  <2>2. i = <<site, k>> /\ hash = <<b, n, o>>
    BY <1>0, <2>1
  <2>3. k \in 1..MaxOrdinal
    BY ONLY <1>3, <1>5, <2>1
  <2>4. i \in Instances
    BY ONLY <1>1, <2>2, <2>3 DEF Instances
  <2>5. hash \in Hashes
    BY ONLY <1>1, <2>2, b \in Branches, o \in Outcomes \cup {"start"} DEF Hashes
  <2> QED BY ONLY <2>1, <2>2, <2>4, <2>5, NoInstIsNone
<1>7. i \notin WaitingNew(actors, a)
  <2>1. ~(i[2] <= ordinals[i[1]])
    BY <1>5, <1>6
  <2> QED BY <1>1, <1>4, <2>1 DEF NewCallsAreNew
<1> DEFINE R == actors[a].pendingRecorded
           L == actors[a].pendingLive
<1>8. /\ R \in SUBSET Recorded /\ L \in Seq(Instances \X Hashes)
      /\ CallsOf(rows, a, R, L)
      /\ \A m \in DOMAIN L : rows[L[m][1]] = NoRow /\ L[m][1] # i
  <2>1. L \in Seq(Instances \X Hashes)
    BY <1>4 DEF Actor
  <2>2. R \in SUBSET Recorded
    BY <1>1, <1>4 DEF RecordedCallsHaveRows
  <2>3. CallsOf(rows, a, R, L)
    BY <1>1, <1>4 DEF Placed, WaitingIsSound
  <2>4. \A m \in DOMAIN L : L[m][1] \in WaitingNew(actors, a)
    BY DEF WaitingNew
  <2>5. \A j \in WaitingNew(actors, a) : rows[j] = NoRow
    BY ONLY <1>1, <1>4 DEF NewCallsAreNew
  <2>6. \A m \in DOMAIN L : rows[L[m][1]] = NoRow /\ L[m][1] # i
    BY ONLY <1>7, <2>4, <2>5
  <2> QED BY ONLY <2>1, <2>2, <2>3, <2>6
<1>9. HistoryInv /\ TypeOK' /\ Running
  OBVIOUS
<1> HIDE DEF R, L
<1>10. CASE /\ rows[i] = NoRow
            /\ Admit(a, R, Append(L, <<i, hash>>), box, Actors)
            /\ asking' = [asking EXCEPT ![b] = i] /\ UNCHANGED <<run, up, runSettled>>
  <2>0. PICK M : M = Append(L, <<i, hash>>)
    OBVIOUS
  <2>1. /\ M \in Seq(Instances \X Hashes)
        /\ \A m \in DOMAIN M : \/ m = Len(L) + 1 /\ M[m][1] = i /\ M[m][2] = hash
                               \/ m \in DOMAIN L /\ M[m] = L[m]
    <3>1. <<i, hash>> \in Instances \X Hashes
      BY <1>6
    <3>2. /\ M \in Seq(Instances \X Hashes) /\ Len(L) \in Nat
          /\ DOMAIN M = 1..(Len(L) + 1) /\ DOMAIN L = 1..Len(L)
          /\ \A m \in 1..Len(L) : M[m] = L[m]
          /\ M[Len(L) + 1] = <<i, hash>>
      BY <1>8, <2>0, <3>1, AppendProperties, LenProperties
    <3>3. M[Len(L) + 1][1] = i /\ M[Len(L) + 1][2] = hash
      BY ONLY <3>2
    <3> QED BY ONLY <3>2, <3>3
  <2>2. \A m \in DOMAIN M : rows[M[m][1]] = NoRow
    BY ONLY <1>8, <1>10, <2>1
  <2>3. CallsOf(rows, a, R, M)
    <3>1. \A m \in DOMAIN M : AskedOf(M[m][2], a)
      BY ONLY <1>2, <1>8, <2>1 DEF CallsOf
    <3>2. \A l, m \in DOMAIN M : M[l][1] = M[m][1] => l = m
      BY ONLY <1>8, <2>1 DEF CallsOf
    <3>3. \A j \in R : rows[j].actor = a
      BY <1>8 DEF CallsOf
    <3> QED BY ONLY <3>1, <3>2, <3>3 DEF CallsOf
  <2>4. Admit(a, R, M, box, Actors) /\ Actors \in SUBSET Actors
    BY <1>10, <2>0
  <2>5. Heard(a, R, M, box)
    BY ONLY <1>1, <1>8, <1>9, <2>1, <2>2, <2>3, <2>4, box \in Seq(Instances \X Outcomes), AdmitHeard
  <2>6. CallHeard(b, n, a, i, hash, R, M, box)
    <3>1. \A j \in R : rows[j].actor = a
      BY <1>8 DEF CallsOf
    <3> QED BY <1>8, <1>10, <2>0, <2>5, <3>1 DEF CallHeard, L
  <2> QED BY <1>1, <1>3, <1>6, <2>6
<1>11. CASE /\ rows[i] # NoRow /\ rows[i].hash = hash
            /\ Admit(a, R \cup {i}, L, box, {a})
            /\ asking' = [asking EXCEPT ![b] = i] /\ UNCHANGED <<run, up, runSettled>>
  <2>0. PICK Q : Q = R \cup {i}
    OBVIOUS
  <2>1. i \in Recorded /\ i \in Rows(rows)
    BY <1>6, <1>11 DEF Recorded, Rows
  <2>2. rows[i].actor = a
    BY <1>2, <1>4, <1>11, <2>1 DEF Numbered, RowsNameTheirActor
  <2>3. CallsOf(rows, a, Q, L)
    BY <1>8, <2>0, <2>2 DEF CallsOf
  <2>4. Admit(a, Q, L, box, {a}) /\ {a} \in SUBSET Actors /\ Q \in SUBSET Recorded
    BY <1>1, <1>8, <1>11, <2>0, <2>1
  <2>5. \A m \in DOMAIN L : rows[L[m][1]] = NoRow
    BY <1>8
  <2>6. Heard(a, Q, L, box)
    BY ONLY <1>1, <1>8, <1>9, <2>3, <2>4, <2>5, box \in Seq(Instances \X Outcomes), AdmitHeard
  <2>7. CallHeard(b, n, a, i, hash, Q, L, box)
    <3>1. \A j \in Q : rows[j].actor = a
      BY <2>3 DEF CallsOf
    <3> QED BY <1>11, <2>4, <2>6, <3>1 DEF CallHeard, L
  <2> QED BY <1>1, <1>3, <1>6, <2>7
<1> QED BY <1>1, <1>3, <1>6, <1>10, <1>11 DEF R, L
--------------------------------------------------------------------------------
(* The history in every step. *)

\* The state functions of the refinement, of the next state.
LEMMA NextHistory == History' = HistoryOf(events') /\ LifeTold' = ToldOf(events')
BY DEF History, HistoryOf, LifeTold, ToldOf

\* A life that has ended keeps the history.
LEMMA EndedHistory ==
    ASSUME PlacesInv', LogIsSound(events', rows'), RunRowAgrees', ~Running'
    PROVE  HistoryInv'
BY DEF HistoryInv

\* The end of a run adds nothing to the history: it answers what the gate held, and
\* cancels what was in flight.
LEMMA FinishHistory ==
    ASSUME HistoryInv, PlacesInv', Running, NEW st \in RunStatuses \ {"running"},
           NEW reason, NEW fail, NEW emit \in BOOLEAN, NEW box, Finish(st, reason, fail, emit, box)
    PROVE  HistoryInv' /\ History' = History /\ ~Running' /\ run'.status = st
<1> DEFINE ks == Remaining(gate)
           c  == CachedEvents(ks)
           x  == IF emit THEN [n \in DOMAIN live |-> NodeSettled(live[n], "cancelled", FALSE)]
                 ELSE <<>>
           e  == <<RunSettledEvent(st)>>
<1>1. /\ TypeOK /\ IInv /\ events \in Seq(Event) /\ LogIsSound(events, rows)
      /\ History = HistoryOf(events) /\ live \in Seq(Instances)
  BY HistoryFacts DEF TypeOK
<1>2. /\ events' = ((events \o c) \o x) \o e
      /\ runSettled' = TRUE /\ up' = up /\ rows' = rows
      /\ run' = [run EXCEPT !.status = st, !.stopReason = reason, !.failure = fail]
  <2>1. events' = ((events \o c) \o x) \o e
    BY Zenon DEF Finish
  <2> HIDE DEF c, x, e
  <2>2. /\ runSettled' = TRUE /\ up' = up /\ rows' = rows
        /\ run' = [run EXCEPT !.status = st, !.stopReason = reason, !.failure = fail]
    BY DEF Finish
  <2> QED BY ONLY <2>1, <2>2, Zenon
<1>3. ks \in Seq(Terminal)
  <2>1. gate \in Gate(Terminal) /\ IsFiniteSet(Terminal)
    <3>1. Terminal \subseteq Instances
      BY DEF Terminal, Recorded
    <3> QED BY <1>1, <3>1, InstancesFinite, FS_Subset DEF IInv, GateHoldsSettled
  <2> QED BY <2>1, RemainingType
<1>4. /\ c \in Seq(Event)
      /\ \A k \in 1..Len(c) : /\ ~Settling(c[k])
                              /\ IsAnswer(c[k]) => c[k].inst \in SettledRows(rows)
  <2>1. Terminal = SettledRows(rows)
    BY <1>1, RowFacts DEF SettledRows, Terminal
  <2> HIDE DEF ks
  <2> QED BY <1>1, <1>3, <2>1, CachedTell
<1>5. /\ x \in Seq(Event)
      /\ \A k \in 1..Len(x) : ~IsAnswer(x[k])
  <2>1. CASE emit
    <3> DEFINE v(n) == NodeSettled(live[n], "cancelled", FALSE)
    <3>1. Len(live) \in Nat /\ DOMAIN live = 1..Len(live) /\ \A n \in 1..Len(live) : live[n] \in Instances
      BY <1>1, LenProperties, ElementOfSeq
    <3>2. \A n \in 1..Len(live) : v(n) \in Event /\ ~IsAnswer(v(n))
      BY <3>1 DEF NodeSettled, Event, Outcomes, IsAnswer
    <3>3. x = [n \in 1..Len(live) |-> v(n)]
      BY <2>1, <3>1
    <3> HIDE DEF v, x
    <3>4. [n \in 1..Len(live) |-> v(n)] \in Seq(Event)
      BY <3>1, <3>2, IsASeq
    <3>5. x \in Seq(Event) /\ Len(x) = Len(live)
      <4>1. DOMAIN x = 1..Len(live) /\ x \in Seq(Event)
        BY <3>3, <3>4
      <4> QED BY <3>1, <4>1, LenProperties
    <3> QED BY <3>2, <3>3, <3>5
  <2>2. CASE ~emit
    <3>1. x = <<>>
      BY <2>2
    <3> HIDE DEF x
    <3>2. x \in Seq(Event) /\ Len(x) = 0
      BY <3>1, EmptySeq
    <3> QED BY <3>2
  <2> QED BY <2>1, <2>2
<1>6. /\ e \in Seq(Event)
      /\ \A k \in 1..Len(e) : ~IsAnswer(e[k])
  <2>1. RunSettledEvent(st) \in Event /\ RunSettledEvent(st).type = "run-settled"
    BY DEF RunSettledEvent, Event
  <2> QED BY <2>1 DEF IsAnswer
<1> HIDE DEF c, x, e
<1>7. PICK u : u = Joined(events, c)
  OBVIOUS
<1>8. PICK v : v = Joined(u, x)
  OBVIOUS
<1>9. PICK w : w = Joined(v, e)
  OBVIOUS
<1>10. events' = w
  BY <1>2, <1>7, <1>8, <1>9 DEF Joined
<1>11. u \in Seq(Event) /\ v \in Seq(Event)
  <2>1. u \in Seq(Event)
    BY <1>1, <1>4, <1>7, JoinedType
  <2>2. v \in Seq(Event)
    BY <1>5, <1>8, <2>1, JoinedType
  <2> QED BY <2>1, <2>2
<1>12. HistoryOf(u) = HistoryOf(events) /\ LogIsSound(u, rows)
  BY ONLY <1>1, <1>4, <1>7, LogRepeats
<1>13. HistoryOf(v) = HistoryOf(u) /\ LogIsSound(v, rows)
  <2>1. \A k \in 1..Len(x) : ~Settling(x[k]) /\ (IsAnswer(x[k]) => x[k].inst \in SettledRows(rows))
    BY <1>5 DEF Settling
  <2> QED BY ONLY <1>5, <1>8, <1>11, <1>12, <2>1, LogRepeats
<1>14. HistoryOf(w) = HistoryOf(v) /\ LogIsSound(w, rows)
  <2>1. \A k \in 1..Len(e) : ~Settling(e[k]) /\ (IsAnswer(e[k]) => e[k].inst \in SettledRows(rows))
    BY <1>6 DEF Settling
  <2> QED BY ONLY <1>6, <1>9, <1>11, <1>13, <2>1, LogRepeats
<1>15. History' = History /\ LogIsSound(events', rows')
  BY <1>1, <1>2, <1>10, <1>12, <1>13, <1>14, NextHistory
<1>16. run'.status = st
  <2>1. run \in [status : RunStatuses, caps : Nat \ {0},
                 stopReason : {"none", "user", "model", "provider", "interrupted", "superseded"},
                 failure : {"none", "InputHashMismatch", "ScriptError"}]
    BY <1>1 DEF TypeOK
  <2> QED BY <1>2, <2>1
<1>17. ~Running' /\ RunRowAgrees'
  BY <1>2, <1>16 DEF Running, RunRowAgrees
<1> QED BY <1>15, <1>16, <1>17, EndedHistory

\* Steps that touch neither log nor gate nor what is on its way.
SameRun == UNCHANGED <<rows, events, up, runSettled, gate>> /\ run'.status = run.status
SameNumbers == \A d \in Actors : /\ actors'[d].nextAdmitSeq = actors[d].nextAdmitSeq
                                 /\ actors'[d].recordedCount = actors[d].recordedCount

LEMMA SameHistory ==
    ASSUME HistoryInv, PlacesInv', SameRun, Running => SameNumbers,
           Running => ToldFollows(History, LifeTold, inbox')
    PROVE  HistoryInv' /\ History' = History /\ LifeTold' = LifeTold
<1>1. History' = History /\ LifeTold' = LifeTold
  BY NextHistory, HistoryFacts DEF SameRun
<1>2. LogIsSound(events', rows') /\ RunRowAgrees' /\ (Running' <=> Running)
  BY HistoryFacts DEF SameRun, RunRowAgrees, Running
<1>3. ASSUME Running PROVE GateFollows(gate', History, LifeTold) /\ GateKnows(gate', rows', actors')
  <2>1. GateFollows(gate, History, LifeTold) /\ GateKnows(gate, rows, actors) /\ SameNumbers
    BY <1>3, HistoryFacts DEF Following
  <2>2. ReachedAny(rows, actors) = ReachedAny(rows, actors')
    BY <2>1 DEF ReachedAny, Reached, SameNumbers
  <2>3. GateKnows(gate, rows, actors')
    BY <2>1, <2>2 DEF GateKnows
  <2> QED BY <2>1, <2>3 DEF SameRun
<1> QED BY <1>1, <1>2, <1>3 DEF HistoryInv

\* A call.
LEMMA AskHistory ==
    ASSUME HistoryInv, PlacesInv', Running, NEW b \in Branches, NEW n \in DOMAIN Prog[b],
           NEW o \in Outcomes \cup {"start"}, NEW box \in Seq(Instances \X Outcomes),
           Ask(b, n, o, box), ToldFollows(History, LifeTold, box)
    PROVE  /\ HistoryInv' /\ History' = History
           /\ \/ Running' /\ LifeTold' = LifeTold
              \/ ~Running' /\ run'.status = "errored"
<1>0. PICK site, a, i, hash : IsCall(b, n, o, site, a, i, hash)
  BY DEF IsCall
<1>1. TypeOK'
  BY DEF PlacesInv, LogInv, OrderInv, IInv
<1>2. a \in Actors /\ \/ \E R, L : CallHeard(b, n, a, i, hash, R, L, box)
                      \/ Finish("errored", "none", "InputHashMismatch", FALSE, box)
  BY <1>0, <1>1, AskHeard
<1>3. CASE \E R, L : CallHeard(b, n, a, i, hash, R, L, box)
  <2>1. PICK R, L : CallHeard(b, n, a, i, hash, R, L, box)
    BY <1>3
  <2>2. /\ R \in SUBSET Recorded /\ \A j \in R : rows[j].actor = a
        /\ Heard(a, R, L, box) /\ UNCHANGED <<run, up, runSettled>>
    BY <2>1 DEF CallHeard
  <2>3. Following(gate', History, LifeTold, actors', rows', inbox') /\ LogIsSound(events', rows')
    BY <1>2, <2>2, AdmitFollows
  <2>4. events' = events
    BY <2>2 DEF Heard
  <2>5. History' = History /\ LifeTold' = LifeTold
    BY <2>4, NextHistory, HistoryFacts
  <2>6. RunRowAgrees' /\ Running'
    BY <2>2, <2>4, HistoryFacts DEF RunRowAgrees, Running
  <2> QED BY <2>3, <2>5, <2>6 DEF HistoryInv, Following
<1>4. CASE Finish("errored", "none", "InputHashMismatch", FALSE, box)
  <2>1. "errored" \in RunStatuses \ {"running"} /\ FALSE \in BOOLEAN
    BY DEF RunStatuses
  <2> QED BY <1>4, <2>1, FinishHistory
<1> QED BY <1>2, <1>3, <1>4


\* The length of two sequences in one.
LEMMA JoinedLength ==
    ASSUME NEW U, NEW s \in Seq(U), NEW t \in Seq(U)
    PROVE  /\ Len(s) \in Nat /\ Len(t) \in Nat /\ Len(Joined(s, t)) = Len(s) + Len(t)
           /\ DOMAIN Joined(s, t) = 1..(Len(s) + Len(t))
<1>1. Len(s) \in Nat /\ Len(t) \in Nat
  BY LenProperties
<1>2. s \o t \in Seq(U) /\ Len(s \o t) = Len(s) + Len(t)
  BY ConcatProperties
<1>3. PICK r \in Seq(U) : r = Joined(s, t) /\ Len(r) = Len(s) + Len(t)
  BY <1>2 DEF Joined
<1>4. DOMAIN r = 1..Len(r)
  BY LenProperties
<1> QED BY <1>1, <1>3, <1>4

\* Answers that are told as they are put on their way keep the box at the end of what is told.
LEMMA BoxFollows ==
    ASSUME NEW X, NEW T \in Seq(X), NEW box \in Seq(X), NEW t \in Seq(X), NEW H, NEW U, NEW c,
           U = Joined(T, t), c = Joined(box, t), IsEnding(box, T), IsBeginning(U, H)
    PROVE  ToldFollows(H, U, c)
<1>1. PICK k, m, n : k = Len(T) /\ m = Len(box) /\ n = Len(t)
  OBVIOUS
<1>2. /\ k \in Nat /\ m \in Nat /\ n \in Nat /\ m <= k
      /\ Len(U) = k + n /\ Len(c) = m + n /\ DOMAIN c = 1..(m + n) /\ DOMAIN box = 1..m
  <2>0. m <= k
    BY <1>1 DEF IsEnding
  <2>1. k \in Nat /\ n \in Nat /\ Len(U) = k + n
    BY <1>1, JoinedLength
  <2>2. m \in Nat /\ Len(c) = m + n /\ DOMAIN c = 1..(m + n)
    BY <1>1, JoinedLength
  <2>3. DOMAIN box = 1..m
    BY <1>1, LenProperties
  <2> QED BY <2>0, <2>1, <2>2, <2>3
<1>3. /\ \A j \in 1..m : c[j] = box[j]
      /\ \A j \in 1..n : c[m + j] = t[j]
  <2>1. /\ \A j \in 1..Len(box) : Joined(box, t)[j] = box[j]
        /\ \A j \in 1..Len(t) : Joined(box, t)[Len(box) + j] = t[j]
    BY ONLY box \in Seq(X), t \in Seq(X), JoinedReads
  <2> QED BY <1>1, <2>1
<1>4. /\ \A j \in 1..k : U[j] = T[j]
      /\ \A j \in 1..n : U[k + j] = t[j]
  <2>1. /\ \A j \in 1..Len(T) : Joined(T, t)[j] = T[j]
        /\ \A j \in 1..Len(t) : Joined(T, t)[Len(T) + j] = t[j]
    BY ONLY T \in Seq(X), t \in Seq(X), JoinedReads
  <2> QED BY <1>1, <2>1
<1>5. \A j \in 1..m : box[j] = T[k - m + j]
  BY <1>1, <1>2 DEF IsEnding
<1>6. ASSUME NEW j \in 1..(m + n) PROVE c[j] = U[(k + n) - (m + n) + j]
  <2>1. CASE j <= m
    <3>1. j \in 1..m /\ k - m + j \in 1..k /\ (k + n) - (m + n) + j = k - m + j
      BY ONLY <1>2, <1>6, <2>1
    <3> QED BY <1>3, <1>4, <1>5, <3>1
  <2>2. CASE ~(j <= m)
    <3>1. PICK l : l = j - m
      OBVIOUS
    <3>2. l \in 1..n /\ j = m + l /\ (k + n) - (m + n) + j = k + l
      BY ONLY <1>2, <1>6, <2>2, <3>1
    <3> QED BY <1>3, <1>4, <3>2
  <2> QED BY <2>1, <2>2
<1>7. Len(c) <= Len(U)
  BY ONLY <1>2
<1>8. \A j \in DOMAIN c : c[j] = U[Len(U) - Len(c) + j]
  BY <1>2, <1>6
<1> QED BY <1>7, <1>8 DEF ToldFollows, IsEnding

\* Both are sequences of answers.
LEMMA ToldType ==
    ASSUME NEW log \in Seq(Event)
    PROVE  ToldOf(log) \in Seq(Instances \X Outcomes)
<1> DEFINE S == ToldAt(log)
<1>1. Len(log) \in Nat /\ DOMAIN log = 1..Len(log) /\ \A n \in 1..Len(log) : log[n] \in Event
  BY LenProperties, ElementOfSeq
<1>2. S \in SUBSET Nat /\ IsFiniteSet(S)
  <2>1. S \subseteq 1..Len(log)
    BY <1>1 DEF ToldAt
  <2>2. IsFiniteSet(1..Len(log)) /\ 1..Len(log) \subseteq Nat
    BY <1>1, FS_Interval
  <2> QED BY <2>1, <2>2, FS_Subset
<1>3. \A n \in S : AnswerOf(log[n]) \in Instances \X Outcomes
  <2> TAKE n \in S
  <2>1. log[n] \in Event /\ log[n].type = "node-settled"
    BY <1>1 DEF ToldAt, IsAnswer
  <2>2. log[n].inst \in Instances /\ log[n].outcome \in Outcomes
    BY <2>1 DEF Event
  <2> QED BY <2>2 DEF AnswerOf
<1>4. ToldOf(log) = AnswersAt(log, S)
  BY DEF ToldOf
<1> HIDE DEF S
<1> QED BY <1>2, <1>3, <1>4, AnswersType

LEMMA HistoryType ==
    ASSUME HistoryInv
    PROVE  /\ History \in Seq(Instances \X Outcomes) /\ LifeTold \in Seq(Instances \X Outcomes)
           /\ inbox \in Seq(Instances \X Outcomes)
<1>1. LifeTold \in Seq(Instances \X Outcomes) /\ inbox \in Seq(Instances \X Outcomes)
  <2>1. events \in Seq(Event) /\ LifeTold = ToldOf(events) /\ TypeOK
    BY HistoryFacts
  <2> QED BY <2>1, ToldType DEF TypeOK
<1>2. History \in Seq(Instances \X Outcomes)
  <2>1. History \in Seq(Instances \X {"ok", "failed"})
    BY HistoryFacts DEF IsHistory
  <2>2. /\ Len(History) \in Nat /\ DOMAIN History = 1..Len(History)
        /\ History = [n \in 1..Len(History) |-> History[n]]
        /\ \A n \in 1..Len(History) : History[n] \in Instances \X {"ok", "failed"}
    BY <2>1, LenProperties, ElementOfSeq
  <2>3. \A n \in 1..Len(History) : History[n] \in Instances \X Outcomes
    BY <2>2 DEF Outcomes
  <2>4. PICK h : h = History
    OBVIOUS
  <2>5. [n \in 1..Len(h) |-> h[n]] \in Seq(Instances \X Outcomes)
    BY <2>2, <2>3, <2>4, IsASeq
  <2> QED BY <2>2, <2>4, <2>5
<1> QED BY <1>1, <1>2

\* Whoever settles next has been told all of the history, if the replay comes first.
LEMMA ToldIsAll ==
    ASSUME HistoryInv, Running, NEW i \in Instances, NEW o \in {"ok", "failed"},
           events' = Append(events, NodeSettled(i, o, FALSE)), ReplayComesFirst'
    PROVE  LifeTold = History /\ CaughtUp(gate)
<1>1. /\ GateFollows(gate, History, LifeTold) /\ ToldFollows(History, LifeTold, inbox)
      /\ gate \in Gate(Instances) /\ Len(History) \in Nat /\ Len(LifeTold) \in Nat
      /\ DOMAIN LifeTold = 1..Len(LifeTold) /\ DOMAIN History = 1..Len(History)
      /\ events \in Seq(Event) /\ LogIsSound(events, rows) /\ IsHistory(History, rows)
      /\ LifeTold = ToldOf(events)
  BY HistoryFacts DEF Following
<1>2. PICK c, e, h, l, q : /\ c = gate.cursor /\ e = Len(gate.order) /\ q = Len(gate.queue)
                           /\ h = Len(History) /\ l = Len(LifeTold)
  OBVIOUS
<1>3. /\ c \in Nat /\ e \in Nat /\ h \in Nat /\ l \in Nat /\ q \in Nat
      /\ c - 1 <= e /\ e <= h /\ q <= c - 1 /\ l = c - 1 - q + (h - e) /\ l <= h
  <2>1. gate.cursor \in Nat /\ gate.order \in Seq(Instances) /\ gate.queue \in Seq(Instances)
    BY <1>1 DEF Gate
  <2>2. Len(gate.order) \in Nat /\ Len(gate.queue) \in Nat
    BY <2>1, LenProperties
  <2> QED BY <1>1, <1>2, <2>1, <2>2 DEF GateFollows, QueueIsPart, ToldFollows, IsBeginning
<1>4. PICK x, w, n : x = NodeSettled(i, o, FALSE) /\ w = Append(events, x) /\ n = Len(events) + 1
  OBVIOUS
<1>5. /\ x \in Event /\ IsAnswer(x) /\ ~x.cached
  BY <1>4 DEF NodeSettled, Event, IsAnswer, Outcomes
<1>6. /\ n \in Nat /\ DOMAIN events = 1..(n - 1) /\ DOMAIN w = 1..n /\ w[n] = x
      /\ \A k \in 1..(n - 1) : w[k] = events[k]
  <2>1. events \in Seq(Event) /\ x \in Event /\ w = Append(events, x)
    BY <1>1, <1>4, <1>5
  <2>2. /\ w \in Seq(Event) /\ Len(w) = Len(events) + 1 /\ w[Len(events) + 1] = x
        /\ \A k \in 1..Len(events) : w[k] = events[k]
    BY ONLY <2>1, AppendProperties
  <2>3. Len(events) \in Nat /\ DOMAIN events = 1..Len(events) /\ DOMAIN w = 1..Len(w)
    BY ONLY <2>1, <2>2, LenProperties
  <2>4. PICK d : d = Len(events)
    OBVIOUS
  <2>5. n = d + 1 /\ n - 1 = d /\ n \in Nat
    BY ONLY <1>4, <2>3, <2>4
  <2>6. DOMAIN events = 1..d /\ DOMAIN w = 1..n /\ w[n] = x /\ \A k \in 1..d : w[k] = events[k]
    BY ONLY <2>2, <2>3, <2>4, <2>5
  <2> QED BY ONLY <2>5, <2>6
<1>7. h <= l
  <2> SUFFICES ASSUME h > 0 PROVE h <= l
    BY <1>3
  <2>1. h \in DOMAIN History /\ History[h][1] \in SettledRows(rows)
    <3>1. h \in 1..h
      BY <1>3
    <3>2. h \in DOMAIN History
      BY <1>1, <1>2, <3>1
    <3>3. \A k \in DOMAIN History : History[k][1] \in SettledRows(rows)
      BY <1>1 DEF IsHistory
    <3> QED BY <3>2, <3>3
  <2>2. PICK m \in SettledAt(events) : events[m].inst = History[h][1]
    BY <1>1, <2>1 DEF LogIsSound, SettledRows
  <2>3. m \in 1..(n - 1) /\ m \in SettledAt(w) /\ n \in SettledAt(w) /\ w[m] = events[m]
    <3>1. m \in 1..(n - 1) /\ IsAnswer(events[m]) /\ ~events[m].cached
      BY <1>6, <2>2 DEF SettledAt
    <3>2. w[m] = events[m] /\ m \in 1..n /\ n \in 1..n
      BY <1>6, <3>1
    <3> QED BY <1>5, <1>6, <3>1, <3>2 DEF SettledAt
  <2>4. \A a, b \in SettledAt(w) : a < b =>
            \E k \in 1..(b - 1) : /\ IsAnswer(w[k]) /\ w[k].inst = w[a].inst
                                  /\ \A j \in k..b : w[j].type # "run-started"
    <3>1. w = events'
      BY <1>4
    <3> QED BY ONLY <3>1, ReplayComesFirst' DEF ReplayComesFirst
  <2>5. PICK k \in 1..(n - 1) : /\ IsAnswer(w[k]) /\ w[k].inst = w[m].inst
                                /\ \A j \in k..n : w[j].type # "run-started"
    <3>1. m < n
      BY <1>6, <2>3
    <3> QED BY <2>3, <2>4, <3>1
  <2>6. k \in ToldAt(events) /\ events[k].inst = History[h][1]
    <3>1. \A j \in 1..(n - 1) : j > k => events[j].type # "run-started"
      BY <1>6, <2>5
    <3> QED BY <1>6, <2>2, <2>3, <2>5, <3>1 DEF ToldAt
  <2>7. ToldAt(events) \in SUBSET Nat /\ IsFiniteSet(ToldAt(events))
    <3>1. PICK D, r : D = DOMAIN events /\ r = n - 1
      OBVIOUS
    <3>2. r \in Int /\ D = 1..r
      BY <1>6, <3>1
    <3>3. IsFiniteSet(D) /\ D \subseteq Nat
      BY ONLY <3>2, FS_Interval
    <3>4. ToldAt(events) \subseteq D
      BY <3>1 DEF ToldAt
    <3> QED BY <3>3, <3>4, FS_Subset
  <2>8. PICK j \in DOMAIN LifeTold : LifeTold[j][1] = events[k].inst
    <3>1. PICK S : S = ToldAt(events)
      OBVIOUS
    <3>2. \E j \in DOMAIN AnswersAt(events, S) : AnswersAt(events, S)[j][1] = events[k].inst
      BY <2>6, <2>7, <3>1, AnswersFound
    <3> QED BY <1>1, <3>1, <3>2 DEF ToldOf
  <2>9. j \in 1..l /\ j \in DOMAIN History /\ History[j] = LifeTold[j]
    <3>1. j \in 1..l /\ j \in 1..h
      BY <1>1, <1>2, <1>3
    <3> QED BY <1>1, <1>2, <3>1 DEF ToldFollows, IsBeginning
  <2>10. j = h
    BY <1>1, <2>1, <2>6, <2>8, <2>9 DEF IsHistory
  <2> QED BY <1>3, <2>9, <2>10
<1>8. l = h /\ c - 1 = e /\ q = 0
  BY ONLY <1>3, <1>7
<1>9. CaughtUp(gate)
  <2>1. gate.queue \in Seq(Instances) /\ Len(gate.queue) = 0
    BY <1>1, <1>2, <1>8 DEF Gate
  <2>2. gate.queue = <<>>
    BY <2>1, EmptySeq
  <2> QED BY <1>2, <1>3, <1>8, <2>2 DEF CaughtUp
<1>10. \A k \in 1..Len(LifeTold) : LifeTold[k] = History[k]
  BY <1>1 DEF ToldFollows, IsBeginning
<1> QED BY <1>2, <1>8, <1>9, <1>10, HistoryType, SeqEqual


\* What is told as it is put on its way is not acted on yet.
LEMMA SameConsumed ==
    ASSUME HistoryInv, NEW t \in Seq(Instances \X Outcomes),
           LifeTold' = Joined(LifeTold, t), inbox' = Joined(inbox, t)
    PROVE  Consumed' = Consumed
<1>1. PICK T, b : T = LifeTold /\ b = inbox
  OBVIOUS
<1>2. T \in Seq(Instances \X Outcomes) /\ b \in Seq(Instances \X Outcomes)
  BY <1>1, HistoryType
<1>3. PICK k, m, n : k = Len(T) /\ m = Len(b) /\ n = Len(t)
  OBVIOUS
<1>4. /\ k \in Nat /\ m \in Nat /\ n \in Nat
      /\ Len(Joined(T, t)) = k + n /\ Len(Joined(b, t)) = m + n
  BY ONLY <1>2, <1>3, t \in Seq(Instances \X Outcomes), JoinedLength
<1>5. Consumed = k - m /\ Consumed' = (k + n) - (m + n)
  BY <1>1, <1>3, <1>4 DEF Consumed
<1>6. k - m = (k + n) - (m + n)
  BY ONLY <1>4
<1> QED BY <1>5, <1>6

\* A settlement adds its ask to the history, and the life has been told all of it.
LEMMA SettleHistory ==
    ASSUME HistoryInv, PlacesInv', Running, NEW a \in Actors, NEW i \in Reached(rows, actors, a),
           actors[a].current = i, i \in Elements(live), NEW o \in {"ok", "failed"}, Settle(i, o),
           ReplayComesFirst', UNCHANGED <<run, up, runSettled, gate>>
    PROVE  /\ HistoryInv' /\ Running' /\ i \in Instances
           /\ LifeTold = History /\ LifeTold' = History' /\ Consumed' = Consumed
           /\ History' = Joined(History, << <<i, o>> >>)
           /\ \A n \in DOMAIN History : History[n][1] # i
<1>1. /\ OrderInv /\ TypeOK /\ LiveIsRunning /\ CallsHavePlaces
      /\ actors \in [Actors -> Actor] /\ actors[a] \in Actor /\ rows \in [Instances -> Row \cup {NoRow}]
      /\ inbox \in Seq(Instances \X Outcomes) /\ events \in Seq(Event)
      /\ History = HistoryOf(events) /\ LifeTold = ToldOf(events)
      /\ LogIsSound(events, rows) /\ IsHistory(History, rows)
      /\ Len(History) \in Nat /\ DOMAIN History = 1..Len(History)
      /\ GateFollows(gate, History, LifeTold) /\ ToldFollows(History, LifeTold, inbox)
      /\ GateKnows(gate, rows, actors)
  <2>1. OrderInv /\ IInv /\ TypeOK
    BY HistoryFacts
  <2>2. actors \in [Actors -> Actor] /\ rows \in [Instances -> Row \cup {NoRow}] /\ LiveIsRunning
    BY <2>1 DEF TypeOK, IInv
  <2> QED BY <2>1, <2>2, HistoryFacts, HistoryType DEF Following
<1>2. /\ i \in Recorded /\ i \in Instances /\ rows[i].actor = a /\ i \in Rows(rows)
      /\ rows[i].status = "running" /\ rows[i] \in Row
  <2>1. i \in Recorded /\ i \in Instances /\ rows[i].actor = a /\ i \in Rows(rows)
    BY <1>1, RowFacts DEF Reached, RowsOf
  <2> QED BY <1>1, <2>1, RowFacts DEF LiveIsRunning
<1> DEFINE as == [actors EXCEPT ![a] = [actors[a] EXCEPT !.current = NoInst]]
<1>3. /\ rows' = [rows EXCEPT ![i].status = RowStatus[o]]
      /\ inbox' = Append(inbox, <<i, o>>)
      /\ events' = Append(events, NodeSettled(i, o, FALSE))
      /\ Pump(as, activeAsks - 1, Actors, cap)
  BY <1>2 DEF Settle
<1>4. as \in [Actors -> Actor] /\ \A d \in Actors :
          /\ as[d].nextAdmitSeq = actors[d].nextAdmitSeq
          /\ as[d].recordedCount = actors[d].recordedCount
  BY <1>1 DEF Actor
<1>5. SameNumbers
  <2>1. \A d \in Actors : SamePlaces(as, d)
    <3> HIDE DEF as
    <3> QED BY <1>3, <1>4, PumpPlaces
  <2> QED BY <1>4, <2>1 DEF SamePlaces, SameNumbers
<1> HIDE DEF as
<1>6. /\ SameAsks(rows, rows') /\ \A j \in Instances \ {i} : rows'[j] = rows[j]
      /\ Rows(rows') = Rows(rows) /\ rows'[i].status = RowStatus[o]
  <2>0. turns' \subseteq turns
    BY DEF Settle
  <2>1. SameAsks(rows, rows') /\ \A j \in Instances \ {i} : rows'[j] = rows[j]
    BY <1>1, <1>2, <1>3, <2>0, SettledInOrder
  <2>2. rows'[i].status = RowStatus[o]
    BY <1>1, <1>2, <1>3 DEF Row
  <2> QED BY <2>1, <2>2 DEF SameAsks
<1>7. PICK x, t : x = <<i, o>> /\ t = <<x>>
  OBVIOUS
<1>8. /\ x \in Instances \X Outcomes /\ t \in Seq(Instances \X Outcomes)
      /\ Len(t) = 1 /\ t[1] = x
  BY <1>2, <1>7 DEF Outcomes
<1>9. PICK w : w = Append(events, NodeSettled(i, o, FALSE))
  OBVIOUS
<1>10. /\ HistoryOf(w) = Joined(HistoryOf(events), << <<i, o>> >>)
       /\ ToldOf(w) = Joined(ToldOf(events), << <<i, o>> >>)
       /\ LogIsSound(w, rows')
  <2>1. \A j \in Rows(rows) \ {i} : rows'[j] = rows[j]
    BY <1>6 DEF Rows
  <2> QED BY <1>1, <1>2, <1>6, <1>9, <2>1, LogSettles
<1>11. LifeTold = History /\ CaughtUp(gate)
  BY <1>2, <1>3, ToldIsAll
<1>12. /\ History' = Joined(History, t) /\ LifeTold' = Joined(LifeTold, t) /\ LifeTold' = History'
       /\ LogIsSound(events', rows')
  BY <1>1, <1>3, <1>7, <1>9, <1>10, <1>11, NextHistory
<1>13. /\ Len(History') = Len(History) + 1 /\ \A n \in 1..Len(History) : History'[n] = History[n]
  <2>1. Len(Joined(History, t)) = Len(History) + Len(t)
    BY <1>8, HistoryType, JoinedLength
  <2>2. \A n \in 1..Len(History) : Joined(History, t)[n] = History[n]
    BY <1>8, HistoryType, JoinedReads
  <2> QED BY <1>8, <1>12, <2>1, <2>2
<1>14. inbox' = Joined(inbox, t)
  <2>1. inbox' = Append(inbox, x)
    BY <1>3, <1>7
  <2> QED BY <1>1, <1>7, <1>8, <2>1, AppendIsConcat DEF Joined
<1>15. ToldFollows(History', LifeTold', inbox')
  <2>1. IsEnding(inbox, LifeTold)
    BY <1>1 DEF ToldFollows
  <2>2. IsBeginning(LifeTold', History')
    BY <1>1, <1>12, <1>13 DEF IsBeginning
  <2>3. PICK T, b, H, U, c : T = LifeTold /\ b = inbox /\ H = History' /\ U = LifeTold' /\ c = inbox'
    OBVIOUS
  <2>4. T \in Seq(Instances \X Outcomes) /\ b \in Seq(Instances \X Outcomes)
    BY <1>1, <2>3, HistoryType
  <2>5. U = Joined(T, t) /\ c = Joined(b, t) /\ IsEnding(b, T) /\ IsBeginning(U, H)
    BY <1>12, <1>14, <2>1, <2>2, <2>3
  <2>6. ToldFollows(H, U, c)
    BY ONLY <1>8, <2>4, <2>5, BoxFollows
  <2> QED BY <2>3, <2>6
<1>16. GateFollows(gate', History', LifeTold')
  <2>1. PICK h, k, e, c, q : h = Len(History) /\ k = Len(History') /\ e = Len(gate.order)
                             /\ c = gate.cursor /\ q = Len(gate.queue)
    OBVIOUS
  <2>2. /\ h \in Nat /\ k = h + 1 /\ e <= h /\ h = c - 1 - q + (h - e)
        /\ e \in Nat /\ c \in Nat /\ q \in Nat
    <3>1. gate.order \in Seq(Instances) /\ gate.queue \in Seq(Instances) /\ gate.cursor \in Nat
      BY HistoryFacts DEF Gate
    <3>2. e \in Nat /\ q \in Nat
      BY <2>1, <3>1, LenProperties
    <3> QED BY <1>1, <1>11, <1>13, <2>1, <3>1, <3>2 DEF GateFollows
  <2>3. e <= k /\ k = c - 1 - q + (k - e)
    BY ONLY <2>2
  <2>4. \A n \in DOMAIN gate.order : gate.order[n] = History'[n][1]
    <3> TAKE n \in DOMAIN gate.order
    <3>1. n \in 1..Len(gate.order)
      <4>1. gate.order \in Seq(Instances)
        BY HistoryFacts DEF Gate
      <4> QED BY <4>1, LenProperties
    <3>2. n \in 1..Len(History)
      BY <2>1, <2>2, <3>1
    <3> QED BY <1>1, <1>13, <3>2 DEF GateFollows
  <2>5. CaughtUp(gate)
    BY <1>11
  <2>6. GateFollows(gate, History', LifeTold')
    <3>1. ~gate.opened /\ c - 1 <= e /\ QueueIsPart(gate.queue, gate.order, c)
      BY <1>1, <2>1 DEF GateFollows
    <3>2. Len(LifeTold') = k /\ Len(History') = k
      BY <1>12, <2>1
    <3> QED BY <2>1, <2>3, <2>4, <2>5, <3>1, <3>2 DEF GateFollows
  <2> QED BY <2>6
<1>17. GateKnows(gate', rows', actors')
  <2>1. \A d \in Actors : Reached(rows', actors', d) = Reached(rows, actors, d)
    <3> TAKE d \in Actors
    <3>1. RowsOf(rows', d) = RowsOf(rows, d)
      BY <1>6, NumbersKept
    <3>2. \A j \in RowsOf(rows, d) : rows'[j].actorSeq = rows[j].actorSeq
      BY <1>6 DEF SameAsks, RowsOf
    <3> QED BY <1>5, <3>1, <3>2 DEF Reached, SameNumbers
  <2>2. ReachedAny(rows', actors') = ReachedAny(rows, actors)
    BY <2>1 DEF ReachedAny
  <2>3. i \in ReachedAny(rows, actors)
    BY DEF ReachedAny
  <2>4. ASSUME NEW j \in Rows(rows'), rows'[j].status # "running"
        PROVE  j \in ReachedAny(rows, actors) \/ j \in Elements(gate.order)
    <3>1. CASE j = i
      BY <2>3, <3>1
    <3>2. CASE j # i
      <4>1. j \in Rows(rows) /\ rows[j].status # "running"
        BY <1>6, <2>4, <3>2 DEF Rows
      <4> QED BY <1>1, <4>1 DEF GateKnows
    <3> QED BY <3>1, <3>2
  <2>5. GateKnows(gate, rows', actors')
    BY <1>1, <2>2, <2>4 DEF GateKnows
  <2> QED BY <2>5
<1>18. RunRowAgrees' /\ Running'
  BY HistoryFacts DEF RunRowAgrees, Running
<1>19. \A n \in DOMAIN History : History[n][1] # i
  BY <1>1, <1>2 DEF IsHistory, SettledRows
<1>20. HistoryInv'
  BY <1>12, <1>15, <1>16, <1>17, <1>18 DEF HistoryInv
<1>21. Consumed' = Consumed
  BY <1>8, <1>12, <1>14, SameConsumed
<1> QED BY <1>2, <1>7, <1>11, <1>12, <1>18, <1>19, <1>20, <1>21


\* The flush tells the life the next part of the history.
LEMMA FlushHistory ==
    ASSUME HistoryInv, PlacesInv', FlushReplay
    PROVE  /\ HistoryInv' /\ Running /\ Running' /\ History' = History
           /\ Len(LifeTold) < Len(LifeTold') /\ IsBeginning(LifeTold', History)
           /\ run' = run /\ Consumed' = Consumed
<1> DEFINE q == gate.queue
<1>1. /\ up /\ q # <<>> /\ gate' = Flushed(gate)
      /\ inbox' = inbox \o CachedAnswers(q) /\ events' = events \o CachedEvents(q)
      /\ UNCHANGED <<rows, run, up, runSettled, actors>>
  BY DEF FlushReplay, askVars
<1>2. Running
  BY <1>1, HistoryFacts DEF LogInv, Running
<1>3. /\ TypeOK /\ gate \in Gate(Terminal) /\ gate \in Gate(Instances) /\ events \in Seq(Event)
      /\ History = HistoryOf(events) /\ LifeTold = ToldOf(events)
      /\ LogIsSound(events, rows) /\ IsHistory(History, rows)
      /\ Len(History) \in Nat /\ DOMAIN History = 1..Len(History)
      /\ GateFollows(gate, History, LifeTold) /\ ToldFollows(History, LifeTold, inbox)
      /\ GateKnows(gate, rows, actors)
  BY <1>2, HistoryFacts DEF Following, IInv, GateHoldsSettled
<1>4. q \in Seq(Terminal)
  BY <1>3 DEF Gate
<1>5. PICK e, t : e = CachedEvents(q) /\ t = CachedAnswers(q)
  OBVIOUS
<1>6. /\ e \in Seq(Event) /\ t \in Seq(Instances \X Outcomes)
      /\ \A k \in 1..Len(e) : /\ ~Settling(e[k]) /\ IsAnswer(e[k])
                              /\ e[k].inst \in SettledRows(rows)
      /\ Len(t) = Len(q) /\ \A k \in 1..Len(q) : t[k] = <<q[k], OutcomeOf[rows[q[k]].status]>>
  <2>1. e \in Seq(Event) /\ t \in Seq(Instances \X Outcomes)
    BY <1>3, <1>4, <1>5, CachedTypes
  <2>2. Terminal = SettledRows(rows)
    BY <1>3, RowFacts DEF SettledRows, Terminal
  <2>3. \A k \in 1..Len(e) : ~Settling(e[k]) /\ IsAnswer(e[k]) /\ e[k].inst \in SettledRows(rows)
    BY <1>3, <1>4, <1>5, <2>2, CachedTell
  <2>4. DOMAIN q = 1..Len(q) /\ DOMAIN t = 1..Len(t) /\ Len(q) \in Nat /\ Len(t) \in Nat
    BY <1>4, <2>1, LenProperties
  <2>5. DOMAIN t = DOMAIN q /\ \A k \in DOMAIN q : t[k] = <<q[k], OutcomeOf[rows[q[k]].status]>>
    BY <1>5 DEF CachedAnswers
  <2>6. Len(t) = Len(q)
    BY <2>4, <2>5
  <2> QED BY <2>1, <2>3, <2>4, <2>5, <2>6
<1>7. PICK w : w = Joined(events, e)
  OBVIOUS
<1>8. events' = w
  BY <1>1, <1>5, <1>7 DEF Joined
<1>9. HistoryOf(w) = HistoryOf(events) /\ LogIsSound(w, rows)
  <2>1. \A k \in 1..Len(e) : ~Settling(e[k]) /\ (IsAnswer(e[k]) => e[k].inst \in SettledRows(rows))
    BY <1>6
  <2> QED BY ONLY <1>3, <1>6, <1>7, <2>1, LogRepeats
<1>10. /\ History' = History /\ LogIsSound(events', rows')
       /\ LifeTold' = Joined(LifeTold, t)
  <2>1. ToldOf(Joined(events, CachedEvents(q))) = Joined(ToldOf(events), CachedAnswers(q))
    BY <1>3, <1>4, LogTells
  <2> QED BY <1>1, <1>3, <1>5, <1>7, <1>8, <1>9, <2>1, NextHistory
<1>11. inbox' = Joined(inbox, t)
  BY <1>1, <1>5 DEF Joined
<1>12. PICK k, n, h, l, c, o : k = Len(LifeTold) /\ n = Len(q) /\ h = Len(History)
                               /\ l = Len(gate.order) /\ c = gate.cursor /\ o = gate.order
  OBVIOUS
<1>13. /\ k \in Nat /\ n \in Nat /\ n > 0 /\ h \in Nat /\ l \in Nat /\ c \in Nat
       /\ h = l /\ k = c - 1 - n /\ c - 1 <= l
  <2>1. o \in Seq(Instances) /\ c \in Nat
    BY <1>3, <1>12 DEF Gate
  <2>2. k \in Nat /\ n \in Nat /\ l \in Nat
    BY <1>4, <1>12, <2>1, HistoryFacts, LenProperties
  <2>3. n > 0
    BY <1>1, <1>4, <1>12, <2>2, EmptySeq
  <2>4. l <= h /\ c - 1 <= l /\ k = c - 1 - n + (h - l) /\ h \in Nat
    BY <1>3, <1>12 DEF GateFollows
  <2>5. ~(h > l)
    BY <1>1, <1>3, <1>12 DEF GateFollows, CaughtUp
  <2>6. h = l
    BY ONLY <2>2, <2>4, <2>5
  <2> QED BY <2>1, <2>2, <2>3, <2>4, <2>6
<1>14. ASSUME NEW m \in 1..n PROVE t[m] = History[k + m]
  <2>1. q[m] = o[k + m]
    BY <1>3, <1>12, <1>13 DEF GateFollows, QueueIsPart
  <2>2. k + m \in 1..l /\ DOMAIN o = 1..l
    <3>1. k + m \in 1..l
      BY ONLY <1>13, m \in 1..n
    <3>2. o \in Seq(Instances)
      BY <1>3, <1>12 DEF Gate
    <3> QED BY <1>12, <3>1, <3>2, LenProperties
  <2>3. o[k + m] = History[k + m][1]
    BY <1>3, <1>12, <2>2 DEF GateFollows
  <2>4. k + m \in DOMAIN History
    BY <1>3, <1>12, <1>13, <2>2
  <2>5. History[k + m] \in Instances \X {"ok", "failed"}
    BY <1>3, <2>4, ElementOfSeq DEF IsHistory
  <2>6. History[k + m][2] = OutcomeOf[rows[History[k + m][1]].status]
    BY <1>3, <2>4 DEF IsHistory
  <2>7. t[m] = <<q[m], OutcomeOf[rows[q[m]].status]>>
    BY <1>6, <1>12
  <2>8. PICK x : x = History[k + m]
    OBVIOUS
  <2>9. x \in Instances \X {"ok", "failed"} /\ x[2] = OutcomeOf[rows[x[1]].status] /\ q[m] = x[1]
    BY <2>1, <2>3, <2>5, <2>6, <2>8
  <2>10. x = <<x[1], x[2]>>
    BY ONLY <2>9
  <2> QED BY <2>7, <2>8, <2>9, <2>10
<1>15. /\ Len(LifeTold') = k + n /\ DOMAIN LifeTold' = 1..(k + n)
       /\ \A m \in 1..k : LifeTold'[m] = LifeTold[m]
       /\ \A m \in 1..n : LifeTold'[k + m] = t[m]
  <2>1. /\ Len(Joined(LifeTold, t)) = Len(LifeTold) + Len(t)
        /\ DOMAIN Joined(LifeTold, t) = 1..(Len(LifeTold) + Len(t))
    BY <1>2, <1>6, HistoryType, JoinedLength
  <2>2. /\ \A m \in 1..Len(LifeTold) : Joined(LifeTold, t)[m] = LifeTold[m]
        /\ \A m \in 1..Len(t) : Joined(LifeTold, t)[Len(LifeTold) + m] = t[m]
    BY <1>2, <1>6, HistoryType, JoinedReads
  <2> QED BY <1>6, <1>10, <1>12, <2>1, <2>2
<1>16. IsBeginning(LifeTold', History)
  <2>1. k + n <= h
    BY ONLY <1>13
  <2>2. ASSUME NEW m \in 1..(k + n) PROVE LifeTold'[m] = History[m]
    <3>1. CASE m <= k
      <4>1. m \in 1..k
        BY ONLY <1>13, <3>1, m \in 1..(k + n)
      <4>2. LifeTold[m] = History[m]
        <5>1. DOMAIN LifeTold = 1..k
          BY <1>12, HistoryFacts
        <5> QED BY <1>3, <4>1, <5>1 DEF ToldFollows, IsBeginning
      <4> QED BY <1>15, <4>1, <4>2
    <3>2. CASE ~(m <= k)
      <4>1. PICK j : j = m - k
        OBVIOUS
      <4>2. j \in 1..n /\ m = k + j
        BY ONLY <1>13, <3>2, <4>1, m \in 1..(k + n)
      <4> QED BY <1>14, <1>15, <4>2
    <3> QED BY <3>1, <3>2
  <2> QED BY <1>12, <1>15, <2>1, <2>2 DEF IsBeginning
<1>17. ToldFollows(History', LifeTold', inbox')
  <2>1. IsEnding(inbox, LifeTold)
    BY <1>3 DEF ToldFollows
  <2>2. IsBeginning(LifeTold', History')
    BY <1>10, <1>16
  <2>3. PICK T, b, H, U, d : T = LifeTold /\ b = inbox /\ H = History' /\ U = LifeTold' /\ d = inbox'
    OBVIOUS
  <2>4. T \in Seq(Instances \X Outcomes) /\ b \in Seq(Instances \X Outcomes)
    BY <2>3, HistoryType
  <2>5. U = Joined(T, t) /\ d = Joined(b, t) /\ IsEnding(b, T) /\ IsBeginning(U, H)
    BY <1>10, <1>11, <2>1, <2>2, <2>3
  <2>6. ToldFollows(H, U, d)
    BY ONLY <1>6, <2>4, <2>5, BoxFollows
  <2> QED BY <2>3, <2>6
<1>18. /\ gate'.order = o /\ gate'.cursor = c /\ gate'.queue = <<>> /\ gate'.opened = gate.opened
  BY <1>1, <1>3, <1>12 DEF Flushed, Gate
<1>19. GateFollows(gate', History', LifeTold')
  <2>1. QueueIsPart(<<>>, o, c)
    <3>1. PICK s : s = <<>>
      OBVIOUS
    <3>2. Len(s) = 0
      BY <3>1, EmptySeq
    <3>3. QueueIsPart(s, o, c)
      <4>1. 0 <= c - 1
        BY ONLY <1>13
      <4> QED BY <3>2, <4>1 DEF QueueIsPart
    <3> QED BY <3>1, <3>3
  <2>2. Len(gate'.queue) = 0
    BY <1>18, EmptySeq
  <2>3. Len(LifeTold') = c - 1 - 0 + (h - l)
    BY ONLY <1>13, <1>15
  <2>4. ~(h > l)
    BY ONLY <1>13
  <2>5. /\ ~gate.opened /\ l <= h /\ (\A j \in DOMAIN o : o[j] = History[j][1]) /\ c - 1 <= l
    BY <1>3, <1>12 DEF GateFollows
  <2> QED BY <1>10, <1>12, <1>18, <2>1, <2>2, <2>3, <2>4, <2>5 DEF GateFollows
<1>20. GateKnows(gate', rows', actors')
  <2>1. rows' = rows /\ actors' = actors
    BY <1>1
  <2>2. GateKnows(gate', rows, actors)
    BY <1>3, <1>12, <1>18 DEF GateKnows
  <2> QED BY <2>1, <2>2
<1>21. RunRowAgrees' /\ Running'
  BY <1>1, <1>2, HistoryFacts DEF RunRowAgrees, Running
<1>22. HistoryInv'
  BY <1>10, <1>17, <1>19, <1>20, <1>21 DEF HistoryInv
<1>23. Len(LifeTold) < Len(LifeTold')
  BY <1>12, <1>13, <1>15
<1>24. Consumed' = Consumed
  BY <1>6, <1>10, <1>11, SameConsumed
<1> QED BY <1>1, <1>2, <1>10, <1>16, <1>21, <1>22, <1>23, <1>24


\* Taking the next answer from the box.
LEMMA TailFollows ==
    ASSUME NEW X, NEW H, NEW T \in Seq(X), NEW box \in Seq(X), box # <<>>, ToldFollows(H, T, box)
    PROVE  ToldFollows(H, T, Tail(box)) /\ Tail(box) \in Seq(X)
<1>1. PICK t, n, k : t = Tail(box) /\ n = Len(box) /\ k = Len(T)
  OBVIOUS
<1>2. t \in Seq(X) /\ Len(t) = n - 1 /\ \A m \in 1..Len(t) : t[m] = box[m + 1]
  BY <1>1, HeadTailProperties
<1>3. /\ n \in Nat /\ k \in Nat /\ n # 0 /\ n <= k
      /\ DOMAIN t = 1..Len(t) /\ \A m \in 1..n : box[m] = T[k - n + m]
  <2>1. n \in Nat /\ k \in Nat /\ n # 0 /\ DOMAIN t = 1..Len(t) /\ DOMAIN box = 1..n
    BY <1>1, <1>2, LenProperties, EmptySeq
  <2> QED BY <1>1, <2>1 DEF ToldFollows, IsEnding
<1>4. ASSUME NEW m \in 1..Len(t) PROVE t[m] = T[k - Len(t) + m]
  <2>1. m \in 1..(n - 1) /\ m + 1 \in 1..n /\ k - n + (m + 1) = k - Len(t) + m
    BY ONLY <1>2, <1>3, <1>4
  <2>2. t[m] = box[m + 1] /\ box[m + 1] = T[k - n + (m + 1)]
    BY <1>2, <1>3, <2>1
  <2> QED BY <2>1, <2>2
<1>5. Len(t) <= k
  BY ONLY <1>2, <1>3
<1> QED BY <1>1, <1>2, <1>3, <1>4, <1>5 DEF ToldFollows, IsEnding
--------------------------------------------------------------------------------
(* The marks of a journal stay. *)

\* The log w goes on from log, and settles none of the asks T.
LogGoesOn(log, w, T) ==
    /\ Len(log) <= Len(w) /\ \A n \in 1..Len(log) : w[n] = log[n]
    /\ \A n \in 1..Len(w) : n > Len(log) /\ Settling(w[n]) => w[n].inst \notin T

LEMMA JoinedGoesOn ==
    ASSUME NEW log \in Seq(Event), NEW t \in Seq(Event), NEW T,
           \A k \in 1..Len(t) : Settling(t[k]) => t[k].inst \notin T
    PROVE  LogGoesOn(log, Joined(log, t), T)
<1>1. PICK w, l, k : w = Joined(log, t) /\ l = Len(log) /\ k = Len(t)
  OBVIOUS
<1>2. l \in Nat /\ k \in Nat /\ Len(w) = l + k
  BY <1>1, JoinedLength
<1>3. /\ \A n \in 1..l : w[n] = log[n]
      /\ \A n \in 1..k : w[l + n] = t[n]
  BY <1>1, JoinedReads
<1>4. ASSUME NEW n \in 1..Len(w), n > l, Settling(w[n]) PROVE w[n].inst \notin T
  <2>1. PICK j : j = n - l
    OBVIOUS
  <2>2. j \in 1..k /\ n = l + j
    BY <1>2, <1>4, <2>1
  <2>3. w[n] = t[j]
    BY <1>3, <2>2
  <2> QED BY <1>1, <1>4, <2>2, <2>3
<1>5. l <= Len(w)
  BY <1>2
<1> QED BY <1>1, <1>3, <1>4, <1>5 DEF LogGoesOn

LEMMA GoesOnTwice ==
    ASSUME NEW log \in Seq(Event), NEW u \in Seq(Event), NEW w \in Seq(Event), NEW T,
           LogGoesOn(log, u, T), LogGoesOn(u, w, T)
    PROVE  LogGoesOn(log, w, T)
<1>1. PICK l, m, n : l = Len(log) /\ m = Len(u) /\ n = Len(w)
  OBVIOUS
<1>2. l \in Nat /\ m \in Nat /\ n \in Nat /\ l <= m /\ m <= n
  BY <1>1, LenProperties DEF LogGoesOn
<1>3. \A k \in 1..l : w[k] = log[k]
  <2> TAKE k \in 1..l
  <2>1. k \in 1..m
    BY <1>2
  <2> QED BY <1>1, <2>1 DEF LogGoesOn
<1>4. ASSUME NEW k \in 1..n, k > l, Settling(w[k]) PROVE w[k].inst \notin T
  <2>1. CASE k > m
    BY <1>1, <1>4, <2>1 DEF LogGoesOn
  <2>2. CASE ~(k > m)
    <3>1. k \in 1..m
      BY <1>2, <2>2
    <3>2. w[k] = u[k]
      BY <1>1, <3>1 DEF LogGoesOn
    <3> QED BY <1>1, <1>4, <3>1, <3>2 DEF LogGoesOn
  <2> QED BY <2>1, <2>2
<1> QED BY <1>1, <1>2, <1>3, <1>4 DEF LogGoesOn

\* Every step adds to the log, and settles no ask that has settled before.
GoesOn == LogGoesOn(events, events', Terminal)

LEMMA SilentGoesOn == ASSUME TypeOK, events' = events PROVE GoesOn
<1>1. PICK w, l : w = events' /\ l = Len(events)
  OBVIOUS
<1>2. l \in Nat /\ w = events
  BY <1>1, LenProperties DEF TypeOK
<1>3. \A n \in 1..l : ~(n > l)
  BY <1>2
<1>4. LogGoesOn(events, w, Terminal)
  BY <1>1, <1>2, <1>3 DEF LogGoesOn
<1> QED BY <1>1, <1>4 DEF GoesOn

LEMMA CachedGoesOn ==
    ASSUME TypeOK, NEW ks \in Seq(Terminal)
    PROVE  /\ LogGoesOn(events, Joined(events, CachedEvents(ks)), Terminal)
           /\ Joined(events, CachedEvents(ks)) \in Seq(Event)
<1>1. PICK c : c = CachedEvents(ks)
  OBVIOUS
<1>2. c \in Seq(Event) /\ \A k \in 1..Len(c) : ~Settling(c[k])
  BY <1>1, CachedTell
<1>3. events \in Seq(Event)
  BY DEF TypeOK
<1> QED BY <1>1, <1>2, <1>3, JoinedGoesOn, JoinedType

LEMMA AdmitGoesOn ==
    ASSUME LogInv, NEW a \in Actors, NEW R \in SUBSET Recorded, NEW L, NEW box, NEW pumped,
           Admit(a, R, L, box, pumped)
    PROVE  GoesOn
<1>1. PICK ks : ks = PassingNow(a, R)
  OBVIOUS
<1>2. ks \in Seq(Terminal)
  BY <1>1, PassingNowType
<1>3. events' = events \o CachedEvents(PassingNow(a, R))
  BY Zenon DEF Admit, Leaving, SeqOf, Rerun, Cached, PassingNow
<1>4. events' = Joined(events, CachedEvents(ks))
  BY <1>1, <1>3 DEF Joined
<1>5. TypeOK
  BY DEF LogInv, OrderInv, IInv
<1> QED BY <1>2, <1>4, <1>5, CachedGoesOn DEF GoesOn

LEMMA SettleGoesOn ==
    ASSUME LogInv, NEW i \in Elements(live), NEW o \in {"ok", "failed"}, Settle(i, o)
    PROVE  GoesOn
<1>1. TypeOK /\ LiveIsRunning /\ events \in Seq(Event) /\ i \in Instances
  <2>1. TypeOK /\ LiveIsRunning
    BY DEF LogInv, OrderInv, IInv
  <2> QED BY <2>1, ElementsOfSeq DEF TypeOK
<1>2. PICK x, t : x = NodeSettled(i, o, FALSE) /\ t = <<x>>
  OBVIOUS
<1>3. x \in Event /\ x.inst = i
  <2>1. NodeSettled(i, o, FALSE) \in Event /\ NodeSettled(i, o, FALSE).inst = i
    BY ONLY <1>1, o \in {"ok", "failed"} DEF NodeSettled, Event, Outcomes
  <2> QED BY <1>2, <2>1
<1>4. t \in Seq(Event) /\ Len(t) = 1 /\ t[1] = x
  <2>1. x \in Event /\ t = <<x>>
    BY <1>2, <1>3
  <2> QED BY ONLY <2>1
<1>5. i \notin Terminal
  BY <1>1 DEF LiveIsRunning, Terminal
<1>6. events' = Joined(events, t)
  <2>1. events' = Append(events, x)
    BY <1>2 DEF Settle
  <2> QED BY <1>1, <1>2, <1>3, <2>1, AppendIsConcat DEF Joined
<1>7. \A k \in 1..Len(t) : t[k].inst \notin Terminal
  BY <1>3, <1>4, <1>5
<1> QED BY <1>1, <1>4, <1>6, <1>7, JoinedGoesOn DEF GoesOn

LEMMA FinishGoesOn ==
    ASSUME LogInv, NEW st \in RunStatuses, NEW reason, NEW fail, NEW emit, NEW box,
           Finish(st, reason, fail, emit, box)
    PROVE  GoesOn
<1> DEFINE ks == Remaining(gate)
           c  == CachedEvents(ks)
           x  == IF emit THEN [n \in DOMAIN live |-> NodeSettled(live[n], "cancelled", FALSE)]
                 ELSE <<>>
           e  == <<RunSettledEvent(st)>>
<1>1. TypeOK /\ GateHoldsSettled /\ events \in Seq(Event) /\ live \in Seq(Instances)
  BY DEF LogInv, OrderInv, IInv, TypeOK
<1>2. events' = ((events \o c) \o x) \o e
  BY Zenon DEF Finish
<1>3. ks \in Seq(Terminal)
  <2>1. IsFiniteSet(Terminal)
    BY InstancesFinite, FS_Subset DEF Terminal, Recorded
  <2> QED BY <1>1, <2>1, RemainingType DEF GateHoldsSettled
<1> HIDE DEF ks
<1>4. x \in Seq(Event) /\ \A k \in 1..Len(x) : ~Settling(x[k])
  <2> DEFINE v(n) == NodeSettled(live[n], "cancelled", FALSE)
  <2>1. Len(live) \in Nat /\ DOMAIN live = 1..Len(live) /\ \A n \in 1..Len(live) : live[n] \in Instances
    BY <1>1, LenProperties, ElementOfSeq
  <2>2. \A n \in 1..Len(live) : v(n) \in Event /\ ~Settling(v(n))
    BY <2>1 DEF NodeSettled, Event, Outcomes, IsAnswer, Settling
  <2>3. x = [n \in 1..Len(live) |-> v(n)] \/ x = <<>>
    BY <2>1
  <2> HIDE DEF v, x
  <2>4. CASE x = [n \in 1..Len(live) |-> v(n)]
    <3>1. x \in Seq(Event) /\ DOMAIN x = 1..Len(live)
      BY <2>1, <2>2, <2>4, IsASeq
    <3>2. Len(x) = Len(live)
      BY <2>1, <3>1, LenProperties
    <3> QED BY <2>2, <2>4, <3>1, <3>2
  <2>5. CASE x = <<>>
    <3>1. x \in Seq(Event) /\ Len(x) = 0
      BY <2>5, EmptySeq
    <3> QED BY <3>1
  <2> QED BY <2>3, <2>4, <2>5
<1>5. e \in Seq(Event) /\ \A k \in 1..Len(e) : ~Settling(e[k])
  <2>1. RunSettledEvent(st) \in Event /\ RunSettledEvent(st).type = "run-settled"
    BY DEF RunSettledEvent, Event
  <2> QED BY <2>1 DEF IsAnswer, Settling
<1>6. PICK u : u = Joined(events, c)
  OBVIOUS
<1>7. u \in Seq(Event) /\ LogGoesOn(events, u, Terminal)
  BY <1>1, <1>3, <1>6, CachedGoesOn
<1> HIDE DEF c, x, e
<1>8. PICK v : v = Joined(u, x)
  OBVIOUS
<1>9. PICK w : w = Joined(v, e)
  OBVIOUS
<1>10. v \in Seq(Event) /\ LogGoesOn(u, v, Terminal)
  BY <1>4, <1>7, <1>8, JoinedGoesOn, JoinedType
<1>11. w \in Seq(Event) /\ LogGoesOn(v, w, Terminal)
  BY <1>5, <1>9, <1>10, JoinedGoesOn, JoinedType
<1>12. events' = w
  BY <1>2, <1>6, <1>8, <1>9 DEF Joined
<1>13. LogGoesOn(events, v, Terminal)
  BY <1>1, <1>7, <1>10, GoesOnTwice
<1>14. LogGoesOn(events, w, Terminal)
  BY <1>1, <1>10, <1>11, <1>13, GoesOnTwice
<1> QED BY <1>12, <1>14 DEF GoesOn

LEMMA AskGoesOn ==
    ASSUME LogInv, NEW b \in Branches, NEW n \in DOMAIN Prog[b], NEW o, NEW box, Ask(b, n, o, box)
    PROVE  GoesOn
<1> DEFINE site == Prog[b][n][1]
           a    == Prog[b][n][2]
           i    == <<site, ordinals[site] + 1>>
           A    == actors[a]
<1>0. Prog[b] \in Seq(Sites \X Actors)
  BY ConstantsAssumption
<1>1. site \in Sites /\ a \in Actors
  BY <1>0, LenProperties, ElementOfSeq
<1>2. A.pendingRecorded \in SUBSET Recorded
  BY <1>1 DEF LogInv, OrderInv, IInv, RecordedCallsHaveRows
<1>3. i \in Instances
  <2>1. ordinals[site] < MaxOrdinal /\ ordinals[site] \in 0..MaxOrdinal /\ MaxOrdinal \in Nat
    BY <1>1, ConstantsAssumption DEF Ask, LogInv, OrderInv, IInv, TypeOK
  <2> QED BY <1>1, <2>1 DEF Instances
<1>4. rows[i] # NoRow => A.pendingRecorded \cup {i} \in SUBSET Recorded
  BY <1>2, <1>3 DEF Recorded
<1>5. \/ Admit(a, A.pendingRecorded, Append(A.pendingLive, <<i, <<b, n, o>>>>), box, Actors)
      \/ rows[i] # NoRow /\ Admit(a, A.pendingRecorded \cup {i}, A.pendingLive, box, {a})
      \/ Finish("errored", "none", "InputHashMismatch", FALSE, box)
  BY DEF Ask
<1>6. "errored" \in RunStatuses
  BY DEF RunStatuses
<1> HIDE DEF site, a, i, A
<1> QED BY <1>1, <1>2, <1>4, <1>5, <1>6, AdmitGoesOn, FinishGoesOn

LEMMA ScriptGoesOn == ASSUME LogInv, Script PROVE GoesOn
<1>0. TypeOK /\ GateHoldsSettled
  BY DEF LogInv, OrderInv, IInv
<1>1. ASSUME NEW b \in Branches, StartBranch(b) PROVE GoesOn
  <2>1. Prog[b] \in Seq(Sites \X Actors) /\ Prog[b] # <<>>
    BY ConstantsAssumption
  <2>2. Len(Prog[b]) \in Nat /\ Len(Prog[b]) # 0 /\ DOMAIN Prog[b] = 1..Len(Prog[b])
    BY <2>1, LenProperties, EmptySeq
  <2>3. 1 \in DOMAIN Prog[b]
    BY <2>2
  <2> QED BY <1>1, <2>3, AskGoesOn DEF StartBranch
<1>2. ASSUME NEW b \in Branches, Continue(b) PROVE GoesOn
  <2>1. PICK o, rest : o = Head(inbox)[2] /\ rest = Tail(inbox)
    OBVIOUS
  <2>2. \/ pc[b] < Len(Prog[b]) /\ pc[b] > 0 /\ Ask(b, pc[b] + 1, o, rest)
        \/ events' = events
        \/ Finish("errored", "none", "ScriptError", FALSE, rest)
    BY <1>2, <2>1 DEF Continue, journalVars
  <2>3. CASE pc[b] < Len(Prog[b]) /\ pc[b] > 0 /\ Ask(b, pc[b] + 1, o, rest)
    <3>1. Prog[b] \in Seq(Sites \X Actors) /\ pc[b] \in Nat
      BY <1>0, ConstantsAssumption DEF TypeOK
    <3>2. pc[b] + 1 \in DOMAIN Prog[b]
      BY <2>3, <3>1, LenProperties
    <3> QED BY <2>3, <3>2, AskGoesOn
  <2> QED BY <1>0, <2>2, <2>3, SilentGoesOn, FinishGoesOn DEF RunStatuses
<1>3. CASE ScriptReturns
  BY <1>3, FinishGoesOn DEF ScriptReturns, RunStatuses
<1>4. CASE FlushReplay
  <2>1. PICK ks : ks = gate.queue
    OBVIOUS
  <2>2. ks \in Seq(Terminal)
    BY <1>0, <2>1 DEF GateHoldsSettled, Gate
  <2>3. events' = Joined(events, CachedEvents(ks))
    BY <1>4, <2>1 DEF FlushReplay, Joined
  <2> QED BY <1>0, <2>2, <2>3, CachedGoesOn DEF GoesOn
<1> QED BY <1>1, <1>2, <1>3, <1>4 DEF Script

LEMMA DriverGoesOn == ASSUME LogInv, Driver PROVE GoesOn
<1>0. TypeOK
  BY DEF LogInv, OrderInv, IInv
<1>1. ASSUME NEW a \in Actors, NEW s \in {"ready", "broken"}, SessionCreated(a, s) \/ Dispatch(a)
      PROVE  GoesOn
  BY <1>0, <1>1, SilentGoesOn DEF SessionCreated, Dispatch, journalVars
<1>2. ASSUME NEW a \in Actors, DispatchFails(a) PROVE GoesOn
  BY <1>2, SettleGoesOn DEF DispatchFails, Dispatching
<1>3. ASSUME NEW i \in started, i \in Elements(live),
             Settle(i, "ok") \/ Settle(i, "failed") \/ events' = events
      PROVE  GoesOn
  BY <1>0, <1>3, SettleGoesOn, SilentGoesOn
<1>4. ASSUME NEW i \in started,
             SubmitAccepted(i) \/ SubmitRejected(i) \/ TurnEnded(i) \/ AskFailed(i)
      PROVE  GoesOn
  BY <1>3, <1>4 DEF SubmitAccepted, SubmitRejected, TurnEnded, AskFailed, Reported
<1> QED BY <1>1, <1>2, <1>4 DEF Driver

LEMMA HostGoesOn == ASSUME LogInv, Host PROVE GoesOn
<1>0. TypeOK
  BY DEF LogInv, OrderInv, IInv
<1>1. ASSUME NEW r \in StopReasons, Stop(r) PROVE GoesOn
  BY <1>1, FinishGoesOn DEF Stop, RunStatuses
<1>2. ASSUME NEW n \in CapChoices, SetMaxConcurrency(n) PROVE events' = events
  BY <1>2 DEF SetMaxConcurrency
<1>3. Crash \/ Reconcile => events' = events
  BY DEF Crash, Reconcile, journalVars
<1>4. ASSUME NEW i \in started, NEW o \in {"ok", "failed"}, CrashInSettle(i, o)
      PROVE  events' = events
  BY <1>4 DEF CrashInSettle
<1>5. CASE Resume
  <2>1. PICK t : t = <<RunStarted>>
    OBVIOUS
  <2>2. RunStarted \in Event /\ ~Settling(RunStarted) /\ events \in Seq(Event)
    BY <1>0 DEF RunStarted, Event, IsAnswer, Settling, TypeOK
  <2>3. t \in Seq(Event) /\ Len(t) = 1 /\ t[1] = RunStarted
    BY <2>1, <2>2
  <2>4. events' = Joined(events, t)
    BY <1>5, <2>1, <2>2, AppendIsConcat DEF Resume, Joined
  <2>5. \A k \in 1..Len(t) : ~Settling(t[k])
    BY <2>2, <2>3
  <2> QED BY <2>2, <2>3, <2>4, <2>5, JoinedGoesOn DEF GoesOn
<1> QED BY <1>0, <1>1, <1>2, <1>3, <1>4, <1>5, SilentGoesOn DEF Host

\* So an orderly journal was orderly before: none of the marks is ever lost.
LEMMA OrderlyBefore ==
    ASSUME PlacesInv, [Next]_vars, Orderly'
    PROVE  Orderly
<1>1. LogInv /\ IInv /\ TypeOK
  BY DEF PlacesInv, LogInv, OrderInv, IInv
<1>2. GoesOn
  <2>1. CASE UNCHANGED vars
    BY <1>1, <2>1, SilentGoesOn DEF vars
  <2> QED BY <1>1, <2>1, ScriptGoesOn, DriverGoesOn, HostGoesOn DEF Next, Over
<1>3. TypeOK' /\ \A j \in Terminal : rows'[j] = rows[j]
  BY <1>1, NextStep DEF StepKeeps, IInv
<1>4. PICK w, l : w = events' /\ l = Len(events)
  OBVIOUS
<1>5. /\ l \in Nat /\ DOMAIN events = 1..l /\ DOMAIN w = 1..Len(w) /\ Len(w) \in Nat /\ l <= Len(w)
      /\ \A n \in 1..l : w[n] = events[n]
      /\ \A n \in 1..Len(w) : n > l /\ Settling(w[n]) => w[n].inst \notin Terminal
  <2>1. LogGoesOn(events, w, Terminal)
    BY <1>2, <1>4 DEF GoesOn
  <2>2. events \in Seq(Event) /\ w \in Seq(Event)
    BY <1>1, <1>3, <1>4 DEF TypeOK
  <2> QED BY <1>4, <2>1, <2>2, LenProperties DEF LogGoesOn
<1>6. \A n \in SettledAt(events) : n \in 1..l /\ n \in SettledAt(w) /\ w[n] = events[n]
  <2> TAKE n \in SettledAt(events)
  <2>1. n \in 1..l /\ IsAnswer(events[n]) /\ ~events[n].cached
    BY <1>5 DEF SettledAt
  <2>2. n \in 1..Len(w) /\ w[n] = events[n]
    BY <1>5, <2>1
  <2> QED BY <1>5, <2>1, <2>2 DEF SettledAt
<1>7. EverySettlementIsLogged
  <2> SUFFICES ASSUME NEW i \in Terminal PROVE \E n \in SettledAt(events) : events[n].inst = i
    BY DEF EverySettlementIsLogged
  <2>1. i \in Terminal'
    <3>1. rows'[i] = rows[i] /\ i \in Instances /\ rows[i] # NoRow /\ rows[i].status # "running"
      BY <1>3 DEF Terminal, Recorded
    <3> QED BY <3>1 DEF Terminal, Recorded
  <2>2. PICK n \in SettledAt(w) : w[n].inst = i
    BY <1>4, <2>1 DEF Orderly, EverySettlementIsLogged
  <2>3. n \in 1..Len(w) /\ Settling(w[n])
    BY <1>5, <2>2 DEF SettledAt, Settling
  <2>4. n \in 1..l
    BY <1>5, <2>2, <2>3
  <2>5. n \in SettledAt(events) /\ events[n].inst = i
    BY <1>5, <2>2, <2>3, <2>4 DEF SettledAt, Settling
  <2> QED BY <2>5
<1>8. SettleOrderKept
  <2> SUFFICES ASSUME NEW m \in SettledAt(events), NEW n \in SettledAt(events), m < n
               PROVE  \E k \in 1..m : /\ IsSettleOf(events[m].inst, k)
                                      /\ \A j \in 1..k : ~IsSettleOf(events[n].inst, j)
    BY DEF SettleOrderKept
  <2>1. \A a, b \in SettledAt(w) : a < b =>
            \E k \in 1..a : /\ w[k].type = "node-settled" /\ w[k].inst = w[a].inst
                            /\ \A j \in 1..k : ~(w[j].type = "node-settled" /\ w[j].inst = w[b].inst)
    BY <1>4 DEF Orderly, SettleOrderKept, IsSettleOf
  <2>2. PICK k \in 1..m : /\ w[k].type = "node-settled" /\ w[k].inst = w[m].inst
                          /\ \A j \in 1..k : ~(w[j].type = "node-settled" /\ w[j].inst = w[n].inst)
    BY <1>6, <2>1
  <2>3. \A j \in 1..k : w[j] = events[j]
    BY <1>5, <1>6
  <2>4. k \in 1..k /\ w[m] = events[m] /\ w[n] = events[n]
    BY <1>5, <1>6
  <2> QED BY <2>2, <2>3, <2>4 DEF IsSettleOf
<1>9. ReplayComesFirst
  <2> SUFFICES ASSUME NEW m \in SettledAt(events), NEW n \in SettledAt(events), m < n
               PROVE  \E k \in 1..(n - 1) : /\ IsAnswer(events[k]) /\ events[k].inst = events[m].inst
                                            /\ \A j \in k..n : events[j].type # "run-started"
    BY DEF ReplayComesFirst
  <2>1. \A a, b \in SettledAt(w) : a < b =>
            \E k \in 1..(b - 1) : /\ IsAnswer(w[k]) /\ w[k].inst = w[a].inst
                                  /\ \A j \in k..b : w[j].type # "run-started"
    BY <1>4 DEF Orderly, ReplayComesFirst
  <2>2. PICK k \in 1..(n - 1) : /\ IsAnswer(w[k]) /\ w[k].inst = w[m].inst
                                /\ \A j \in k..n : w[j].type # "run-started"
    BY <1>6, <2>1
  <2>3. \A j \in k..n : w[j] = events[j]
    BY <1>5, <1>6
  <2>4. k \in k..n /\ w[m] = events[m]
    BY <1>5, <1>6
  <2> QED BY <2>2, <2>3, <2>4
<1> QED BY <1>7, <1>8, <1>9 DEF Orderly

\* A death inside a settlement leaves one of them.
LEMMA TornIsMarked ==
    ASSUME HistoryInv, NEW i \in started, NEW o \in {"ok", "failed"}, CrashInSettle(i, o), Orderly'
    PROVE  FALSE
<1>1. /\ i \in Elements(live) /\ rows' = [rows EXCEPT ![i].status = RowStatus[o]]
      /\ events' = events
  BY DEF CrashInSettle, Reported
<1>2. TypeOK /\ IInv /\ LogIsSound(events, rows)
  BY HistoryFacts
<1>3. i \in Instances /\ rows[i] \in Row /\ rows[i].status = "running"
  <2>1. i \in Instances
    BY <1>1, <1>2, ElementsOfSeq DEF TypeOK
  <2> QED BY <1>1, <1>2, <2>1 DEF IInv, LiveIsRunning, TypeOK
<1>4. rows'[i].status = RowStatus[o] /\ RowStatus[o] \in {"completed", "failed"}
  BY <1>1, <1>2, <1>3 DEF TypeOK, Row, RowStatus
<1>5. i \in Terminal'
  BY <1>3, <1>4 DEF Terminal, Recorded, NoRow
<1>6. PICK n \in SettledAt(events') : events'[n].inst = i
  BY <1>5 DEF Orderly, EverySettlementIsLogged
<1>7. rows[i].status # "running"
  BY <1>1, <1>2, <1>6 DEF LogIsSound
<1> QED BY <1>3, <1>7
--------------------------------------------------------------------------------
(* Every step keeps the history, and is a step of a durable run. *)

DurableStep == [Durable!Next]_(Durable!vars)

\* A life that goes on without news.
LEMMA SameDurable ==
    ASSUME History' = History, LifeTold' = LifeTold, Running' <=> Running, run'.status = run.status
    PROVE  DurableStep
<1>1. Told' = Told /\ Phase' = Phase
  BY DEF Told, Phase
<1> QED BY <1>1 DEF DurableStep, Durable!vars

\* The end of a life.
LEMMA EndDurable ==
    ASSUME Running, ~Running', History' = History
    PROVE  DurableStep
<1>1. Phase = "running" /\ Told' = <<>>
  BY DEF Told, Phase
<1>2. CASE run'.status \in {"completed", "errored"}
  <2>1. Phase' \in {"done", "errored"}
    BY <1>2 DEF Phase
  <2> QED BY <1>1, <2>1 DEF DurableStep, Durable!Next, Durable!End
<1>3. CASE run'.status \notin {"completed", "errored"}
  <2>1. Phase' = "down"
    BY <1>3 DEF Phase
  <2> QED BY <1>1, <2>1 DEF DurableStep, Durable!Next, Durable!Cut
<1> QED BY <1>2, <1>3

\* What a settlement or a flush tells.
LEMMA SettleDurable ==
    ASSUME HistoryInv, Running, Running', NEW i \in Instances, NEW o \in {"ok", "failed"},
           LifeTold = History, LifeTold' = History', History' = Joined(History, << <<i, o>> >>),
           \A n \in DOMAIN History : History[n][1] # i, run' = run
    PROVE  DurableStep
<1>1. Told = History /\ Told' = History' /\ Phase = "running" /\ Phase' = "running"
  BY DEF Told, Phase
<1>2. i \notin Durable!Settled
  BY DEF Durable!Settled
<1>3. History' = Append(History, <<i, o>>)
  <2>1. <<i, o>> \in Instances \X Outcomes
    BY DEF Outcomes
  <2> QED BY <2>1, HistoryType, AppendIsConcat DEF Joined
<1>4. Durable!Settle(i, o)
  BY <1>1, <1>2, <1>3 DEF Durable!Settle
<1> QED BY <1>4 DEF DurableStep, Durable!Next

LEMMA ReplayDurable ==
    ASSUME HistoryInv, HistoryInv', Running, Running', History' = History,
           Len(LifeTold) < Len(LifeTold'), IsBeginning(LifeTold', History)
    PROVE  DurableStep
<1>1. Told = LifeTold /\ Told' = LifeTold' /\ Phase = "running" /\ Phase' = "running"
  BY DEF Told, Phase
<1>2. PICK H, T, n, l : H = History /\ T = LifeTold' /\ n = Len(T) /\ l = Len(LifeTold)
  OBVIOUS
<1>3. H \in Seq(Instances \X Outcomes) /\ T \in Seq(Instances \X Outcomes)
  <2>1. LifeTold' \in Seq(Instances \X Outcomes)
    <3>1. events' \in Seq(Event)
      BY DEF HistoryInv, PlacesInv, LogInv, OrderInv, IInv, TypeOK
    <3>2. LifeTold' = ToldOf(events')
      BY NextHistory
    <3> QED BY <3>1, <3>2, ToldType
  <2> QED BY <1>2, <2>1, HistoryType
<1>4. n \in Nat /\ l \in Nat /\ Len(H) \in Nat /\ l < n /\ n <= Len(H) /\ \A m \in 1..n : T[m] = H[m]
  <2>1. n \in Nat /\ DOMAIN T = 1..n /\ Len(H) \in Nat
    BY <1>2, <1>3, LenProperties
  <2>2. l \in Nat
    BY <1>2, HistoryFacts
  <2> QED BY <1>2, <2>1, <2>2 DEF IsBeginning
<1>5. T = SubSeq(H, 1, n)
  <2>1. PICK s : s = SubSeq(H, 1, n)
    OBVIOUS
  <2>2. s \in Seq(Instances \X Outcomes) /\ Len(s) = n /\ \A m \in 1..n : s[m] = H[m]
    BY <1>3, <1>4, <2>1, SubSeqProperties
  <2>3. Len(T) = Len(s) /\ \A m \in 1..Len(T) : T[m] = s[m]
    BY <1>2, <1>4, <2>2
  <2>4. T = s
    BY ONLY <1>3, <2>2, <2>3, SeqEqual
  <2> QED BY <2>1, <2>4
<1>6. n \in (Len(Told) + 1)..Len(History) /\ Told' = SubSeq(History, 1, n)
  <2>1. n \in (l + 1)..Len(H)
    BY ONLY <1>4
  <2> QED BY <1>1, <1>2, <1>5, <2>1
<1> QED BY <1>1, <1>6 DEF DurableStep, Durable!Next, Durable!Replay


\* The script's steps.
LEMMA StartHistory ==
    ASSUME HistoryInv, PlacesInv', NEW b \in Branches, StartBranch(b)
    PROVE  HistoryInv' /\ DurableStep
<1>1. Running /\ Ask(b, 1, "start", inbox)
  BY DEF StartBranch
<1>2. 1 \in DOMAIN Prog[b]
  <2>1. Prog[b] \in Seq(Sites \X Actors) /\ Prog[b] # <<>>
    BY ConstantsAssumption
  <2>2. Len(Prog[b]) \in Nat /\ Len(Prog[b]) # 0 /\ DOMAIN Prog[b] = 1..Len(Prog[b])
    BY <2>1, LenProperties, EmptySeq
  <2> QED BY <2>2
<1>3. ToldFollows(History, LifeTold, inbox) /\ inbox \in Seq(Instances \X Outcomes)
  BY <1>1, HistoryFacts, HistoryType DEF Following
<1>4. /\ HistoryInv' /\ History' = History
      /\ \/ Running' /\ LifeTold' = LifeTold
         \/ ~Running' /\ run'.status = "errored"
  BY <1>1, <1>2, <1>3, AskHistory
<1>5. CASE Running' /\ LifeTold' = LifeTold
  <2>1. run.status = "running" /\ run'.status = "running"
    BY <1>1, <1>4, <1>5 DEF HistoryInv, RunRowAgrees
  <2> QED BY <1>1, <1>4, <1>5, <2>1, SameDurable
<1>6. CASE ~Running' /\ run'.status = "errored"
  BY <1>1, <1>4, <1>6, EndDurable
<1> QED BY <1>4, <1>5, <1>6

LEMMA ContinueHistory ==
    ASSUME HistoryInv, PlacesInv', NEW b \in Branches, Continue(b)
    PROVE  HistoryInv' /\ DurableStep
<1>1. PICK o, rest : o = Head(inbox)[2] /\ rest = Tail(inbox)
  OBVIOUS
<1>2. /\ Running /\ inbox # <<>> /\ o \in Outcomes /\ rest \in Seq(Instances \X Outcomes)
      /\ ToldFollows(History, LifeTold, rest)
  <2>1. Running /\ inbox # <<>> /\ PlacesInv
    BY HistoryFacts DEF Continue
  <2>2. ToldFollows(History, LifeTold, inbox) /\ inbox \in Seq(Instances \X Outcomes)
        /\ LifeTold \in Seq(Instances \X Outcomes)
    BY <2>1, HistoryFacts, HistoryType DEF Following
  <2>3. ToldFollows(History, LifeTold, Tail(inbox)) /\ Tail(inbox) \in Seq(Instances \X Outcomes)
    BY <2>1, <2>2, TailFollows
  <2>4. Head(inbox)[2] \in Outcomes
    BY <2>1, TakenForOne
  <2> QED BY <1>1, <2>1, <2>3, <2>4
<1>3. \/ pc[b] < Len(Prog[b]) /\ pc[b] > 0 /\ Ask(b, pc[b] + 1, o, rest)
      \/ inbox' = rest /\ UNCHANGED <<rows, events, run, up, runSettled, actors, gate>>
      \/ Finish("errored", "none", "ScriptError", FALSE, rest)
  BY <1>1 DEF Continue, journalVars, askVars
<1>4. CASE pc[b] < Len(Prog[b]) /\ pc[b] > 0 /\ Ask(b, pc[b] + 1, o, rest)
  <2>1. Prog[b] \in Seq(Sites \X Actors) /\ pc[b] \in Nat
    BY HistoryFacts, ConstantsAssumption DEF TypeOK
  <2>2. pc[b] + 1 \in DOMAIN Prog[b]
    BY <1>4, <2>1, LenProperties
  <2>3. /\ HistoryInv' /\ History' = History
        /\ \/ Running' /\ LifeTold' = LifeTold
           \/ ~Running' /\ run'.status = "errored"
    BY <1>2, <1>4, <2>2, AskHistory
  <2>4. CASE Running' /\ LifeTold' = LifeTold
    <3>1. run.status = "running" /\ run'.status = "running"
      BY <1>2, <2>3, <2>4 DEF HistoryInv, RunRowAgrees
    <3> QED BY <1>2, <2>3, <2>4, <3>1, SameDurable
  <2>5. CASE ~Running' /\ run'.status = "errored"
    BY <1>2, <2>3, <2>5, EndDurable
  <2> QED BY <2>3, <2>4, <2>5
<1>5. CASE inbox' = rest /\ UNCHANGED <<rows, events, run, up, runSettled, actors, gate>>
  <2>1. SameRun /\ SameNumbers
    BY <1>5 DEF SameRun, SameNumbers
  <2>2. HistoryInv' /\ History' = History /\ LifeTold' = LifeTold
    BY <1>2, <1>5, <2>1, SameHistory
  <2>3. (Running' <=> Running) /\ run'.status = run.status
    BY <1>5 DEF Running
  <2> QED BY <2>2, <2>3, SameDurable
<1>6. CASE Finish("errored", "none", "ScriptError", FALSE, rest)
  <2>1. "errored" \in RunStatuses \ {"running"} /\ FALSE \in BOOLEAN
    BY DEF RunStatuses
  <2>2. HistoryInv' /\ History' = History /\ ~Running'
    BY <1>2, <1>6, <2>1, FinishHistory
  <2> QED BY <1>2, <2>2, EndDurable
<1> QED BY <1>3, <1>4, <1>5, <1>6

LEMMA ScriptHistory ==
    ASSUME HistoryInv, PlacesInv', Script
    PROVE  HistoryInv' /\ DurableStep
<1>1. CASE ScriptReturns
  <2>1. Running /\ Finish("completed", "none", "none", TRUE, inbox)
    BY <1>1 DEF ScriptReturns
  <2>2. "completed" \in RunStatuses \ {"running"} /\ TRUE \in BOOLEAN
    BY DEF RunStatuses
  <2>3. HistoryInv' /\ History' = History /\ ~Running'
    BY <2>1, <2>2, FinishHistory
  <2> QED BY <2>1, <2>3, EndDurable
<1>2. CASE FlushReplay
  <2>1. /\ HistoryInv' /\ Running /\ Running' /\ History' = History
        /\ Len(LifeTold) < Len(LifeTold') /\ IsBeginning(LifeTold', History)
    BY <1>2, FlushHistory
  <2> QED BY <2>1, ReplayDurable
<1> QED BY <1>1, <1>2, StartHistory, ContinueHistory DEF Script

\* A settlement, as any report makes it.
LEMMA ReportHistory ==
    ASSUME HistoryInv, PlacesInv', Orderly', NEW a \in Actors, NEW i \in Reached(rows, actors, a),
           actors[a].current = i, i \in Elements(live), NEW o \in {"ok", "failed"}, Settle(i, o),
           Running, UNCHANGED <<run, up, runSettled, gate>>
    PROVE  HistoryInv' /\ DurableStep
<1>1. ReplayComesFirst'
  BY DEF Orderly
<1>2. /\ HistoryInv' /\ Running' /\ i \in Instances
      /\ LifeTold = History /\ LifeTold' = History'
      /\ History' = Joined(History, << <<i, o>> >>)
      /\ \A n \in DOMAIN History : History[n][1] # i
  BY <1>1, SettleHistory
<1>3. DurableStep
  BY ONLY <1>2, HistoryInv, Running, o \in {"ok", "failed"}, run' = run, SettleDurable
<1> QED BY <1>2, <1>3

\* Steps that no one but the driver and the scheduler sees.
LEMMA QuietHistory ==
    ASSUME HistoryInv, PlacesInv', UNCHANGED <<rows, events, up, runSettled, gate, inbox>>,
           run'.status = run.status, \A d \in Actors : SamePlaces(actors, d)
    PROVE  HistoryInv' /\ DurableStep
<1>1. SameRun /\ SameNumbers
  BY DEF SameRun, SameNumbers, SamePlaces
<1>2. Running => ToldFollows(History, LifeTold, inbox')
  BY HistoryFacts DEF Following
<1>3. HistoryInv' /\ History' = History /\ LifeTold' = LifeTold
  BY <1>1, <1>2, SameHistory
<1>4. Running' <=> Running
  BY DEF Running
<1> QED BY <1>3, <1>4, SameDurable

\* The driver's steps.
LEMMA DriverHistory ==
    ASSUME HistoryInv, PlacesInv', Orderly', Driver
    PROVE  HistoryInv' /\ DurableStep
<1>0. PlacesInv /\ OrderInv /\ TypeOK
  BY HistoryFacts
<1>1. ASSUME NEW a \in Actors, NEW s \in {"ready", "broken"}, SessionCreated(a, s)
      PROVE  HistoryInv' /\ DurableStep
  <2> DEFINE opened == [actors[a] EXCEPT !.session = s]
  <2>1. actors \in [Actors -> Actor] /\ actors[a] \in Actor
    BY <1>0 DEF TypeOK
  <2>2. /\ opened.pendingLive = actors[a].pendingLive
        /\ opened.pendingRecorded = actors[a].pendingRecorded
        /\ opened.nextAdmitSeq = actors[a].nextAdmitSeq
        /\ opened.recordedCount = actors[a].recordedCount
        /\ opened.liveQueue = actors[a].liveQueue /\ opened.current = actors[a].current
    BY <2>1 DEF Actor
  <2>3. actors' = [actors EXCEPT ![a] = opened]
    BY <1>1 DEF SessionCreated
  <2> HIDE DEF opened
  <2>4. \A c \in Actors : SamePlaces(actors, c)
    BY <2>1, <2>2, <2>3 DEF SamePlaces, Admitted, InOrder
  <2> QED BY <1>1, <2>4, QuietHistory DEF SessionCreated, journalVars, scriptVars
<1>2. ASSUME NEW a \in Actors, Dispatch(a) PROVE HistoryInv' /\ DurableStep
  BY <1>2, QuietHistory, SameActors DEF Dispatch, journalVars, scriptVars
<1>3. ASSUME NEW a \in Actors, DispatchFails(a) PROVE HistoryInv' /\ DurableStep
  <2> DEFINE i == actors[a].current
  <2>1. Running /\ i \in Elements(live)
    BY <1>3 DEF DispatchFails, Dispatching
  <2>2. i \in Instances
    BY <1>0, <2>1, ElementsOfSeq DEF TypeOK
  <2>3. i \in Admitted(actors, a)
    BY <2>2, NoInstIsNone DEF Admitted
  <2>4. i \in Reached(rows, actors, a)
    BY <1>0, <2>1, <2>3 DEF OrderInv, Placed, AdmittedAreLive, IsMine, Reached
  <2>5. /\ Settle(i, "failed") /\ actors[a].current = i
        /\ UNCHANGED <<run, up, runSettled, gate>>
    BY <1>3 DEF DispatchFails
  <2> HIDE DEF i
  <2> QED BY <2>1, <2>4, <2>5, ReportHistory
<1>4. ASSUME NEW i \in started, Reported(i), EngineUnchanged,
             \/ Settle(i, "ok") \/ Settle(i, "failed")
             \/ UNCHANGED <<rows, events, actors, live, activeAsks, inbox, turns>>
      PROVE  HistoryInv' /\ DurableStep
  <2>1. /\ i \in Elements(live)
        /\ UNCHANGED <<run, up, runSettled, gate>>
    BY <1>4 DEF Reported, EngineUnchanged
  <2>2. CASE Settle(i, "ok") \/ Settle(i, "failed")
    <3>1. PICK a \in Actors : Running /\ i \in Reached(rows, actors, a) /\ actors[a].current = i
      BY <1>0, <2>1, StartedPlace
    <3>2. CASE Settle(i, "ok")
      BY <2>1, <3>1, <3>2, ReportHistory
    <3>3. CASE Settle(i, "failed")
      BY <2>1, <3>1, <3>3, ReportHistory
    <3> QED BY <2>2, <3>2, <3>3
  <2>3. CASE UNCHANGED <<rows, events, actors, live, activeAsks, inbox, turns>>
    BY <2>1, <2>3, QuietHistory, SameActors
  <2> QED BY <1>4, <2>2, <2>3
<1>5. ASSUME NEW i \in started,
             SubmitAccepted(i) \/ SubmitRejected(i) \/ TurnEnded(i) \/ AskFailed(i)
      PROVE  HistoryInv' /\ DurableStep
  BY <1>4, <1>5 DEF SubmitAccepted, SubmitRejected, TurnEnded, AskFailed
<1> QED BY <1>1, <1>2, <1>3, <1>5 DEF Driver


\* A life that has been told nothing follows any history its gate was opened over.
LEMMA NewGateFollows ==
    ASSUME NEW H, Len(H) \in Nat, NEW o \in Seq(Instances), Len(o) = Len(H),
           \A k \in DOMAIN o : o[k] = H[k][1]
    PROVE  GateFollows(NewGate(o), H, <<>>) /\ ToldFollows(H, <<>>, <<>>)
<1>1. PICK e : e = <<>>
  OBVIOUS
<1>2. Len(e) = 0 /\ DOMAIN e = {}
  BY <1>1, EmptySeq
<1>3. PICK g : g = NewGate(o)
  OBVIOUS
<1>4. g.order = o /\ g.cursor = 1 /\ g.queue = e /\ g.opened = FALSE
  BY <1>1, <1>3 DEF NewGate
<1>5. Len(o) \in Nat
  BY LenProperties
<1>6. QueueIsPart(g.queue, g.order, g.cursor)
  BY <1>2, <1>4 DEF QueueIsPart
<1>7. Len(e) = g.cursor - 1 - Len(g.queue) + (Len(H) - Len(g.order)) /\ g.cursor - 1 <= Len(g.order)
  BY <1>2, <1>4, <1>5
<1>8. GateFollows(g, H, e)
  <2>1. ~g.opened /\ ~(Len(H) > Len(g.order)) /\ Len(g.order) <= Len(H)
    BY <1>4, <1>5
  <2>2. \A k \in DOMAIN g.order : g.order[k] = H[k][1]
    BY <1>4
  <2> QED BY <1>6, <1>7, <2>1, <2>2 DEF GateFollows
<1>9. ToldFollows(H, e, e)
  BY <1>2 DEF ToldFollows, IsBeginning, IsEnding
<1> QED BY <1>1, <1>3, <1>8, <1>9

\* The next life is told the same history from its beginning.
LEMMA ResumeHistory ==
    ASSUME HistoryInv, SettleOrderKept, PlacesInv', Resume
    PROVE  HistoryInv' /\ DurableStep
<1>1. /\ up' = TRUE /\ runSettled' = FALSE /\ inbox' = <<>> /\ rows' = rows
      /\ gate' = NewGate(RecoveredOrder) /\ events' = Append(events, RunStarted)
  BY Zenon DEF Resume, BlankLife
<1>2. /\ run.status = "stopped" /\ run.stopReason # "superseded" /\ ~Running
      /\ run' = [run EXCEPT !.status = "running", !.stopReason = "none", !.failure = "none"]
  BY DEF Resume, Running
<1>3. TypeOK /\ LogIsSound(events, rows) /\ IsHistory(History, rows) /\ events \in Seq(Event)
      /\ History = HistoryOf(events) /\ Len(History) \in Nat /\ DOMAIN History = 1..Len(History)
  BY HistoryFacts
<1>5. PICK w, r : w = Append(events, RunStarted) /\ r = RecoveredOrder
  OBVIOUS
<1>6. /\ HistoryOf(w) = HistoryOf(events) /\ ToldOf(w) = <<>> /\ LogIsSound(w, rows)
  BY <1>3, <1>5, LogRestarts
<1>7. History' = History /\ LifeTold' = <<>> /\ LogIsSound(events', rows')
  BY <1>1, <1>3, <1>5, <1>6, NextHistory
<1>8. /\ r \in Seq(Instances) /\ Len(r) = Len(History)
      /\ \A k \in DOMAIN r : r[k] = History[k][1]
  BY <1>3, <1>5, RecoversHistory
<1>9. GateFollows(gate', History, <<>>) /\ ToldFollows(History, <<>>, <<>>)
  BY <1>1, <1>3, <1>5, <1>8, NewGateFollows
<1>10. GateKnows(gate', rows', actors')
  <2>1. gate'.order = r /\ gate'.cursor = 1
    BY <1>1, <1>5 DEF NewGate
  <2>2. DOMAIN r = 1..Len(r)
    BY <1>8, LenProperties
  <2>3. ASSUME NEW i \in Rows(rows), rows[i].status # "running" PROVE i \in Elements(r)
    <3>1. i \in SettledRows(rows)
      BY <2>3 DEF SettledRows
    <3>2. PICK n \in DOMAIN History : History[n][1] = i
      BY <1>3, <3>1 DEF IsHistory
    <3>3. n \in DOMAIN r /\ r[n] = i
      BY <1>3, <1>8, <2>2, <3>2
    <3> QED BY <3>3 DEF Elements
  <2>4. \A k \in DOMAIN r : ~(k < 1)
    BY <1>3, <1>8, <2>2
  <2> QED BY <1>1, <2>1, <2>3, <2>4 DEF GateKnows
<1>11. run'.status = "running"
  BY <1>2, <1>3 DEF TypeOK
<1>12. RunRowAgrees' /\ Running'
  BY <1>1, <1>11 DEF RunRowAgrees, Running
<1>14. HistoryInv'
  BY <1>1, <1>7, <1>9, <1>10, <1>12 DEF HistoryInv
<1>15. DurableStep
  <2>1. Phase = "down" /\ Told = <<>>
    BY <1>2 DEF Phase, Told
  <2>2. Phase' = "running" /\ Told' = <<>>
    BY <1>7, <1>12 DEF Phase, Told
  <2> QED BY <1>7, <2>1, <2>2 DEF DurableStep, Durable!Next, Durable!Resume
<1> QED BY <1>14, <1>15

\* The host's steps.
LEMMA HostHistory ==
    ASSUME HistoryInv, Orderly, PlacesInv', Orderly', Host
    PROVE  HistoryInv' /\ DurableStep
<1>1. ASSUME NEW r \in StopReasons, Stop(r) PROVE HistoryInv' /\ DurableStep
  <2>1. Running /\ Finish("stopped", r, "none", TRUE, inbox)
    BY <1>1 DEF Stop
  <2>2. "stopped" \in RunStatuses \ {"running"} /\ TRUE \in BOOLEAN
    BY DEF RunStatuses
  <2>3. HistoryInv' /\ History' = History /\ ~Running'
    BY <2>1, <2>2, FinishHistory
  <2> QED BY <2>1, <2>3, EndDurable
<1>2. ASSUME NEW n \in CapChoices, SetMaxConcurrency(n) PROVE HistoryInv' /\ DurableStep
  <2>0. actors \in [Actors -> Actor] /\ Actors \in SUBSET Actors /\ TypeOK
    BY HistoryFacts DEF TypeOK
  <2>1. \/ Pump(actors, activeAsks, Actors, n)
        \/ UNCHANGED <<actors, activeAsks>>
    BY <1>2 DEF SetMaxConcurrency, Rescan
  <2>2. \A a \in Actors : SamePlaces(actors, a)
    BY <2>0, <2>1, PumpPlaces, SameActors
  <2>3. run'.status = run.status
    BY <1>2, <2>0 DEF SetMaxConcurrency, TypeOK
  <2> QED BY <1>2, <2>2, <2>3, QuietHistory DEF SetMaxConcurrency, scriptVars
<1>3. CASE Crash
  <2>1. UNCHANGED <<rows, events, run>> /\ up' = FALSE /\ up
    BY <1>3, Zenon DEF Crash, journalVars
  <2>2. History' = History /\ LogIsSound(events', rows')
    BY <2>1, NextHistory, HistoryFacts
  <2>3. RunRowAgrees' /\ ~Running'
    BY <2>1 DEF HistoryInv, RunRowAgrees, Running
  <2>4. HistoryInv'
    BY <2>2, <2>3, EndedHistory
  <2>5. CASE Running
    BY <2>2, <2>3, <2>4, <2>5, EndDurable
  <2>6. CASE ~Running
    <3>1. Told' = Told /\ Phase' = Phase
      BY <2>1, <2>3, <2>6 DEF Told, Phase
    <3> QED BY <2>2, <2>4, <3>1 DEF DurableStep, Durable!vars
  <2> QED BY <2>4, <2>5, <2>6
<1>4. CASE Reconcile
  <2>1. /\ UNCHANGED <<rows, events, up>> /\ ~up /\ run.status = "running"
        /\ run' = [run EXCEPT !.status = "stopped", !.stopReason = "interrupted"] /\ TypeOK
    BY <1>4, HistoryFacts DEF Reconcile
  <2>2. History' = History /\ LogIsSound(events', rows')
    BY <2>1, NextHistory, HistoryFacts
  <2>3. run'.status = "stopped" /\ ~Running /\ ~Running' /\ RunRowAgrees'
    BY <2>1 DEF TypeOK, RunRowAgrees, Running
  <2>5. HistoryInv'
    BY <2>2, <2>3, EndedHistory
  <2>6. Told' = Told /\ Phase' = Phase
    BY <2>1, <2>3 DEF Told, Phase
  <2>7. DurableStep
    BY <2>2, <2>6 DEF DurableStep, Durable!vars
  <2> QED BY <2>5, <2>7
<1>5. ASSUME NEW i \in started, NEW o \in {"ok", "failed"}, CrashInSettle(i, o) PROVE FALSE
  BY <1>5, TornIsMarked
<1>6. SettleOrderKept
  BY DEF Orderly
<1> QED BY <1>1, <1>2, <1>3, <1>4, <1>5, <1>6, ResumeHistory DEF Host

LEMMA HistoryStep ==
    ASSUME HistoryInv, Orderly', [Next]_vars
    PROVE  HistoryInv' /\ DurableStep
<1>1. PlacesInv' /\ Orderly
  BY PlacesStep, OrderlyBefore DEF HistoryInv
<1>2. CASE UNCHANGED vars
  BY <1>1, <1>2, QuietHistory, SameActors DEF vars
<1> QED BY <1>1, <1>2, ScriptHistory, DriverHistory, HostHistory DEF Next, Over

\* The first life has a history to write.
LEMMA InitHistory == Init => HistoryInv /\ Durable!Init
<1> SUFFICES ASSUME Init PROVE HistoryInv /\ Durable!Init
  OBVIOUS
<1>1. PlacesInv
  BY InitPlaces
<1>2. /\ events = <<RunStarted>> /\ rows = [i \in Instances |-> NoRow] /\ Running
      /\ gate = NewGate(<<>>) /\ inbox = <<>> /\ run.status = "running"
  BY DEF Init, Running, EmptyGate
<1>3. events \in Seq(Event) /\ DOMAIN events = {1} /\ events[1] = RunStarted /\ RunStarted.type = "run-started"
  <2>1. RunStarted \in Event /\ RunStarted.type = "run-started"
    BY DEF RunStarted, Event
  <2> QED BY <1>2, <2>1
<1>4. SettledAt(events) = {} /\ ToldAt(events) = {}
  BY <1>3 DEF SettledAt, ToldAt, IsAnswer
<1>5. History = <<>> /\ LifeTold = <<>>
  <2>1. Cardinality({}) = 0
    BY FS_EmptySet
  <2>2. AnswersAt(events, {}) = <<>>
    BY <2>1 DEF AnswersAt
  <2> QED BY <1>4, <2>2 DEF History, LifeTold
<1>6. Rows(rows) = {}
  BY <1>2 DEF Rows
<1>7. LogIsSound(events, rows) /\ RunRowAgrees
  <2>1. \A n \in DOMAIN events : events[n].type # "node-settled"
    BY <1>3
  <2>2. LogIsSound(events, rows)
    BY <1>4, <1>6, <2>1 DEF LogIsSound, IsAnswer
  <2>3. RunRowAgrees
    BY <1>2 DEF RunRowAgrees, Running
  <2> QED BY <2>2, <2>3
<1>e. PICK e : e = <<>>
  OBVIOUS
<1>8. e = <<>> /\ e \in Seq(Instances) /\ Len(e) = 0 /\ DOMAIN e = {}
  BY <1>e, EmptySeq
<1>9. GateFollows(gate, e, e) /\ ToldFollows(e, e, e)
  <2>1. Len(e) \in Nat /\ \A k \in DOMAIN e : e[k] = e[k][1]
    BY <1>8
  <2>2. GateFollows(NewGate(e), e, <<>>) /\ ToldFollows(e, <<>>, <<>>)
    BY ONLY <1>8, <2>1, NewGateFollows
  <2> QED BY <1>2, <1>8, <2>2
<1>10. GateKnows(gate, rows, actors)
  <2>1. gate.order = e
    BY <1>2, <1>8 DEF NewGate
  <2> QED BY <1>6, <1>8, <2>1 DEF GateKnows
<1>11. HistoryInv
  BY <1>1, <1>2, <1>5, <1>7, <1>8, <1>9, <1>10 DEF HistoryInv
<1>12. Durable!Init
  BY <1>2, <1>5 DEF Durable!Init, Told, Phase
<1> QED BY <1>11, <1>12
--------------------------------------------------------------------------------
(* The theorems. *)

\* Whatever is left of a run by its stops, deaths, reconciliations and resumes: as long as
\* its log bears no mark, the log is one history of settled asks, and a life that runs was
\* told a beginning of it, in its order, with the rest held by its gate (replay-order.ts,
\* engine-resume.ts recoverSettleOrder).
THEOREM OneHistory == Spec => [](Orderly => HistoryInv)
<1> DEFINE Inv == PlacesInv /\ (Orderly => HistoryInv)
<1>1. Init => Inv
  BY InitHistory, InitPlaces
<1>2. Inv /\ [Next]_vars => Inv'
  BY PlacesStep, OrderlyBefore, HistoryStep
<1>3. Inv => (Orderly => HistoryInv)
  OBVIOUS
<1> QED BY <1>1, <1>2, <1>3, PTL DEF Spec

\* As long as the log bears no mark, every step of the engine, its stops, deaths and resumes
\* included, is a step of a durable run: a life is told the settled asks from the first one
\* on and in the order they first settled, it settles an ask only after it was told all of
\* them, and no ask settles twice in all lives together (docs/execution-engine.md, "Resume
\* by replay").
THEOREM ImplementsHistory == Spec => DurableWhileOrderly
<1> DEFINE Inv == PlacesInv /\ (Orderly => HistoryInv)
           A   == RunView' # RunView /\ Orderly' => [Durable!Next]_(Durable!vars)
<1>1. Init => Inv
  BY InitHistory, InitPlaces
<1>2. Inv /\ [Next]_vars => Inv'
  BY PlacesStep, OrderlyBefore, HistoryStep
<1>3. Inv /\ [Next]_vars => [A]_vars
  BY OrderlyBefore, HistoryStep DEF DurableStep
<1>4. Spec => [][A]_vars
  <2> HIDE DEF Inv, A
  <2> QED BY <1>1, <1>2, <1>3, PTL DEF Spec
<1> QED BY <1>4 DEF DurableWhileOrderly

\* So a run whose journal never bears a mark is a durable run.
COROLLARY OrderlyRunIsDurable == Spec /\ []Orderly => Durable!Spec
<1>1. HistoryInv /\ Orderly' /\ [Next]_vars => [Durable!Next]_(Durable!vars)
  BY HistoryStep DEF DurableStep
<1> QED BY <1>1, OneHistory, InitHistory, PTL DEF Spec, Durable!Spec
--------------------------------------------------------------------------------
(* The causes of the calls. *)

LEMMA StartsType == Starts \in Nat /\ DOMAIN BranchOrder = 1..Starts
BY ConstantsAssumption, LenProperties DEF Starts

\* A longer history has the same causes where the shorter one has them.
Lengthens(H, rw, K, rx) ==
    /\ Len(H) \in Nat /\ Len(K) \in Nat /\ Len(H) <= Len(K)
    /\ \A k \in 1..Len(H) : K[k] = H[k] /\ rx[H[k][1]].hash = rw[H[k][1]].hash

LEMMA SameCause ==
    ASSUME NEW H, NEW rw, NEW K, NEW rx, Lengthens(H, rw, K, rx), NEW q \in Causes(H)
    PROVE  /\ q \in Causes(K) /\ 1..q \subseteq Causes(H)
           /\ Makes(K, rx, q) <=> Makes(H, rw, q)
           /\ CallOf(K, rx, q) = CallOf(H, rw, q)
<1>1. /\ Starts \in Nat /\ Len(H) \in Nat /\ Len(K) \in Nat /\ Len(H) <= Len(K)
      /\ q \in 1..(Starts + Len(H))
  BY StartsType DEF Lengthens, Causes
<1>2. q \in 1..(Starts + Len(K)) /\ 1..q \subseteq 1..(Starts + Len(H))
  BY <1>1
<1>3. CASE q <= Starts
  <2>1. ~(q > Starts)
    BY <1>1, <1>3
  <2>2. Makes(K, rx, q) /\ Makes(H, rw, q)
    BY <2>1 DEF Makes
  <2>3. CallOf(K, rx, q) = CallOf(H, rw, q)
    BY <1>3 DEF CallOf
  <2> QED BY <1>2, <2>2, <2>3 DEF Causes
<1>4. CASE ~(q <= Starts)
  <2>1. q - Starts \in 1..Len(H)
    BY <1>1, <1>4
  <2>2. K[q - Starts] = H[q - Starts] /\ Answered(K, rx, q) = Answered(H, rw, q)
    BY <2>1 DEF Lengthens, Answered
  <2>3. Makes(K, rx, q) <=> Makes(H, rw, q)
    BY <2>2 DEF Makes
  <2>4. CallOf(K, rx, q) = CallOf(H, rw, q)
    BY <1>4, <2>2 DEF CallOf
  <2> QED BY <1>2, <2>3, <2>4 DEF Causes
<1> QED BY <1>3, <1>4

LEMMA SameCalls ==
    ASSUME NEW H, NEW rw, NEW K, NEW rx, Lengthens(H, rw, K, rx), NEW Q \in SUBSET Causes(H), NEW s
    PROVE  CallsOfSite(K, rx, Q, s) = CallsOfSite(H, rw, Q, s)
<1>1. \A q \in Q : /\ Makes(K, rx, q) <=> Makes(H, rw, q)
                   /\ CallOf(K, rx, q) = CallOf(H, rw, q)
  BY SameCause
<1> QED BY <1>1 DEF CallsOfSite

LEMMA StillMade ==
    ASSUME NEW H, NEW rw, NEW K, NEW rx, Lengthens(H, rw, K, rx), NEW i, NEW hash,
           IsMade(H, rw, i, hash)
    PROVE  IsMade(K, rx, i, hash)
<1>1. PICK q \in Causes(H) : MadeBy(H, rw, q, i, hash)
  BY DEF IsMade
<1>2. /\ q \in Causes(K) /\ 1..q \subseteq Causes(H)
      /\ Makes(K, rx, q) <=> Makes(H, rw, q)
      /\ CallOf(K, rx, q) = CallOf(H, rw, q)
  BY SameCause
<1>3. CallsOfSite(K, rx, 1..q, SiteOf(hash)) = CallsOfSite(H, rw, 1..q, SiteOf(hash))
  <2>1. PICK Q, s : Q = 1..q /\ s = SiteOf(hash)
    OBVIOUS
  <2>2. Q \in SUBSET Causes(H)
    BY <1>2, <2>1
  <2>3. CallsOfSite(K, rx, Q, s) = CallsOfSite(H, rw, Q, s)
    BY ONLY <2>2, Lengthens(H, rw, K, rx), SameCalls
  <2> QED BY <2>1, <2>3
<1>4. MadeBy(K, rx, q, i, hash)
  BY <1>1, <1>2, <1>3 DEF MadeBy
<1> QED BY <1>2, <1>4 DEF IsMade

\* The calls of a site are counted along the causes.
LEMMA CallsCounted ==
    ASSUME NEW H, NEW rw, NEW q \in Nat \ {0}, NEW s
    PROVE  /\ IsFiniteSet(CallsOfSite(H, rw, 1..q, s))
           /\ Cardinality(CallsOfSite(H, rw, 1..(q - 1), s)) \in Nat
           /\ Cardinality(CallsOfSite(H, rw, 1..q, s)) =
                  Cardinality(CallsOfSite(H, rw, 1..(q - 1), s))
                  + (IF Makes(H, rw, q) /\ SiteOf(CallOf(H, rw, q)) = s THEN 1 ELSE 0)
<1> DEFINE Q == CallsOfSite(H, rw, 1..q, s)
           P == CallsOfSite(H, rw, 1..(q - 1), s)
<1>1. 1..q = (1..(q - 1)) \cup {q} /\ q \notin 1..(q - 1)
  OBVIOUS
<1>2. Q \subseteq 1..q /\ P \subseteq 1..(q - 1) /\ q \notin P
  BY <1>1 DEF CallsOfSite
<1>3. IsFiniteSet(1..q) /\ IsFiniteSet(1..(q - 1))
  BY FS_Interval
<1>4. IsFiniteSet(Q) /\ IsFiniteSet(P)
  BY <1>2, <1>3, FS_Subset
<1>5. Cardinality(P) \in Nat
  BY <1>4, FS_CardinalityType
<1>6. CASE Makes(H, rw, q) /\ SiteOf(CallOf(H, rw, q)) = s
  <2>1. Q = P \cup {q}
    BY <1>1, <1>6 DEF CallsOfSite
  <2> HIDE DEF Q, P
  <2>2. Cardinality(Q) = Cardinality(P) + 1
    BY <1>2, <1>4, <2>1, FS_AddElement
  <2> QED BY <1>4, <1>5, <1>6, <2>2 DEF Q, P
<1>7. CASE ~(Makes(H, rw, q) /\ SiteOf(CallOf(H, rw, q)) = s)
  <2>1. Q = P
    BY <1>1, <1>7 DEF CallsOfSite
  <2> HIDE DEF Q, P
  <2> QED BY <1>4, <1>5, <1>7, <2>1 DEF Q, P
<1> QED BY <1>6, <1>7

\* So a number of a site is that of one cause.
LEMMA OneCause ==
    ASSUME NEW H, NEW rw, NEW p \in Nat \ {0}, NEW q \in Nat \ {0}, NEW s, p < q,
           Makes(H, rw, q), SiteOf(CallOf(H, rw, q)) = s
    PROVE  Cardinality(CallsOfSite(H, rw, 1..p, s)) # Cardinality(CallsOfSite(H, rw, 1..q, s))
<1>1. /\ IsFiniteSet(CallsOfSite(H, rw, 1..q, s))
      /\ Cardinality(CallsOfSite(H, rw, 1..(q - 1), s)) \in Nat
      /\ Cardinality(CallsOfSite(H, rw, 1..q, s)) = Cardinality(CallsOfSite(H, rw, 1..(q - 1), s)) + 1
  BY CallsCounted
<1>2. CallsOfSite(H, rw, 1..p, s) \subseteq CallsOfSite(H, rw, 1..(q - 1), s)
  BY DEF CallsOfSite
<1>3. CallsOfSite(H, rw, 1..(q - 1), s) \subseteq CallsOfSite(H, rw, 1..q, s)
  BY DEF CallsOfSite
<1>4. PICK P, R : P = CallsOfSite(H, rw, 1..p, s) /\ R = CallsOfSite(H, rw, 1..(q - 1), s)
  OBVIOUS
<1>5. IsFiniteSet(R)
  BY <1>1, <1>3, <1>4, FS_Subset
<1>6. Cardinality(P) <= Cardinality(R) /\ IsFiniteSet(P)
  BY <1>2, <1>4, <1>5, FS_Subset
<1>7. Cardinality(P) \in Nat /\ Cardinality(R) \in Nat
  BY <1>5, <1>6, FS_CardinalityType
<1> QED BY <1>1, <1>4, <1>6, <1>7

\* Two causes that give a call the same name are one.
LEMMA SameName ==
    ASSUME NEW H, NEW rw, NEW p \in Nat \ {0}, NEW q \in Nat \ {0}, NEW i, NEW g, NEW h,
           MadeBy(H, rw, p, i, g), MadeBy(H, rw, q, i, h)
    PROVE  g = h
<1> DEFINE N(r, s) == Cardinality(CallsOfSite(H, rw, 1..r, s))
<1>1. PICK s : s = SiteOf(g) /\ s = SiteOf(h) /\ N(p, s) = N(q, s)
  <2>1. i = <<SiteOf(g), N(p, SiteOf(g))>> /\ i = <<SiteOf(h), N(q, SiteOf(h))>>
    BY DEF MadeBy
  <2> HIDE DEF N
  <2> QED BY <2>1
<1>2. /\ Makes(H, rw, p) /\ SiteOf(CallOf(H, rw, p)) = s /\ g = CallOf(H, rw, p)
      /\ Makes(H, rw, q) /\ SiteOf(CallOf(H, rw, q)) = s /\ h = CallOf(H, rw, q)
  BY <1>1 DEF MadeBy
<1>3. ~(p < q)
  BY <1>1, <1>2, OneCause
<1>4. ~(q < p)
  BY <1>1, <1>2, OneCause
<1>5. p = q
  BY <1>3, <1>4
<1> QED BY <1>2, <1>5
--------------------------------------------------------------------------------
(* The script's calls in every step. *)

\* What a life has acted on is part of what it was told, and that of the history.
LEMMA ConsumedBound ==
    ASSUME HistoryInv, Running
    PROVE  Consumed \in Nat /\ Consumed <= Len(History) /\ Len(History) \in Nat
<1>1. PICK k, l, m : k = Len(LifeTold) /\ l = Len(History) /\ m = Len(inbox)
  OBVIOUS
<1>2. k \in Nat /\ l \in Nat /\ m \in Nat
  BY <1>1, HistoryFacts, HistoryType, LenProperties
<1>3. k <= l /\ m <= k
  BY <1>1, HistoryFacts DEF Following, ToldFollows, IsBeginning, IsEnding
<1>4. Consumed = k - m
  BY <1>1 DEF Consumed
<1> QED BY <1>1, <1>2, <1>3, <1>4

\* A step that keeps the history, or adds to it, and neither calls nor answers.
SameScript ==
    /\ UNCHANGED <<pc, asking, ordinals>> /\ Consumed' = Consumed
    /\ \A a \in Actors : actors'[a].pendingLive = actors[a].pendingLive

LEMMA ReplayKept ==
    ASSUME ReplayInv, HistoryInv', Lengthens(History, rows, History', rows'),
           Recorded' = Recorded, \A i \in Recorded : rows'[i].hash = rows[i].hash,
           NoReplayMismatch', Running' => Running /\ SameScript
    PROVE  ReplayInv'
<1>1. PICK H, K, rx : H = History /\ K = History' /\ rx = rows'
  OBVIOUS
<1>2. Lengthens(H, rows, K, rx)
  BY <1>1
<1>3. \A i \in Recorded' : IsMade(K, rx, i, rx[i].hash)
  <2> SUFFICES ASSUME NEW i \in Recorded PROVE IsMade(K, rx, i, rx[i].hash)
    OBVIOUS
  <2>1. IsMade(H, rows, i, rows[i].hash) /\ rx[i].hash = rows[i].hash
    BY <1>1 DEF ReplayInv
  <2> QED BY <1>2, <2>1, StillMade
<1>4. ASSUME Running'
      PROVE  /\ StartsInOrder(pc', Consumed')
             /\ AskingMatches(asking', pc', rx, actors')
             /\ WaitingAreMade(K, rx, actors')
             /\ OrdinalsCount(ordinals', K, rx, pc', Consumed')
  <2>1. /\ Running /\ SameScript /\ HistoryInv
        /\ StartsInOrder(pc, Consumed) /\ AskingMatches(asking, pc, rows, actors)
        /\ WaitingAreMade(H, rows, actors)
        /\ OrdinalsCount(ordinals, H, rows, pc, Consumed)
    BY <1>1, <1>4 DEF ReplayInv
  <2>2. Consumed' = Consumed /\ UNCHANGED <<pc, asking, ordinals>>
        /\ \A a \in Actors : actors'[a].pendingLive = actors[a].pendingLive
    BY <2>1 DEF SameScript
  <2>3. StartsInOrder(pc', Consumed')
    BY <2>1, <2>2
  <2>4. AskingMatches(asking', pc', rx, actors')
    <3>1. TypeOK /\ asking \in [Branches -> Instances \cup {NoInst}]
      BY <2>1, HistoryFacts DEF TypeOK
    <3>2. ASSUME NEW b \in Branches, asking[b] # NoInst, rx[asking[b]] # NoRow
          PROVE  rows[asking[b]] # NoRow /\ rx[asking[b]].hash = rows[asking[b]].hash
      <4>1. asking[b] \in Recorded'
        BY <1>1, <3>1, <3>2 DEF Recorded
      <4>2. asking[b] \in Recorded
        BY <4>1
      <4> QED BY <1>1, <4>2 DEF Recorded
    <3> QED BY <2>1, <2>2, <3>2 DEF AskingMatches
  <2>5. WaitingAreMade(K, rx, actors')
    <3> SUFFICES ASSUME NEW a \in Actors, NEW n \in DOMAIN actors'[a].pendingLive
                 PROVE  IsMade(K, rx, actors'[a].pendingLive[n][1], actors'[a].pendingLive[n][2])
      BY DEF WaitingAreMade
    <3>1. PICK i, g : i = actors'[a].pendingLive[n][1] /\ g = actors'[a].pendingLive[n][2]
      OBVIOUS
    <3>2. IsMade(H, rows, i, g)
      BY <2>1, <2>2, <3>1 DEF WaitingAreMade
    <3>3. IsMade(K, rx, i, g)
      BY <1>2, <3>2, StillMade
    <3> QED BY <3>1, <3>3
  <2>6. OrdinalsCount(ordinals', K, rx, pc', Consumed')
    <3>1. PICK c : c = Consumed
      OBVIOUS
    <3>2. c \in Nat /\ c <= Len(H) /\ Len(H) \in Nat
      BY <1>1, <2>1, <3>1, ConsumedBound
    <3>3. Done(pc, c, K) = Done(pc, c, H) /\ Done(pc, c, H) \subseteq Causes(H)
      <4>1. Starts \in Nat /\ Len(K) \in Nat /\ Len(H) <= Len(K)
        BY <1>2, StartsType DEF Lengthens
      <4>2. Causes(H) \subseteq Causes(K)
        BY <3>2, <4>1 DEF Causes
      <4>3. ASSUME NEW q \in Causes(K), q <= Starts \/ q - Starts <= c PROVE q \in Causes(H)
        BY <3>2, <4>1, <4>3 DEF Causes
      <4> QED BY <4>2, <4>3 DEF Done
    <3>4. \A s \in Sites : CallsOfSite(K, rx, Done(pc, c, H), s) = CallsOfSite(H, rows, Done(pc, c, H), s)
      BY <1>2, <3>3, SameCalls
    <3> QED BY <2>1, <2>2, <3>1, <3>3, <3>4 DEF OrdinalsCount
  <2> QED BY <2>3, <2>4, <2>5, <2>6
<1> QED BY <1>1, <1>3, <1>4 DEF ReplayInv

\* A life that has called nothing.
HasCalledNothing(p, ask, os, as) ==
    /\ p = [b \in Branches |-> 0] /\ ask = [b \in Branches |-> NoInst]
    /\ os = [s \in Sites |-> 0]
    /\ \A a \in Actors : as[a].pendingLive = <<>>

LEMMA NoCalls ==
    ASSUME NEW H, NEW rw, NEW p, NEW ask, NEW os, NEW as, HasCalledNothing(p, ask, os, as)
    PROVE  /\ StartsInOrder(p, 0) /\ AskingMatches(ask, p, rw, as)
           /\ WaitingAreMade(H, rw, as) /\ OrdinalsCount(os, H, rw, p, 0)
<1>1. /\ p = [b \in Branches |-> 0] /\ ask = [b \in Branches |-> NoInst]
      /\ os = [s \in Sites |-> 0]
      /\ \A a \in Actors : as[a].pendingLive = <<>>
  BY DEF HasCalledNothing
<1>2. \A n \in DOMAIN BranchOrder : BranchOrder[n] \in Branches
  BY ConstantsAssumption, ElementOfSeq, LenProperties
<1>3. StartsInOrder(p, 0)
  BY <1>1, <1>2 DEF StartsInOrder
<1>4. AskingMatches(ask, p, rw, as)
  BY <1>1 DEF AskingMatches
<1>5. WaitingAreMade(H, rw, as)
  <2>1. PICK e : e = <<>>
    OBVIOUS
  <2>2. DOMAIN e = {}
    BY <2>1, EmptySeq
  <2> QED BY <1>1, <2>1, <2>2 DEF WaitingAreMade
<1>6. Done(p, 0, H) = {}
  <2>1. ASSUME NEW q \in Causes(H), IF q <= Starts THEN p[BranchOrder[q]] > 0 ELSE q - Starts <= 0
        PROVE  FALSE
    <3>1. Starts \in Nat /\ DOMAIN BranchOrder = 1..Starts /\ q \in Int /\ q >= 1
      BY StartsType DEF Causes
    <3>2. CASE q <= Starts
      <4>1. BranchOrder[q] \in Branches
        BY <1>2, <3>1, <3>2
      <4> QED BY <1>1, <2>1, <3>2, <4>1
    <3>3. CASE ~(q <= Starts)
      BY <2>1, <3>1, <3>3
    <3> QED BY <3>2, <3>3
  <2> QED BY <2>1 DEF Done
<1>7. OrdinalsCount(os, H, rw, p, 0)
  <2>1. \A s \in Sites : Cardinality(CallsOfSite(H, rw, {}, s)) = 0
    BY FS_EmptySet DEF CallsOfSite
  <2> QED BY <1>1, <1>6, <2>1 DEF OrdinalsCount
<1> QED BY <1>3, <1>4, <1>5, <1>7


\* A call that the next cause makes: it is named as that cause names it, so the row it
\* meets is its own.
LEMMA AskMade ==
    ASSUME ReplayInv, PlacesInv', Running, NEW b \in Branches, NEW n \in DOMAIN Prog[b],
           NEW o \in Outcomes \cup {"start"}, NEW box \in Seq(Instances \X Outcomes),
           Ask(b, n, o, box), ToldFollows(History, LifeTold, box),
           NEW q \in Causes(History), Makes(History, rows, q),
           CallOf(History, rows, q) = <<b, n, o>>,
           Done(pc, Consumed, History) = 1..(q - 1),
           Done([pc EXCEPT ![b] = n], Len(LifeTold) - Len(box), History) = 1..q,
           StartsInOrder([pc EXCEPT ![b] = n], Len(LifeTold) - Len(box))
    PROVE  ReplayInv'
<1>0. PICK site, a, i, hash : IsCall(b, n, o, site, a, i, hash)
  BY DEF IsCall
<1>i. /\ site = Prog[b][n][1] /\ a = Prog[b][n][2]
      /\ i = <<site, ordinals[site] + 1>> /\ hash = <<b, n, o>>
  BY <1>0 DEF IsCall
<1>1. TypeOK' /\ HistoryInv
  BY DEF ReplayInv, PlacesInv, LogInv, OrderInv, IInv
<1>2. /\ site \in Sites /\ a \in Actors /\ i \in Instances /\ hash \in Hashes /\ i # NoInst
      /\ ordinals[site] < MaxOrdinal /\ ordinals' = [ordinals EXCEPT ![site] = @ + 1]
      /\ pc' = [pc EXCEPT ![b] = n]
      /\ \/ \E R, L : CallHeard(b, n, a, i, hash, R, L, box)
         \/ /\ rows[i] # NoRow /\ rows[i].hash # hash
            /\ Finish("errored", "none", "InputHashMismatch", FALSE, box)
  BY <1>0, <1>1, AskHeard
<1>3. /\ HistoryInv' /\ History' = History
      /\ \/ Running' /\ LifeTold' = LifeTold
         \/ ~Running' /\ run'.status = "errored"
  BY <1>1, AskHistory
<1>4. PICK H : H = History
  OBVIOUS
<1>5. /\ \A j \in Recorded : IsMade(H, rows, j, rows[j].hash)
      /\ AskingMatches(asking, pc, rows, actors) /\ WaitingAreMade(H, rows, actors)
      /\ \A s \in Sites : ordinals[s] = Cardinality(CallsOfSite(H, rows, 1..(q - 1), s))
      /\ NoReplayMismatch
  BY <1>4 DEF ReplayInv, OrdinalsCount
<1>6. /\ q \in Nat \ {0} /\ q \in Causes(H) /\ 1..q \subseteq Causes(H)
      /\ Makes(H, rows, q) /\ CallOf(H, rows, q) = hash /\ SiteOf(hash) = site
  <2>1. Starts \in Nat /\ Len(H) \in Nat
    BY <1>1, <1>4, StartsType, HistoryFacts
  <2>2. q \in Nat \ {0} /\ 1..q \subseteq Causes(H)
    BY <1>4, <2>1 DEF Causes
  <2> QED BY <1>i, <1>4, <2>2 DEF SiteOf
<1>7. \A s \in Sites : Cardinality(CallsOfSite(H, rows, 1..q, s)) =
          ordinals[s] + (IF s = site THEN 1 ELSE 0)
  <2> TAKE s \in Sites
  <2>1. Cardinality(CallsOfSite(H, rows, 1..q, s)) =
            Cardinality(CallsOfSite(H, rows, 1..(q - 1), s))
            + (IF Makes(H, rows, q) /\ SiteOf(CallOf(H, rows, q)) = s THEN 1 ELSE 0)
    BY <1>6, CallsCounted
  <2> QED BY <1>5, <1>6, <2>1
<1>8. MadeBy(H, rows, q, i, hash)
  <2>1. Cardinality(CallsOfSite(H, rows, 1..q, site)) = ordinals[site] + 1
    BY <1>2, <1>7
  <2> QED BY <1>i, <1>6, <2>1 DEF MadeBy
<1>9. rows[i] # NoRow => rows[i].hash = hash
  <2> SUFFICES ASSUME rows[i] # NoRow PROVE rows[i].hash = hash
    OBVIOUS
  <2>1. i \in Recorded
    BY <1>2 DEF Recorded
  <2>2. PICK p \in Causes(H) : MadeBy(H, rows, p, i, rows[i].hash)
    BY <1>5, <2>1 DEF IsMade
  <2>3. p \in Nat \ {0}
    <3>1. Starts \in Nat /\ Len(H) \in Nat
      BY <1>1, <1>4, StartsType, HistoryFacts
    <3> QED BY <3>1 DEF Causes
  <2> QED BY <1>6, <1>8, <2>2, <2>3, SameName
<1>10. PICK R, L : CallHeard(b, n, a, i, hash, R, L, box)
  BY <1>2, <1>9
<1>11. /\ Heard(a, R, L, box) /\ asking' = [asking EXCEPT ![b] = i] /\ UNCHANGED <<run, up, runSettled>>
       /\ \/ rows[i] = NoRow /\ L = Append(actors[a].pendingLive, <<i, hash>>)
          \/ L = actors[a].pendingLive
  BY <1>10 DEF CallHeard
<1>12. /\ inbox' = box /\ \A j \in Rows(rows) : j \in Rows(rows') /\ rows'[j] = rows[j]
       /\ \A j \in Rows(rows') \ Rows(rows) : \E m \in DOMAIN L : L[m][1] = j /\ rows'[j].hash = L[m][2]
       /\ actors'[a].pendingLive \in {L, <<>>}
       /\ \A d \in Actors \ {a} : actors'[d].pendingLive = actors[d].pendingLive
  BY <1>11 DEF Heard
<1>13. Running' /\ LifeTold' = LifeTold /\ Consumed' = Len(LifeTold) - Len(box)
  <2>1. Running'
    BY <1>11 DEF Running
  <2> QED BY <1>3, <1>12, <2>1 DEF Consumed
<1>14. Lengthens(H, rows, H, rows')
  <2>1. IsHistory(H, rows) /\ Len(H) \in Nat /\ DOMAIN H = 1..Len(H)
    BY <1>1, <1>4, HistoryFacts
  <2>2. ASSUME NEW k \in 1..Len(H) PROVE rows'[H[k][1]] = rows[H[k][1]]
    <3>1. H[k][1] \in SettledRows(rows)
      BY <2>1 DEF IsHistory
    <3>2. H[k][1] \in Rows(rows)
      BY <3>1 DEF SettledRows
    <3> QED BY <1>12, <3>2
  <2> QED BY <2>1, <2>2 DEF Lengthens
\* What waits is the call, or waited already.
<1>15. ASSUME NEW m \in DOMAIN L
       PROVE  \/ L[m] = <<i, hash>>
              \/ \E k \in DOMAIN actors[a].pendingLive : L[m] = actors[a].pendingLive[k]
  <2>1. CASE L = actors[a].pendingLive
    BY <1>15, <2>1
  <2>2. CASE L = Append(actors[a].pendingLive, <<i, hash>>)
    <3>1. PICK l, x : l = actors[a].pendingLive /\ x = <<i, hash>>
      OBVIOUS
    <3>2. l \in Seq(Instances \X Hashes) /\ x \in Instances \X Hashes
      <4>1. actors[a] \in Actor
        BY <1>1, <1>2, HistoryFacts DEF TypeOK
      <4> QED BY <1>2, <3>1, <4>1 DEF Actor
    <3>3. L = Append(l, x)
      BY <2>2, <3>1
    <3>4. /\ DOMAIN L = 1..(Len(l) + 1) /\ DOMAIN l = 1..Len(l) /\ Len(l) \in Nat
          /\ \A k \in 1..Len(l) : L[k] = l[k]
          /\ L[Len(l) + 1] = x
      BY ONLY <3>2, <3>3, AppendProperties, LenProperties
    <3>5. L[m] = x \/ \E k \in DOMAIN l : L[m] = l[k]
      BY <1>15, <3>4
    <3> QED BY <3>1, <3>5
  <2> QED BY <1>11, <2>1, <2>2
\* It was not asked for before in this life.
<1>16. ASSUME NEW d \in Actors, NEW k \in DOMAIN actors[d].pendingLive
       PROVE  actors[d].pendingLive[k][1] # i
  <2>1. NewCallsAreNew /\ ordinals[site] \in Nat
    BY <1>1, <1>2, HistoryFacts, ConstantsAssumption DEF IInv, TypeOK
  <2>2. actors[d].pendingLive[k][1] \in WaitingNew(actors, d)
    BY <1>16 DEF WaitingNew
  <2>3. i[1] = site /\ i[2] = ordinals[site] + 1
    BY <1>i
  <2>4. ~(i[2] <= ordinals[i[1]])
    BY <2>1, <2>3
  <2> QED BY <2>1, <2>2, <2>4 DEF NewCallsAreNew
<1>17. CallsDiffer'
  BY <1>3, <1>13 DEF HistoryInv, PlacesInv, CallsHavePlaces
\* An entry that waits for admission is that of the branch that awaits it.
<1> DEFINE Fits(x, c) == asking'[c] # NoInst /\ x[1] = asking'[c] => x[2][1] = c /\ x[2][2] = pc'[c]
<1>18. TypeOK /\ asking \in [Branches -> Instances \cup {NoInst}] /\ pc \in [Branches -> Nat]
  BY <1>1, HistoryFacts DEF TypeOK
<1>19. /\ asking'[b] = i /\ pc'[b] = n
       /\ \A c \in Branches \ {b} : asking'[c] = asking[c] /\ pc'[c] = pc[c]
  BY <1>2, <1>11, <1>18
<1>20. ASSUME NEW d \in Actors, NEW k \in DOMAIN actors[d].pendingLive, NEW c \in Branches
       PROVE  Fits(actors[d].pendingLive[k], c)
  <2>1. CASE c = b
    BY <1>16, <1>19, <2>1
  <2>2. CASE c # b
    BY <1>5, <1>19, <2>2 DEF AskingMatches
  <2> QED BY <2>1, <2>2
<1>21. ASSUME NEW c \in Branches PROVE Fits(<<i, hash>>, c)
  <2>1. asking'[c] # NoInst /\ i = asking'[c] => c = b
    BY <1>17, <1>19 DEF CallsDiffer
  <2> QED BY <1>i, <1>19, <2>1
<1>22. ASSUME NEW m \in DOMAIN L, NEW c \in Branches PROVE Fits(L[m], c)
  <2>1. CASE L[m] = <<i, hash>>
    BY <1>21, <2>1
  <2>2. CASE \E k \in DOMAIN actors[a].pendingLive : L[m] = actors[a].pendingLive[k]
    BY <1>2, <1>20, <2>2
  <2> QED BY <1>15, <2>1, <2>2
<1>23. PICK e : e = <<>>
  OBVIOUS
<1>24. DOMAIN e = {}
  BY <1>23, EmptySeq
<1>25. AskingMatches(asking', pc', rows', actors')
  <2>1. ASSUME NEW c \in Branches, asking'[c] # NoInst, rows'[asking'[c]] # NoRow
        PROVE  rows'[asking'[c]].hash[1] = c /\ rows'[asking'[c]].hash[2] = pc'[c]
    <3>1. PICK j : j = asking'[c]
      OBVIOUS
    <3>2. j \in Instances /\ j \in Rows(rows')
      <4>1. asking' \in [Branches -> Instances \cup {NoInst}] /\ rows' \in [Instances -> Row \cup {NoRow}]
        BY <1>1 DEF TypeOK
      <4> QED BY <2>1, <3>1, <4>1 DEF Rows
    <3>3. CASE j \notin Rows(rows)
      <4>1. PICK m \in DOMAIN L : L[m][1] = j /\ rows'[j].hash = L[m][2]
        BY <1>12, <3>2, <3>3
      <4>2. Fits(L[m], c)
        BY <1>22
      <4> QED BY <2>1, <3>1, <4>1, <4>2
    <3>4. CASE j \in Rows(rows) /\ c = b
      <4>1. j = i /\ rows[i] # NoRow /\ rows'[i] = rows[i]
        BY <1>12, <1>19, <3>1, <3>4 DEF Rows
      <4>2. hash[1] = b /\ hash[2] = n
        BY <1>i
      <4>3. rows'[j].hash = hash /\ asking'[c] = j /\ pc'[c] = n /\ c = b
        BY ONLY <1>9, <1>19, <3>1, <3>4, <4>1
      <4> QED BY ONLY <4>2, <4>3
    <3>5. CASE j \in Rows(rows) /\ c # b
      <4>1. j = asking[c] /\ rows[j] # NoRow /\ rows'[j] = rows[j] /\ pc'[c] = pc[c] /\ j # NoInst
        BY <1>12, <1>19, <2>1, <3>1, <3>5 DEF Rows
      <4> QED BY <1>5, <3>1, <4>1 DEF AskingMatches
    <3> QED BY <3>3, <3>4, <3>5
  <2>2. ASSUME NEW c \in Branches, NEW d \in Actors, NEW k \in DOMAIN actors'[d].pendingLive
        PROVE  Fits(actors'[d].pendingLive[k], c)
    <3>1. CASE d = a
      <4>1. actors'[a].pendingLive = L
        BY <1>12, <1>23, <1>24, <2>2, <3>1
      <4>2. k \in DOMAIN L
        BY <2>2, <3>1, <4>1
      <4> QED BY <1>22, <3>1, <4>1, <4>2
    <3>2. CASE d # a
      <4>1. actors'[d].pendingLive = actors[d].pendingLive
        BY <1>12, <3>2
      <4> QED BY <1>20, <2>2, <4>1
    <3> QED BY <3>1, <3>2
  <2> QED BY <2>1, <2>2 DEF AskingMatches
<1>26. ASSUME NEW m \in DOMAIN L PROVE IsMade(H, rows', L[m][1], L[m][2])
  <2>1. PICK j, g : j = L[m][1] /\ g = L[m][2]
    OBVIOUS
  <2>2. IsMade(H, rows, j, g)
    <3>1. CASE L[m] = <<i, hash>>
      <4>1. j = i /\ g = hash
        BY <2>1, <3>1
      <4> QED BY <1>6, <1>8, <4>1 DEF IsMade
    <3>2. CASE \E k \in DOMAIN actors[a].pendingLive : L[m] = actors[a].pendingLive[k]
      BY <1>2, <1>5, <2>1, <3>2 DEF WaitingAreMade
    <3> QED BY <1>15, <3>1, <3>2
  <2>3. IsMade(H, rows', j, g)
    BY <1>14, <2>2, StillMade
  <2> QED BY <2>1, <2>3
<1>27. WaitingAreMade(H, rows', actors')
  <2> SUFFICES ASSUME NEW d \in Actors, NEW k \in DOMAIN actors'[d].pendingLive
               PROVE  IsMade(H, rows', actors'[d].pendingLive[k][1], actors'[d].pendingLive[k][2])
    BY DEF WaitingAreMade
  <2>1. CASE d = a
    <3>1. actors'[a].pendingLive = L
      BY <1>12, <1>23, <1>24, <2>1
    <3> QED BY <1>26, <2>1, <3>1
  <2>2. CASE d # a
    <3>1. actors'[d].pendingLive = actors[d].pendingLive
      BY <1>12, <2>2
    <3>2. PICK j, g : j = actors[d].pendingLive[k][1] /\ g = actors[d].pendingLive[k][2]
      OBVIOUS
    <3>3. IsMade(H, rows, j, g)
      BY <1>5, <3>1, <3>2 DEF WaitingAreMade
    <3>4. IsMade(H, rows', j, g)
      BY <1>14, <3>3, StillMade
    <3> QED BY <3>1, <3>2, <3>4
  <2> QED BY <2>1, <2>2
<1>28. \A j \in Recorded' : IsMade(H, rows', j, rows'[j].hash)
  <2> SUFFICES ASSUME NEW j \in Recorded' PROVE IsMade(H, rows', j, rows'[j].hash)
    OBVIOUS
  <2>1. j \in Instances /\ j \in Rows(rows')
    BY DEF Recorded, Rows
  <2>2. CASE j \in Rows(rows)
    <3>1. j \in Recorded /\ rows'[j] = rows[j]
      BY <1>12, <2>2 DEF Rows, Recorded
    <3>2. IsMade(H, rows, j, rows[j].hash)
      BY <1>5, <3>1
    <3> QED BY <1>14, <3>1, <3>2, StillMade
  <2>3. CASE j \notin Rows(rows)
    <3>1. PICK m \in DOMAIN L : L[m][1] = j /\ rows'[j].hash = L[m][2]
      BY <1>12, <2>1, <2>3
    <3> QED BY <1>26, <3>1
  <2> QED BY <2>2, <2>3
<1>29. OrdinalsCount(ordinals', H, rows', pc', Consumed')
  <2>1. Done(pc', Consumed', H) = 1..q
    BY <1>2, <1>4, <1>13
  <2>2. ASSUME NEW s \in Sites PROVE ordinals'[s] = Cardinality(CallsOfSite(H, rows', 1..q, s))
    <3>1. PICK Q : Q = 1..q
      OBVIOUS
    <3>2. CallsOfSite(H, rows', Q, s) = CallsOfSite(H, rows, Q, s)
      <4>1. Q \in SUBSET Causes(H)
        BY <1>6, <3>1
      <4> QED BY ONLY <1>14, <4>1, SameCalls
    <3>3. ordinals'[s] = ordinals[s] + (IF s = site THEN 1 ELSE 0)
      <4>1. ordinals \in [Sites -> 0..MaxOrdinal] /\ MaxOrdinal \in Nat
        BY <1>18, ConstantsAssumption DEF TypeOK
      <4> QED BY <1>2, <4>1
    <3> QED BY <1>7, <3>1, <3>2, <3>3
  <2> QED BY <2>1, <2>2 DEF OrdinalsCount
<1>30. StartsInOrder(pc', Consumed')
  BY <1>2, <1>13
<1>31. NoReplayMismatch'
  BY <1>5, <1>11 DEF NoReplayMismatch
<1> QED BY <1>3, <1>4, <1>25, <1>27, <1>28, <1>29, <1>30, <1>31 DEF ReplayInv


\* The history is not longer, and its rows are about the same calls.
LEMMA SameLength ==
    ASSUME HistoryInv, History' = History, \A i \in Rows(rows) : rows'[i].hash = rows[i].hash
    PROVE  Lengthens(History, rows, History', rows')
<1>1. PICK H : H = History
  OBVIOUS
<1>2. IsHistory(H, rows) /\ Len(H) \in Nat /\ DOMAIN H = 1..Len(H)
  BY <1>1, HistoryFacts
<1>3. ASSUME NEW k \in 1..Len(H) PROVE rows'[H[k][1]].hash = rows[H[k][1]].hash
  <2>1. H[k][1] \in SettledRows(rows)
    BY <1>2 DEF IsHistory
  <2>2. H[k][1] \in Rows(rows)
    BY <2>1 DEF SettledRows
  <2> QED BY <2>2
<1>4. Lengthens(H, rows, H, rows')
  BY <1>2, <1>3 DEF Lengthens
<1> QED BY <1>1, <1>4

\* A step that leaves the journal's rows alone.
LEMMA ReplaySame ==
    ASSUME ReplayInv, HistoryInv', History' = History, rows' = rows,
           NoReplayMismatch', Running' => Running /\ SameScript
    PROVE  ReplayInv'
<1>1. Lengthens(History, rows, History', rows')
  BY SameLength DEF ReplayInv
<1>2. Recorded' = Recorded /\ \A i \in Recorded : rows'[i].hash = rows[i].hash
  BY DEF Recorded
<1> QED BY <1>1, <1>2, ReplayKept

\* The causes up to an answer, once every branch has started.
LEMMA DoneUpTo ==
    ASSUME NEW H, Len(H) \in Nat, NEW p, \A c \in Branches : p[c] > 0,
           NEW j \in Nat, j <= Len(H)
    PROVE  Done(p, j, H) = 1..(Starts + j)
<1>1. Starts \in Nat /\ \A r \in 1..Starts : BranchOrder[r] \in Branches
  BY StartsType, ConstantsAssumption, ElementOfSeq, LenProperties
<1>2. ASSUME NEW r \in Done(p, j, H) PROVE r \in 1..(Starts + j)
  <2>1. r \in 1..(Starts + Len(H)) /\ (r <= Starts \/ r - Starts <= j)
    BY DEF Done, Causes
  <2> QED BY <1>1, <2>1
<1>3. ASSUME NEW r \in 1..(Starts + j) PROVE r \in Done(p, j, H)
  <2>1. r \in Causes(H) /\ r \in Int /\ r >= 1
    BY <1>1 DEF Causes
  <2>2. IF r <= Starts THEN p[BranchOrder[r]] > 0 ELSE r - Starts <= j
    BY <1>1, <2>1
  <2> QED BY <2>1, <2>2 DEF Done
<1> QED BY <1>2, <1>3

\* The start of a branch is the next cause.
LEMMA StartReplay ==
    ASSUME ReplayInv, PlacesInv', NEW b \in Branches, StartBranch(b)
    PROVE  ReplayInv'
<1>1. Running /\ pc[b] = 0 /\ Ask(b, 1, "start", inbox) /\ HistoryInv
      /\ StartsInOrder(pc, Consumed)
  BY DEF StartBranch, ReplayInv
<1>2. PICK q \in DOMAIN BranchOrder : BranchOrder[q] = b /\ \A m \in 1..(q - 1) : pc[BranchOrder[m]] > 0
  BY DEF StartBranch
<1>3. PICK H, p : H = History /\ p = [pc EXCEPT ![b] = 1]
  OBVIOUS
<1>4. /\ Starts \in Nat /\ DOMAIN BranchOrder = 1..Starts /\ q \in 1..Starts /\ Len(H) \in Nat
      /\ \A m \in 1..Starts : BranchOrder[m] \in Branches
      /\ \A m, n \in 1..Starts : BranchOrder[m] = BranchOrder[n] => m = n
  <2>1. Starts \in Nat /\ DOMAIN BranchOrder = 1..Starts
    BY StartsType
  <2>2. Len(H) \in Nat
    BY <1>1, <1>3, HistoryFacts
  <2>3. \A m \in 1..Starts : BranchOrder[m] \in Branches
    BY ConstantsAssumption, ElementOfSeq DEF Starts
  <2>4. \A m, n \in DOMAIN BranchOrder : BranchOrder[m] = BranchOrder[n] => m = n
    BY ConstantsAssumption
  <2> QED BY ONLY <1>2, <2>1, <2>2, <2>3, <2>4
<1>5. Consumed = 0
  <2>1. Consumed \in Nat
    BY <1>1, ConsumedBound
  <2>2. ~(Consumed > 0)
    BY <1>1 DEF StartsInOrder
  <2> QED BY <2>1, <2>2
<1>6. p[b] = 1 /\ \A c \in Branches \ {b} : p[c] = pc[c]
  <2>1. pc \in [Branches -> Nat]
    BY <1>1, HistoryFacts DEF TypeOK
  <2> QED BY <1>3, <2>1
<1>7. ASSUME NEW r \in 1..Starts
      PROVE  /\ pc[BranchOrder[r]] > 0 <=> r < q
             /\ p[BranchOrder[r]] > 0 <=> r <= q
  <2>1. CASE r < q
    <3>1. r \in 1..(q - 1)
      BY <1>4, <2>1
    <3>2. BranchOrder[r] # b /\ BranchOrder[r] \in Branches
      BY <1>2, <1>4, <2>1
    <3> QED BY <1>2, <1>4, <1>6, <2>1, <3>1, <3>2
  <2>2. CASE r = q
    BY <1>1, <1>2, <1>4, <1>6, <2>2
  <2>3. CASE q < r
    <3>1. ~(pc[BranchOrder[r]] > 0)
      <4>1. ~(pc[BranchOrder[q]] > 0)
        BY <1>1, <1>2
      <4> QED BY <1>1, <1>4, <2>3, <4>1 DEF StartsInOrder
    <3>2. BranchOrder[r] # b /\ BranchOrder[r] \in Branches
      BY <1>2, <1>4, <2>3
    <3> QED BY <1>4, <1>6, <2>3, <3>1, <3>2
  <2> QED BY <1>4, <2>1, <2>2, <2>3
<1>8. Done(pc, 0, H) = 1..(q - 1) /\ Done(p, 0, H) = 1..q
  <2>1. ASSUME NEW f, NEW n \in Nat, n <= Starts,
               \A r \in 1..Starts : f[BranchOrder[r]] > 0 <=> r <= n
        PROVE  Done(f, 0, H) = 1..n
    <3>1. ASSUME NEW r \in Done(f, 0, H) PROVE r \in 1..n
      <4>1. /\ r \in 1..(Starts + Len(H))
            /\ IF r <= Starts THEN f[BranchOrder[r]] > 0 ELSE r - Starts <= 0
        BY DEF Done, Causes
      <4>2. r \in 1..Starts /\ f[BranchOrder[r]] > 0
        BY <1>4, <4>1
      <4> QED BY <2>1, <4>2
    <3>2. ASSUME NEW r \in 1..n PROVE r \in Done(f, 0, H)
      <4>1. r \in 1..Starts /\ r <= n /\ r \in 1..(Starts + Len(H)) /\ r <= Starts
        BY <1>4, <2>1
      <4>2. f[BranchOrder[r]] > 0
        BY <2>1, <4>1
      <4> QED BY <4>1, <4>2 DEF Done, Causes
    <3> QED BY <3>1, <3>2
  <2>2. \A r \in 1..Starts : pc[BranchOrder[r]] > 0 <=> r <= q - 1
    BY <1>4, <1>7
  <2>3. q - 1 \in Nat /\ q - 1 <= Starts /\ q \in Nat /\ q <= Starts
    BY <1>4
  <2> QED BY <1>7, <2>1, <2>2, <2>3
<1>9. StartsInOrder(p, 0)
  <2>1. \A m, n \in DOMAIN BranchOrder : m < n /\ p[BranchOrder[n]] > 0 => p[BranchOrder[m]] > 0
    BY <1>4, <1>7
  <2> QED BY <2>1 DEF StartsInOrder
<1>10. q \in Causes(H) /\ Makes(H, rows, q) /\ CallOf(H, rows, q) = <<b, 1, "start">>
  <2>1. q \in 1..(Starts + Len(H)) /\ q <= Starts /\ ~(q > Starts)
    BY <1>4
  <2> QED BY <1>2, <2>1 DEF Causes, Makes, CallOf
<1>11. ToldFollows(History, LifeTold, inbox) /\ inbox \in Seq(Instances \X Outcomes)
  BY <1>1, HistoryFacts, HistoryType DEF Following
<1>12. 1 \in DOMAIN Prog[b]
  <2>1. Prog[b] \in Seq(Sites \X Actors) /\ Prog[b] # <<>>
    BY ConstantsAssumption
  <2>2. Len(Prog[b]) \in Nat /\ Len(Prog[b]) # 0 /\ DOMAIN Prog[b] = 1..Len(Prog[b])
    BY <2>1, LenProperties, EmptySeq
  <2> QED BY <2>2
<1>13. Len(LifeTold) - Len(inbox) = 0
  BY <1>5 DEF Consumed
<1> QED BY <1>1, <1>3, <1>5, <1>8, <1>9, <1>10, <1>11, <1>12, <1>13, AskMade


\* The next answer is the next cause: that of the branch that awaits it.
IsNext(q, b, o) ==
    /\ q \in Causes(History) /\ q > Starts
    /\ Done(pc, Consumed, History) = 1..(q - 1)
    /\ \A p : (\A c \in Branches : p[c] > 0) =>
           Done(p, Len(LifeTold) - Len(Tail(inbox)), History) = 1..q
    /\ Len(LifeTold) - Len(Tail(inbox)) > 0
    /\ Makes(History, rows, q) <=> pc[b] < Len(Prog[b]) /\ ~(o = "failed" /\ b \in Throwing)
    /\ CallOf(History, rows, q) = <<b, pc[b] + 1, o>>

LEMMA AnswerIsNext ==
    ASSUME ReplayInv, Running, inbox # <<>>, \A c \in Branches : pc[c] > 0,
           NEW b \in Branches, asking[b] = Head(inbox)[1], NEW o, o = Head(inbox)[2]
    PROVE  \E q : IsNext(q, b, o)
<1>1. PICK H, T, box, x : H = History /\ T = LifeTold /\ box = inbox /\ x = Head(inbox)
  OBVIOUS
<1>2. PICK h, l, m : h = Len(H) /\ l = Len(T) /\ m = Len(box)
  OBVIOUS
<1>3. /\ HistoryInv /\ TypeOK /\ IsHistory(H, rows) /\ AskingMatches(asking, pc, rows, actors)
      /\ ToldFollows(H, T, box) /\ T \in Seq(Instances \X Outcomes) /\ box \in Seq(Instances \X Outcomes)
  <2>1. HistoryInv /\ AskingMatches(asking, pc, rows, actors)
    BY DEF ReplayInv
  <2> QED BY <1>1, <2>1, HistoryFacts, HistoryType DEF Following
<1>4. /\ h \in Nat /\ l \in Nat /\ m \in Nat /\ m # 0 /\ m <= l /\ l <= h
      /\ DOMAIN H = 1..h /\ DOMAIN T = 1..l /\ DOMAIN box = 1..m
      /\ Len(Tail(box)) = m - 1 /\ x = box[1]
  <2>1. h \in Nat /\ DOMAIN H = 1..h
    BY <1>1, <1>2, <1>3, HistoryFacts
  <2>2. l \in Nat /\ m \in Nat /\ DOMAIN T = 1..l /\ DOMAIN box = 1..m
    BY <1>2, <1>3, LenProperties
  <2>3. m # 0
    BY <1>1, <1>2, <1>3, EmptySeq
  <2>4. Len(Tail(box)) = m - 1 /\ Head(box) = box[1]
    BY <1>1, <1>2, <1>3, HeadTailProperties
  <2>5. m <= l /\ l <= h
    BY <1>2, <1>3 DEF ToldFollows, IsBeginning, IsEnding
  <2> QED BY <1>1, <2>1, <2>2, <2>3, <2>4, <2>5
<1>5. PICK j, q : j = l - m + 1 /\ q = Starts + j
  OBVIOUS
<1>6. /\ j \in 1..h /\ j \in 1..l /\ j \in Nat /\ j - 1 \in Nat /\ j > 0 /\ Starts \in Nat
      /\ q \in 1..(Starts + h) /\ q > Starts /\ q - Starts = j /\ q - 1 = Starts + (j - 1)
      /\ ~(q <= Starts) /\ l - (m - 1) = j /\ l - m = j - 1 /\ j <= h /\ j - 1 <= h
  BY <1>4, <1>5, StartsType
<1>7. H[j] = x
  <2>1. box[1] = T[l - m + 1]
    <3>1. \A k \in DOMAIN box : box[k] = T[l - m + k]
      BY <1>2, <1>3 DEF ToldFollows, IsEnding
    <3>2. 1 \in DOMAIN box
      BY <1>4
    <3> QED BY <3>1, <3>2
  <2>2. T[j] = H[j]
    BY <1>3, <1>4, <1>6 DEF ToldFollows, IsBeginning
  <2> QED BY <1>4, <1>5, <2>1, <2>2
<1>8. Answered(H, rows, q)[1] = b /\ Answered(H, rows, q)[2] = pc[b]
  <2>1. H[j][1] \in SettledRows(rows)
    BY <1>3, <1>4, <1>6 DEF IsHistory
  <2>2. H[j][1] \in Instances /\ rows[H[j][1]] # NoRow
    BY <2>1 DEF SettledRows, Rows
  <2>3. H[j][1] = asking[b]
    BY <1>1, <1>7
  <2>4. asking[b] # NoInst /\ rows[asking[b]] # NoRow
    BY <2>2, <2>3, NoInstIsNone
  <2>5. rows[asking[b]].hash[1] = b /\ rows[asking[b]].hash[2] = pc[b]
    BY <1>3, <2>4 DEF AskingMatches
  <2> QED BY <1>6, <2>3, <2>5 DEF Answered
<1>9. H[q - Starts][2] = o
  BY <1>1, <1>6, <1>7
<1>10. Makes(H, rows, q) <=> pc[b] < Len(Prog[b]) /\ ~(o = "failed" /\ b \in Throwing)
  BY <1>6, <1>8, <1>9 DEF Makes
<1>11. CallOf(H, rows, q) = <<b, pc[b] + 1, o>>
  BY <1>6, <1>8, <1>9 DEF CallOf
<1>12. Done(pc, j - 1, H) = 1..(q - 1)
  <2>1. PICK i : i = j - 1
    OBVIOUS
  <2>2. i \in Nat /\ i <= Len(H) /\ Len(H) \in Nat /\ q - 1 = Starts + i
    BY <1>2, <1>4, <1>6, <2>1
  <2>3. Done(pc, i, H) = 1..(Starts + i)
    BY <2>2, DoneUpTo
  <2> QED BY <2>1, <2>2, <2>3
<1>13. ASSUME NEW p, \A c \in Branches : p[c] > 0 PROVE Done(p, j, H) = 1..q
  <2>1. Len(H) \in Nat /\ j <= Len(H)
    BY <1>2, <1>4, <1>6
  <2>2. Done(p, j, H) = 1..(Starts + j)
    BY ONLY <1>6, <1>13, <2>1, DoneUpTo
  <2> QED BY <1>5, <2>2
<1>14. Consumed = j - 1 /\ Len(LifeTold) - Len(Tail(inbox)) = j
  BY <1>1, <1>2, <1>4, <1>6 DEF Consumed
<1>15. q \in Causes(H)
  BY <1>2, <1>6 DEF Causes
<1>16. IsNext(q, b, o)
  BY <1>1, <1>6, <1>10, <1>11, <1>12, <1>13, <1>14, <1>15 DEF IsNext
<1> QED BY <1>16

\* A branch goes on with the answer it was waiting for.
LEMMA GoOnReplay ==
    ASSUME ReplayInv, PlacesInv', Running, NEW b \in Branches, NEW o \in Outcomes,
           \A c \in Branches : pc[c] > 0, NEW q, IsNext(q, b, o),
           Tail(inbox) \in Seq(Instances \X Outcomes),
           ToldFollows(History, LifeTold, Tail(inbox)),
           ~(o = "failed" /\ b \in Throwing), pc[b] < Len(Prog[b]),
           Ask(b, pc[b] + 1, o, Tail(inbox))
    PROVE  ReplayInv'
<1>1. PICK n, box, p : n = pc[b] + 1 /\ box = Tail(inbox) /\ p = [pc EXCEPT ![b] = n]
  OBVIOUS
<1>2. pc \in [Branches -> Nat] /\ Prog[b] \in Seq(Sites \X Actors)
  BY HistoryFacts, ConstantsAssumption DEF ReplayInv, TypeOK
<1>3. n \in DOMAIN Prog[b]
  BY <1>1, <1>2, LenProperties
<1>4. \A c \in Branches : p[c] > 0
  BY <1>1, <1>2
<1>5. /\ q \in Causes(History) /\ Makes(History, rows, q) /\ CallOf(History, rows, q) = <<b, n, o>>
      /\ Done(pc, Consumed, History) = 1..(q - 1)
      /\ Done(p, Len(LifeTold) - Len(box), History) = 1..q
  BY <1>1, <1>4 DEF IsNext
<1>6. StartsInOrder(p, Len(LifeTold) - Len(box))
  <2>1. \A m \in DOMAIN BranchOrder : BranchOrder[m] \in Branches
    BY ConstantsAssumption, ElementOfSeq, LenProperties
  <2> QED BY <1>4, <2>1 DEF StartsInOrder
<1>7. /\ Ask(b, n, o, box) /\ box \in Seq(Instances \X Outcomes)
      /\ ToldFollows(History, LifeTold, box) /\ o \in Outcomes \cup {"start"}
  BY <1>1
<1> QED BY <1>1, <1>3, <1>5, <1>6, <1>7, AskMade

\* A branch ends with the answer it was waiting for.
LEMMA EndReplay ==
    ASSUME ReplayInv, HistoryInv', Running, NEW b \in Branches, NEW o,
           \A c \in Branches : pc[c] > 0, NEW q, IsNext(q, b, o), pc[b] = Len(Prog[b]),
           pc' = [pc EXCEPT ![b] = @ + 1], asking' = [asking EXCEPT ![b] = NoInst],
           inbox' = Tail(inbox), UNCHANGED <<rows, events, run, ordinals, actors>>
    PROVE  ReplayInv'
<1>1. History' = History /\ LifeTold' = LifeTold /\ HistoryInv /\ TypeOK
  BY NextHistory, HistoryFacts DEF ReplayInv
<1>2. PICK H : H = History
  OBVIOUS
<1>3. pc \in [Branches -> Nat] /\ asking \in [Branches -> Instances \cup {NoInst}] /\ Len(Prog[b]) \in Nat
  BY <1>1, ConstantsAssumption, LenProperties DEF TypeOK
<1>4. /\ \A c \in Branches : pc'[c] > 0
      /\ \A c \in Branches \ {b} : pc'[c] = pc[c] /\ asking'[c] = asking[c]
      /\ asking'[b] = NoInst
  BY <1>3
<1>5. /\ q \in Causes(H) /\ ~Makes(H, rows, q) /\ Done(pc, Consumed, H) = 1..(q - 1)
      /\ Done(pc', Consumed', H) = 1..q
  <2>1. ~(pc[b] < Len(Prog[b]))
    BY <1>3
  <2>2. Consumed' = Len(LifeTold) - Len(Tail(inbox))
    BY <1>1 DEF Consumed
  <2> QED BY <1>2, <1>4, <2>1, <2>2 DEF IsNext
<1>6. /\ \A j \in Recorded : IsMade(H, rows, j, rows[j].hash)
      /\ AskingMatches(asking, pc, rows, actors) /\ WaitingAreMade(H, rows, actors)
      /\ \A s \in Sites : ordinals[s] = Cardinality(CallsOfSite(H, rows, 1..(q - 1), s))
      /\ NoReplayMismatch
  BY <1>2, <1>5 DEF ReplayInv, OrdinalsCount
<1>7. q \in Nat \ {0}
  BY <1>1, <1>2, <1>5, StartsType, HistoryFacts DEF Causes
<1>8. OrdinalsCount(ordinals, H, rows, pc', Consumed')
  <2>1. ASSUME NEW s \in Sites PROVE ordinals[s] = Cardinality(CallsOfSite(H, rows, 1..q, s))
    <3>1. /\ Cardinality(CallsOfSite(H, rows, 1..(q - 1), s)) \in Nat
          /\ Cardinality(CallsOfSite(H, rows, 1..q, s)) =
                 Cardinality(CallsOfSite(H, rows, 1..(q - 1), s))
                 + (IF Makes(H, rows, q) /\ SiteOf(CallOf(H, rows, q)) = s THEN 1 ELSE 0)
      BY <1>7, CallsCounted
    <3> QED BY <1>5, <1>6, <3>1
  <2> QED BY <1>5, <2>1 DEF OrdinalsCount
<1>9. StartsInOrder(pc', Consumed')
  <2>1. \A m \in DOMAIN BranchOrder : BranchOrder[m] \in Branches
    BY ConstantsAssumption, ElementOfSeq, LenProperties
  <2> QED BY <1>4, <2>1 DEF StartsInOrder
<1>10. AskingMatches(asking', pc', rows, actors)
  BY <1>4, <1>6 DEF AskingMatches
<1>11. Recorded' = Recorded /\ NoReplayMismatch'
  BY <1>6 DEF Recorded, NoReplayMismatch
<1> QED BY <1>1, <1>2, <1>6, <1>8, <1>9, <1>10, <1>11 DEF ReplayInv


\* The end of a run leaves its calls as they are.
LEMMA FinishReplay ==
    ASSUME ReplayInv, PlacesInv', Running, NEW st \in RunStatuses \ {"running"},
           NEW reason, NEW fail, fail # "InputHashMismatch", NEW emit \in BOOLEAN, NEW box,
           Finish(st, reason, fail, emit, box)
    PROVE  ReplayInv'
<1>1. HistoryInv /\ TypeOK
  BY HistoryFacts DEF ReplayInv
<1>2. HistoryInv' /\ History' = History /\ ~Running'
  BY <1>1, FinishHistory
<1>3. rows' = rows /\ run' = [run EXCEPT !.status = st, !.stopReason = reason, !.failure = fail]
  BY DEF Finish
<1>4. NoReplayMismatch'
  BY <1>1, <1>3 DEF TypeOK, NoReplayMismatch
<1> QED BY <1>2, <1>3, <1>4, ReplaySame

LEMMA ContinueReplay ==
    ASSUME ReplayInv, HistoryInv', NEW b \in Branches, Continue(b)
    PROVE  ReplayInv'
<1>1. PICK o : o = Head(inbox)[2]
  OBVIOUS
<1>2. /\ Running /\ inbox # <<>> /\ o \in Outcomes /\ Tail(inbox) \in Seq(Instances \X Outcomes)
      /\ ToldFollows(History, LifeTold, Tail(inbox)) /\ HistoryInv
      /\ \A c \in Branches : pc[c] > 0
      /\ asking[b] = Head(inbox)[1]
  <2>1. /\ Running /\ inbox # <<>> /\ HistoryInv /\ \A c \in Branches : pc[c] > 0
        /\ asking[b] = Head(inbox)[1]
    BY DEF Continue, ReplayInv
  <2>2. ToldFollows(History, LifeTold, inbox) /\ inbox \in Seq(Instances \X Outcomes)
        /\ LifeTold \in Seq(Instances \X Outcomes) /\ PlacesInv
    BY <2>1, HistoryFacts, HistoryType DEF Following
  <2>3. ToldFollows(History, LifeTold, Tail(inbox)) /\ Tail(inbox) \in Seq(Instances \X Outcomes)
    BY <2>1, <2>2, TailFollows
  <2>4. Head(inbox)[2] \in Outcomes
    BY <2>1, <2>2, TakenForOne
  <2> QED BY <1>1, <2>1, <2>3, <2>4
<1>3. PICK q : IsNext(q, b, o)
  BY <1>1, <1>2, AnswerIsNext
<1>4. PlacesInv'
  BY DEF HistoryInv
<1>5. \/ ~(o = "failed" /\ b \in Throwing) /\ pc[b] < Len(Prog[b]) /\ Ask(b, pc[b] + 1, o, Tail(inbox))
      \/ /\ pc[b] = Len(Prog[b]) /\ pc' = [pc EXCEPT ![b] = @ + 1]
         /\ asking' = [asking EXCEPT ![b] = NoInst] /\ inbox' = Tail(inbox)
         /\ UNCHANGED <<rows, events, run, ordinals, actors>>
      \/ Finish("errored", "none", "ScriptError", FALSE, Tail(inbox))
  BY <1>1 DEF Continue, journalVars, askVars
<1>6. CASE ~(o = "failed" /\ b \in Throwing) /\ pc[b] < Len(Prog[b]) /\ Ask(b, pc[b] + 1, o, Tail(inbox))
  BY <1>2, <1>3, <1>4, <1>6, GoOnReplay
<1>7. CASE /\ pc[b] = Len(Prog[b]) /\ pc' = [pc EXCEPT ![b] = @ + 1]
           /\ asking' = [asking EXCEPT ![b] = NoInst] /\ inbox' = Tail(inbox)
           /\ UNCHANGED <<rows, events, run, ordinals, actors>>
  BY <1>2, <1>3, <1>7, EndReplay
<1>8. CASE Finish("errored", "none", "ScriptError", FALSE, Tail(inbox))
  <2>1. "errored" \in RunStatuses \ {"running"} /\ FALSE \in BOOLEAN
    BY DEF RunStatuses
  <2> QED BY <1>2, <1>4, <1>8, <2>1, FinishReplay
<1> QED BY <1>5, <1>6, <1>7, <1>8

LEMMA ScriptReplay ==
    ASSUME ReplayInv, HistoryInv', Script
    PROVE  ReplayInv'
<1>1. HistoryInv /\ PlacesInv'
  BY DEF ReplayInv, HistoryInv
<1>2. CASE ScriptReturns
  <2>1. Running /\ Finish("completed", "none", "none", TRUE, inbox)
    BY <1>2 DEF ScriptReturns
  <2>2. "completed" \in RunStatuses \ {"running"} /\ TRUE \in BOOLEAN
    BY DEF RunStatuses
  <2> QED BY <1>1, <2>1, <2>2, FinishReplay
<1>3. CASE FlushReplay
  <2>1. Running /\ History' = History /\ run' = run /\ Consumed' = Consumed
    BY <1>1, <1>3, FlushHistory
  <2>2. UNCHANGED <<rows, pc, asking, ordinals, actors>>
    BY <1>3 DEF FlushReplay, askVars
  <2>3. SameScript /\ NoReplayMismatch'
    BY <2>1, <2>2 DEF SameScript, ReplayInv, NoReplayMismatch
  <2> QED BY <2>1, <2>2, <2>3, ReplaySame
<1> QED BY <1>1, <1>2, <1>3, StartReplay, ContinueReplay DEF Script

\* A settlement makes the history longer, and changes no call.
LEMMA ReportReplay ==
    ASSUME ReplayInv, PlacesInv', Orderly', NEW a \in Actors, NEW i \in Reached(rows, actors, a),
           actors[a].current = i, i \in Elements(live), NEW o \in {"ok", "failed"}, Settle(i, o), Running,
           UNCHANGED <<run, up, runSettled, gate, pc, asking, ordinals>>
    PROVE  ReplayInv'
<1>1. ReplayComesFirst' /\ HistoryInv
  BY DEF Orderly, ReplayInv
<1>2. /\ HistoryInv' /\ Running' /\ i \in Instances /\ Consumed' = Consumed
      /\ History' = Joined(History, << <<i, o>> >>)
  BY <1>1, SettleHistory
<1>3. /\ OrderInv /\ actors \in [Actors -> Actor] /\ actors[a] \in Actor
      /\ rows \in [Instances -> Row \cup {NoRow}]
  BY <1>1, HistoryFacts DEF TypeOK
<1>4. rows[i].actor = a
  BY <1>3, RowFacts DEF Reached, RowsOf
<1>5. SameAsks(rows, rows')
  <2>1. rows' = [rows EXCEPT ![i].status = RowStatus[o]] /\ turns' \subseteq turns
    BY DEF Settle
  <2> QED BY <1>3, <2>1, SettledInOrder
<1>6. Recorded' = Recorded /\ \A j \in Recorded : rows'[j].hash = rows[j].hash
  <2>1. Recorded' = Rows(rows') /\ Recorded = Rows(rows)
    BY <1>3, RowFacts DEF Recorded, Rows
  <2> QED BY <1>5, <2>1 DEF SameAsks
<1> DEFINE as == [actors EXCEPT ![a] = [actors[a] EXCEPT !.current = NoInst]]
<1>7. Pump(as, activeAsks - 1, Actors, cap)
  BY <1>4 DEF Settle
<1>8. as \in [Actors -> Actor] /\ \A d \in Actors : as[d].pendingLive = actors[d].pendingLive
  BY <1>3 DEF Actor
<1> HIDE DEF as
<1>9. \A d \in Actors : actors'[d].pendingLive = actors[d].pendingLive
  <2>1. \A d \in Actors : SamePlaces(as, d)
    BY <1>7, <1>8, PumpPlaces
  <2> QED BY <1>8, <2>1 DEF SamePlaces
<1>10. SameScript
  BY <1>2, <1>9 DEF SameScript
<1>11. Lengthens(History, rows, History', rows')
  <2>1. PICK H, t : H = History /\ t = << <<i, o>> >>
    OBVIOUS
  <2>2. H \in Seq(Instances \X Outcomes) /\ t \in Seq(Instances \X Outcomes) /\ Len(t) = 1
    <3>1. <<i, o>> \in Instances \X Outcomes
      BY <1>2 DEF Outcomes
    <3> QED BY <1>1, <2>1, <3>1, HistoryType
  <2>3. /\ Len(H) \in Nat /\ Len(Joined(H, t)) = Len(H) + Len(t)
        /\ \A k \in 1..Len(H) : Joined(H, t)[k] = H[k]
    BY ONLY <2>2, JoinedLength, JoinedReads
  <2>4. PICK K : K = History'
    OBVIOUS
  <2>5. Len(K) = Len(H) + 1 /\ \A k \in 1..Len(H) : K[k] = H[k]
    BY <1>2, <2>1, <2>2, <2>3, <2>4
  <2>6. \A k \in 1..Len(H) : rows'[H[k][1]].hash = rows[H[k][1]].hash
    <3>1. IsHistory(H, rows) /\ DOMAIN H = 1..Len(H)
      BY <1>1, <2>1, HistoryFacts
    <3>2. \A k \in 1..Len(H) : H[k][1] \in Rows(rows)
      BY <3>1 DEF IsHistory, SettledRows
    <3> QED BY <1>5, <3>2 DEF SameAsks
  <2>7. Lengthens(H, rows, K, rows')
    BY ONLY <2>3, <2>5, <2>6 DEF Lengthens
  <2> QED BY <2>1, <2>4, <2>7
<1>12. NoReplayMismatch'
  BY DEF NoReplayMismatch, ReplayInv
<1> QED BY <1>2, <1>6, <1>10, <1>11, <1>12, ReplayKept


\* Steps that no one but the driver and the scheduler sees.
LEMMA QuietReplay ==
    ASSUME ReplayInv, HistoryInv', UNCHANGED <<rows, events, up, runSettled, inbox, pc, asking, ordinals>>,
           run'.failure = run.failure, Running => run'.status = run.status,
           \A d \in Actors : SamePlaces(actors, d)
    PROVE  ReplayInv'
<1>1. History' = History /\ LifeTold' = LifeTold
  BY NextHistory, HistoryFacts DEF ReplayInv
<1>2. Running' => Running /\ SameScript
  <2>1. Consumed' = Consumed
    BY <1>1 DEF Consumed
  <2>2. \A d \in Actors : actors'[d].pendingLive = actors[d].pendingLive
    BY DEF SamePlaces
  <2> QED BY <2>1, <2>2 DEF SameScript, Running
<1>3. NoReplayMismatch'
  BY DEF ReplayInv, NoReplayMismatch
<1> QED BY <1>1, <1>2, <1>3, ReplaySame

LEMMA DriverReplay ==
    ASSUME ReplayInv, HistoryInv', Orderly', Driver
    PROVE  ReplayInv'
<1>0. PlacesInv /\ OrderInv /\ TypeOK /\ PlacesInv'
  BY HistoryFacts DEF ReplayInv, HistoryInv
<1>1. ASSUME NEW a \in Actors, NEW s \in {"ready", "broken"}, SessionCreated(a, s)
      PROVE  ReplayInv'
  <2> DEFINE opened == [actors[a] EXCEPT !.session = s]
  <2>1. actors \in [Actors -> Actor] /\ actors[a] \in Actor
    BY <1>0 DEF TypeOK
  <2>2. /\ opened.pendingLive = actors[a].pendingLive
        /\ opened.pendingRecorded = actors[a].pendingRecorded
        /\ opened.nextAdmitSeq = actors[a].nextAdmitSeq
        /\ opened.recordedCount = actors[a].recordedCount
        /\ opened.liveQueue = actors[a].liveQueue /\ opened.current = actors[a].current
    BY <2>1 DEF Actor
  <2>3. actors' = [actors EXCEPT ![a] = opened]
    BY <1>1 DEF SessionCreated
  <2> HIDE DEF opened
  <2>4. \A c \in Actors : SamePlaces(actors, c)
    BY <2>1, <2>2, <2>3 DEF SamePlaces, Admitted, InOrder
  <2>5. UNCHANGED <<rows, events, run, up, runSettled, inbox, pc, asking, ordinals>>
    BY <1>1 DEF SessionCreated, journalVars, scriptVars
  <2> QED BY <2>4, <2>5, QuietReplay
<1>2. ASSUME NEW a \in Actors, Dispatch(a) PROVE ReplayInv'
  <2>1. UNCHANGED <<rows, events, run, up, runSettled, inbox, pc, asking, ordinals, actors>>
    BY <1>2 DEF Dispatch, journalVars, scriptVars
  <2> QED BY <2>1, QuietReplay, SameActors
<1>3. ASSUME NEW a \in Actors, DispatchFails(a) PROVE ReplayInv'
  <2> DEFINE i == actors[a].current
  <2>1. Running /\ i \in Elements(live)
    BY <1>3 DEF DispatchFails, Dispatching
  <2>2. i \in Instances
    BY <1>0, <2>1, ElementsOfSeq DEF TypeOK
  <2>3. i \in Admitted(actors, a)
    BY <2>2, NoInstIsNone DEF Admitted
  <2>4. i \in Reached(rows, actors, a)
    BY <1>0, <2>1, <2>3 DEF OrderInv, Placed, AdmittedAreLive, IsMine, Reached
  <2>5. /\ Settle(i, "failed") /\ actors[a].current = i
        /\ UNCHANGED <<run, up, runSettled, gate, pc, asking, ordinals>>
    BY <1>3 DEF DispatchFails
  <2> HIDE DEF i
  <2> QED BY <1>0, <2>1, <2>4, <2>5, ReportReplay
<1>4. ASSUME NEW i \in started, Reported(i), EngineUnchanged,
             \/ Settle(i, "ok") \/ Settle(i, "failed")
             \/ UNCHANGED <<rows, events, actors, live, activeAsks, inbox, turns>>
      PROVE  ReplayInv'
  <2>1. /\ i \in Elements(live)
        /\ UNCHANGED <<run, up, runSettled, gate, pc, asking, ordinals>>
    BY <1>4 DEF Reported, EngineUnchanged
  <2>2. CASE Settle(i, "ok") \/ Settle(i, "failed")
    <3>1. PICK a \in Actors : Running /\ i \in Reached(rows, actors, a) /\ actors[a].current = i
      BY <1>0, <2>1, StartedPlace
    <3>2. CASE Settle(i, "ok")
      BY <1>0, <2>1, <3>1, <3>2, ReportReplay
    <3>3. CASE Settle(i, "failed")
      BY <1>0, <2>1, <3>1, <3>3, ReportReplay
    <3> QED BY <2>2, <3>2, <3>3
  <2>3. CASE UNCHANGED <<rows, events, actors, live, activeAsks, inbox, turns>>
    BY <2>1, <2>3, QuietReplay, SameActors
  <2> QED BY <1>4, <2>2, <2>3
<1>5. ASSUME NEW i \in started,
             SubmitAccepted(i) \/ SubmitRejected(i) \/ TurnEnded(i) \/ AskFailed(i)
      PROVE  ReplayInv'
  BY <1>4, <1>5 DEF SubmitAccepted, SubmitRejected, TurnEnded, AskFailed
<1> QED BY <1>1, <1>2, <1>3, <1>5 DEF Driver

\* A life that ends keeps what the journal says; the next one starts with it.
LEMMA ResumeReplay ==
    ASSUME ReplayInv, HistoryInv', Resume
    PROVE  ReplayInv'
<1>1. HistoryInv /\ PlacesInv' /\ TypeOK
  BY HistoryFacts DEF ReplayInv, HistoryInv
<1>2. /\ rows' = rows /\ events' = Append(events, RunStarted) /\ inbox' = <<>>
      /\ pc' = [b \in Branches |-> 0] /\ asking' = [b \in Branches |-> NoInst]
      /\ ordinals' = [s \in Sites |-> 0] /\ actors' = BlankActors(RecordedAsks)
      /\ run' = [run EXCEPT !.status = "running", !.stopReason = "none", !.failure = "none"]
  BY Zenon DEF Resume, BlankLife
<1>3. History' = History /\ LifeTold' = <<>>
  <2>1. History = HistoryOf(events)
    BY <1>1, HistoryFacts
  <2>2. PICK w : w = Append(events, RunStarted)
    OBVIOUS
  <2>3. HistoryOf(w) = HistoryOf(events) /\ ToldOf(w) = <<>>
    BY <1>1, <2>2, LogRestarts
  <2> QED BY <1>2, <2>1, <2>2, <2>3, NextHistory
<1>4. NoReplayMismatch'
  BY <1>1, <1>2 DEF TypeOK, NoReplayMismatch
<1>5. \A i \in Recorded' : IsMade(History', rows', i, rows'[i].hash)
  <2>1. Recorded' = Recorded
    BY <1>2 DEF Recorded
  <2>2. PICK H : H = History
    OBVIOUS
  <2>3. \A i \in Recorded : IsMade(H, rows, i, rows[i].hash)
    BY <2>2 DEF ReplayInv
  <2> QED BY <1>2, <1>3, <2>1, <2>2, <2>3
<1>6. Consumed' = 0
  <2>1. PICK e : e = <<>>
    OBVIOUS
  <2>2. Len(e) = 0
    BY <2>1, EmptySeq
  <2> QED BY <1>2, <1>3, <2>1, <2>2 DEF Consumed
<1>7. HasCalledNothing(pc', asking', ordinals', actors')
  BY <1>2 DEF BlankActors, HasCalledNothing
<1>8. PICK H, rx : H = History' /\ rx = rows'
  OBVIOUS
<1>9. /\ StartsInOrder(pc', 0) /\ AskingMatches(asking', pc', rx, actors')
      /\ WaitingAreMade(H, rx, actors') /\ OrdinalsCount(ordinals', H, rx, pc', 0)
  BY <1>7, NoCalls
<1> QED BY <1>4, <1>5, <1>6, <1>8, <1>9 DEF ReplayInv

LEMMA HostReplay ==
    ASSUME ReplayInv, HistoryInv', Orderly', Host
    PROVE  ReplayInv'
<1>0. HistoryInv /\ TypeOK /\ PlacesInv'
  BY HistoryFacts DEF ReplayInv, HistoryInv
<1>1. ASSUME NEW r \in StopReasons, Stop(r) PROVE ReplayInv'
  <2>1. Running /\ Finish("stopped", r, "none", TRUE, inbox)
    BY <1>1 DEF Stop
  <2>2. "stopped" \in RunStatuses \ {"running"} /\ TRUE \in BOOLEAN
    BY DEF RunStatuses
  <2> QED BY <1>0, <2>1, <2>2, FinishReplay
<1>2. ASSUME NEW n \in CapChoices, SetMaxConcurrency(n) PROVE ReplayInv'
  <2>1. \/ Pump(actors, activeAsks, Actors, n)
        \/ UNCHANGED <<actors, activeAsks>>
    BY <1>2 DEF SetMaxConcurrency, Rescan
  <2>2. actors \in [Actors -> Actor] /\ Actors \in SUBSET Actors
    BY <1>0 DEF TypeOK
  <2>3. \A a \in Actors : SamePlaces(actors, a)
    BY <2>1, <2>2, PumpPlaces, SameActors
  <2>4. run'.status = run.status /\ run'.failure = run.failure
    BY <1>0, <1>2 DEF SetMaxConcurrency, TypeOK
  <2>5. UNCHANGED <<rows, events, up, runSettled, inbox, pc, asking, ordinals>>
    BY <1>2 DEF SetMaxConcurrency, scriptVars
  <2> QED BY <2>3, <2>4, <2>5, QuietReplay
<1>3. CASE Crash
  <2>1. UNCHANGED <<rows, events, run>> /\ up' = FALSE
    BY <1>3, Zenon DEF Crash, journalVars
  <2>2. History' = History
    BY <1>0, <2>1, NextHistory, HistoryFacts
  <2>3. ~Running' /\ NoReplayMismatch'
    BY <2>1 DEF ReplayInv, NoReplayMismatch, Running
  <2> QED BY <2>1, <2>2, <2>3, ReplaySame
<1>4. CASE Reconcile
  <2>1. /\ UNCHANGED <<rows, events, up>> /\ ~up
        /\ run' = [run EXCEPT !.status = "stopped", !.stopReason = "interrupted"]
    BY <1>4 DEF Reconcile
  <2>2. History' = History
    BY <1>0, <2>1, NextHistory, HistoryFacts
  <2>3. ~Running' /\ NoReplayMismatch'
    BY <1>0, <2>1 DEF ReplayInv, NoReplayMismatch, Running, TypeOK
  <2> QED BY <2>1, <2>2, <2>3, ReplaySame
<1>5. ASSUME NEW i \in started, NEW o \in {"ok", "failed"}, CrashInSettle(i, o) PROVE FALSE
  BY <1>0, <1>5, TornIsMarked
<1> QED BY <1>1, <1>2, <1>3, <1>4, <1>5, ResumeReplay DEF Host

LEMMA ReplayStep ==
    ASSUME ReplayInv, Orderly', [Next]_vars
    PROVE  ReplayInv'
<1>1. HistoryInv'
  BY HistoryStep DEF ReplayInv
<1>2. CASE UNCHANGED vars
  <2>1. UNCHANGED <<rows, events, run, up, runSettled, inbox, pc, asking, ordinals, actors>>
    BY <1>2 DEF vars, journalVars, askVars, scriptVars
  <2> QED BY <1>1, <2>1, QuietReplay, SameActors
<1> QED BY <1>1, <1>2, ScriptReplay, DriverReplay, HostReplay DEF Next, Over

\* The first life has called nothing.
LEMMA InitReplay == Init => ReplayInv
<1> SUFFICES ASSUME Init PROVE ReplayInv
  OBVIOUS
<1>1. HistoryInv /\ TypeOK
  BY InitHistory, HistoryFacts
<1>2. PICK H : H = History
  OBVIOUS
<1>3. /\ rows = [i \in Instances |-> NoRow] /\ run.failure = "none" /\ inbox = <<>>
      /\ pc = [b \in Branches |-> 0] /\ asking = [b \in Branches |-> NoInst]
      /\ ordinals = [s \in Sites |-> 0] /\ actors = BlankActors(NothingRecorded) /\ Running
  BY DEF Init, Running
<1>4. NoReplayMismatch /\ Recorded = {}
  BY <1>3 DEF NoReplayMismatch, Recorded
<1>5. Consumed = 0
  <2>1. PICK e : e = <<>>
    OBVIOUS
  <2>2. Len(e) = 0
    BY <2>1, EmptySeq
  <2>3. Told = <<>>
    BY InitHistory DEF Durable!Init
  <2>4. LifeTold = <<>>
    BY <1>3, <2>3 DEF Told
  <2> QED BY <1>3, <2>1, <2>2, <2>4 DEF Consumed
<1>6. HasCalledNothing(pc, asking, ordinals, actors)
  BY <1>3 DEF BlankActors, HasCalledNothing
<1>7. /\ StartsInOrder(pc, 0) /\ AskingMatches(asking, pc, rows, actors)
      /\ WaitingAreMade(H, rows, actors) /\ OrdinalsCount(ordinals, H, rows, pc, 0)
  BY <1>6, NoCalls
<1> QED BY <1>1, <1>2, <1>4, <1>5, <1>7 DEF ReplayInv

\* A deterministic script is never told that its inputs changed, unless its journal bears a
\* mark: the causes of its calls, the starts of its branches and the answers of the one
\* history, come in one order in every life, so a call that is numbered again is the call
\* that the journal has (engine.ts admitAsk; docs/execution-engine.md, "Replaying the settle
\* order").
THEOREM NoMismatchOnReplay == Spec => []MismatchIsMarked
<1> DEFINE Inv == PlacesInv /\ (Orderly => ReplayInv)
<1>1. Init => Inv
  BY InitReplay, InitPlaces
<1>2. Inv /\ [Next]_vars => Inv'
  BY PlacesStep, OrderlyBefore, ReplayStep
<1>3. Inv => MismatchIsMarked
  BY DEF ReplayInv, MismatchIsMarked
<1> QED BY <1>1, <1>2, <1>3, PTL DEF Spec
================================================================================
