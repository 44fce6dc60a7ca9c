------------------------ MODULE ConcurrencyGovernorProofs ------------------------
(***************************************************************************)
(* The gate of a provider key, for every number of requests and runs, every  *)
(* bound, every Retry-After and every length of the clock's intervals.       *)
(***************************************************************************)
EXTENDS ConcurrencyGovernor, TLAPS, FiniteSetTheorems, SequenceTheorems, WellFoundedInduction

--------------------------------------------------------------------------------
(* Numbers. *)

LEMMA MaxOfTwo ==
    ASSUME NEW a \in Int, NEW b \in Int
    PROVE  Max({a, b}) = IF a >= b THEN a ELSE b
<1> DEFINE m == IF a >= b THEN a ELSE b
<1>1. m \in {a, b} /\ \A y \in {a, b} : m >= y
  OBVIOUS
<1>2. \A x \in {a, b} : (\A y \in {a, b} : x >= y) => x = m
  OBVIOUS
<1> HIDE DEF m
<1>3. Max({a, b}) = m
  BY <1>1, <1>2 DEF Max
<1> QED BY <1>3 DEF m

LEMMA MinOfTwo ==
    ASSUME NEW a \in Int, NEW b \in Int
    PROVE  Min({a, b}) = IF a <= b THEN a ELSE b
<1> DEFINE m == IF a <= b THEN a ELSE b
<1>1. m \in {a, b} /\ \A y \in {a, b} : m =< y
  OBVIOUS
<1>2. \A x \in {a, b} : (\A y \in {a, b} : x =< y) => x = m
  OBVIOUS
<1> HIDE DEF m
<1>3. Min({a, b}) = m
  BY <1>1, <1>2 DEF Min
<1> QED BY <1>3 DEF m

\* A set of numbers that is not empty has a smallest.
LEMMA SmallestNat ==
    ASSUME NEW T \in SUBSET Nat, T # {}
    PROVE  \E m \in T : \A n \in T : m <= n
<1>1. \E m \in T : \A n \in T : ~(<<n, m>> \in OpToRel(<, Nat))
  BY NatLessThanWellFounded, WFMin
<1>2. PICK m \in T : \A n \in T : ~(<<n, m>> \in OpToRel(<, Nat))
  BY <1>1
<1>3. \A n \in T : m <= n
  <2> TAKE n \in T
  <2>1. ~(n < m)
    BY <1>2 DEF OpToRel
  <2> QED BY <2>1
<1> QED BY <1>3

\* A finite set of numbers that is not empty has a greatest, and Max is it.
Greatest(S, m) == m \in S /\ \A y \in S : m >= y
LEMMA MaxIsGreatest ==
    ASSUME NEW S \in SUBSET Nat, IsFiniteSet(S), S # {}
    PROVE  Max(S) \in Nat /\ Greatest(S, Max(S)) /\ \A m : Greatest(S, m) => m = Max(S)
<1> DEFINE Bad(T)  == T \in SUBSET Nat /\ IsFiniteSet(T) /\ T # {} /\ ~(\E m : Greatest(T, m))
           sizes   == {n \in Nat : \E T : Bad(T) /\ Cardinality(T) = n}
<1>1. sizes = {}
  <2> SUFFICES ASSUME sizes # {} PROVE FALSE
    OBVIOUS
  <2>1. PICK n \in sizes : \A k \in sizes : n <= k
    <3>1. sizes \in SUBSET Nat
      OBVIOUS
    <3> HIDE DEF sizes
    <3> QED BY <3>1, SmallestNat
  <2>2. PICK T : Bad(T) /\ Cardinality(T) = n
    BY <2>1
  <2>3. PICK x \in T : TRUE
    BY <2>2
  <2>4. IsFiniteSet(T \ {x}) /\ Cardinality(T \ {x}) = n - 1 /\ n \in Nat
    BY <2>2, <2>3, FS_RemoveElement, FS_CardinalityType
  <2>5. CASE T \ {x} = {}
    <3>1. Greatest(T, x)
      BY <2>2, <2>3, <2>5 DEF Greatest
    <3> QED BY <2>2, <3>1
  <2>6. CASE T \ {x} # {}
    <3>1. Cardinality(T \ {x}) \in Nat /\ ~(n <= n - 1)
      BY <2>4, FS_CardinalityType
    <3>2. ~Bad(T \ {x})
      BY <2>1, <2>4, <3>1
    <3>3. PICK m : Greatest(T \ {x}, m)
      BY <2>2, <2>4, <2>6, <3>2
    <3>4. x \in Nat /\ m \in Nat
      BY <2>2, <2>3, <3>3 DEF Greatest
    <3>5. CASE m >= x
      <4>1. Greatest(T, m)
        BY <3>3, <3>5 DEF Greatest
      <4> QED BY <2>2, <4>1
    <3>6. CASE x >= m
      <4>1. Greatest(T, x)
        <5> SUFFICES ASSUME NEW y \in T PROVE x >= y
          BY <2>3 DEF Greatest
        <5>1. y \in Nat /\ (y = x \/ m >= y)
          BY <2>2, <3>3 DEF Greatest
        <5> QED BY <3>4, <3>6, <5>1
      <4> QED BY <2>2, <4>1
    <3> QED BY <3>4, <3>5, <3>6
  <2> QED BY <2>5, <2>6
<1>2. \E m : Greatest(S, m)
  <2>1. Cardinality(S) \in Nat
    BY FS_CardinalityType
  <2> QED BY <1>1, <2>1
<1>3. \A m, k : Greatest(S, m) /\ Greatest(S, k) => m = k
  BY DEF Greatest
<1>4. Greatest(S, Max(S))
  BY <1>2 DEF Greatest, Max
<1> QED BY <1>3, <1>4 DEF Greatest
--------------------------------------------------------------------------------
(* The signals of the controller. *)

\* The proven level does not lie above the cap, nor the cap above the limit: an idle key
\* returns to D, and a proof or a fall leaves the cap where it may be.
Sane == {c \in Controllers(Requests) :
            c.lastGood <= c.cap /\ c.cap <= c.growthLimit /\ D <= c.growthLimit}

\* A cap is lowered only with the end of the epoch, and nobody enters the epoch but those
\* let in.
Cautious(c, o, R) ==
    /\ o.current \subseteq c.current \cup R
    /\ o.cap >= c.cap \/ o.current \cap (c.current \ R) = {}

\* A signal that keeps the limit and the waiters and takes k requests out of flight.
Signalled(c, o, k) ==
    /\ o \in Sane /\ Cautious(c, o, {})
    /\ o.inFlight = c.inFlight - k
    /\ o.growthLimit = c.growthLimit /\ o.waiters = c.waiters

LEMMA ConstantsType ==
    /\ D \in Nat /\ D > 0 /\ IncreaseAfter \in Nat /\ IncreaseAfter > 0
    /\ IdleAfter \in Nat /\ IdleAfter > 0
BY ControllerAssumption

\* Whatever is assigned to one field of a controller, if it is of the field's type.
LEMMA FieldType ==
    ASSUME NEW c \in Controllers(Requests)
    PROVE  /\ \A v \in Nat \ {0} : [c EXCEPT !.cap = v] \in Controllers(Requests)
           /\ \A v \in Nat \ {0} : [c EXCEPT !.growthLimit = v] \in Controllers(Requests)
           /\ \A v \in SUBSET Requests : [c EXCEPT !.current = v] \in Controllers(Requests)
           /\ \A v \in Nat : [c EXCEPT !.inFlight = v] \in Controllers(Requests)
           /\ \A v \in Nat : [c EXCEPT !.waiters = v] \in Controllers(Requests)
           /\ \A v \in Nat : [c EXCEPT !.lastGood = v] \in Controllers(Requests)
           /\ \A v \in 0..IncreaseAfter : [c EXCEPT !.streak = v] \in Controllers(Requests)
           /\ \A v \in Nat \cup {Never} : [c EXCEPT !.cooldown = v] \in Controllers(Requests)
           /\ \A v \in 0..IdleAfter \cup {Never} :
                 /\ [c EXCEPT !.requestAge = v] \in Controllers(Requests)
                 /\ [c EXCEPT !.throttledAge = v] \in Controllers(Requests)
BY DEF Controllers

\* What may be assigned always.
LEMMA Resets ==
    /\ D \in Nat \ {0} /\ NoCap = 0 /\ NoCap \in Nat /\ {} \in SUBSET Requests
    /\ 0 \in 0..IncreaseAfter /\ Never \in Nat \cup {Never}
    /\ 0 \in 0..IdleAfter \cup {Never} /\ Never \in 0..IdleAfter \cup {Never}
BY ConstantsType DEF NoCap

LEMMA SaneFields ==
    ASSUME NEW c \in Sane
    PROVE  /\ c \in Controllers(Requests)
           /\ c.cap \in Nat /\ c.cap > 0 /\ c.growthLimit \in Nat /\ c.lastGood \in Nat
           /\ c.inFlight \in Nat /\ c.waiters \in Nat /\ c.current \subseteq Requests
           /\ c.streak \in 0..IncreaseAfter /\ c.cooldown \in Nat \cup {Never}
           /\ c.lastGood <= c.cap /\ c.cap <= c.growthLimit /\ D <= c.growthLimit
BY DEF Sane, Controllers

LEMMA ObserveSignal ==
    ASSUME NEW c \in Sane
    PROVE  Signalled(c, Observe(c), 0)
<1> DEFINE c1 == [c EXCEPT !.cap = D]
           c2 == [c1 EXCEPT !.streak = 0]
           c3 == [c2 EXCEPT !.cooldown = Never]
           c4 == [c3 EXCEPT !.throttledAge = Never]
           c5 == [c4 EXCEPT !.lastGood = NoCap]
           o  == [c5 EXCEPT !.current = {}]
<1>1. Observe(c) \in {c, o}
  BY Zenon DEF Observe
<1>2. Signalled(c, c, 0)
  BY SaneFields DEF Signalled, Cautious
<1>3. /\ o.inFlight = c.inFlight /\ o.growthLimit = c.growthLimit /\ o.waiters = c.waiters
      /\ o.current = {} /\ o.cap = D /\ o.lastGood = NoCap
  BY SaneFields DEF Controllers
<1>4. c1 \in Controllers(Requests)
  BY FieldType, Resets, SaneFields
<1> HIDE DEF c1
<1>5. c2 \in Controllers(Requests)
  BY <1>4, FieldType, Resets
<1> HIDE DEF c2
<1>6. c3 \in Controllers(Requests)
  BY <1>5, FieldType, Resets
<1> HIDE DEF c3
<1>7. c4 \in Controllers(Requests)
  BY <1>6, FieldType, Resets
<1> HIDE DEF c4
<1>8. c5 \in Controllers(Requests)
  BY <1>7, FieldType, Resets
<1> HIDE DEF c5
<1>9. o \in Controllers(Requests)
  BY <1>8, FieldType, Resets
<1> HIDE DEF o
<1>10. Signalled(c, o, 0)
  BY <1>3, <1>9, SaneFields, Resets DEF Signalled, Cautious, Sane
<1> QED BY <1>1, <1>2, <1>10

LEMMA EndedSignal ==
    ASSUME NEW c \in Sane, NEW r \in Requests, c.inFlight > 0
    PROVE  Signalled(c, Ended(c, r), 1) /\ r \notin Ended(c, r).current
<1> DEFINE o  == Observe(c)
           o1 == [o EXCEPT !.inFlight = Max({0, @ - 1})]
           e  == [o1 EXCEPT !.current = @ \ {r}]
<1>1. Signalled(c, o, 0) /\ o \in Sane
  BY ObserveSignal DEF Signalled
<1> HIDE DEF o
<1>2. o.inFlight \in Nat /\ o.inFlight > 0
  BY <1>1, SaneFields DEF Signalled
<1>3. Max({0, o.inFlight - 1}) = o.inFlight - 1 /\ o.inFlight - 1 \in Nat
  <2>1. 0 \in Int /\ o.inFlight - 1 \in Int
    BY <1>2
  <2> QED BY <1>2, <2>1, MaxOfTwo
<1>4. o \in Controllers(Requests)
  BY <1>1, SaneFields
<1>5. /\ e.inFlight = o.inFlight - 1 /\ e.growthLimit = o.growthLimit
      /\ e.waiters = o.waiters /\ e.cap = o.cap /\ e.lastGood = o.lastGood
      /\ e.current = o.current \ {r}
  BY <1>3, <1>4 DEF Controllers
<1>6. o1 \in Controllers(Requests) /\ o1.current = o.current
  <2>1. o1.current = o.current
    BY <1>4 DEF Controllers
  <2> QED BY <1>3, <1>4, <2>1, FieldType
<1>7. o1.current \ {r} \in SUBSET Requests
  BY <1>1, <1>6, SaneFields
<1> HIDE DEF o1
<1>8. e \in Controllers(Requests)
  BY <1>6, <1>7, FieldType
<1>9. Ended(c, r) = e
  BY DEF Ended, o, o1
<1> HIDE DEF e
<1> QED BY <1>1, <1>3, <1>5, <1>8, <1>9, SaneFields DEF Signalled, Cautious, Sane

LEMMA TransientSignal ==
    ASSUME NEW c \in Sane, NEW r \in Requests, c.inFlight > 0
    PROVE  Signalled(c, FailedTransient(c, r), 1)
<1> DEFINE o == Ended(c, r)
           f == [o EXCEPT !.streak = 0]
<1>1. Signalled(c, o, 1) /\ o \in Controllers(Requests)
  BY EndedSignal, SaneFields DEF Signalled
<1>2. FailedTransient(c, r) = f
  BY DEF FailedTransient
<1> HIDE DEF o
<1>3. f \in Controllers(Requests)
  BY <1>1, FieldType, Resets
<1>4. /\ f.inFlight = o.inFlight /\ f.growthLimit = o.growthLimit /\ f.waiters = o.waiters
      /\ f.cap = o.cap /\ f.lastGood = o.lastGood /\ f.current = o.current
  BY <1>1 DEF Controllers
<1> HIDE DEF f
<1> QED BY <1>1, <1>2, <1>3, <1>4 DEF Signalled, Cautious, Sane

\* A change of the other fields on top of a signal.
LEMMA Carried ==
    ASSUME NEW c \in Sane, NEW k \in Int, NEW o, Signalled(c, o, k), NEW f \in Controllers(Requests),
           f.inFlight = o.inFlight, f.growthLimit = o.growthLimit, f.waiters = o.waiters,
           f.lastGood <= f.cap, f.cap <= f.growthLimit,
           f.current \subseteq o.current, f.cap >= o.cap \/ f.current = {}
    PROVE  Signalled(c, f, k)
<1>1. o \in Sane /\ f \in Sane
  BY SaneFields DEF Signalled, Sane
<1>2. o.current \subseteq c.current /\ (o.cap >= c.cap \/ o.current \cap c.current = {})
  BY DEF Signalled, Cautious
<1>3. f.current \subseteq c.current /\ (f.cap >= c.cap \/ f.current \cap c.current = {})
  BY <1>1, <1>2, SaneFields
<1> QED BY <1>1, <1>3 DEF Signalled, Cautious

LEMMA SucceededSignal ==
    ASSUME NEW c \in Sane, NEW r \in Requests, c.inFlight > 0
    PROVE  Signalled(c, Succeeded(c, r), 1)
<1> DEFINE o      == Ended(c, r)
           streak == Min({o.streak + 1, IncreaseAfter})
           best   == Max({o.lastGood, o.cap})
           p1     == [o EXCEPT !.streak = streak]
           proven == [p1 EXCEPT !.lastGood = best]
           higher == Min({proven.growthLimit, proven.cap + 1})
           g1     == [proven EXCEPT !.streak = 0]
           grown  == [g1 EXCEPT !.cap = higher]
           s      == Succeeded(c, r)
<1>1. Signalled(c, o, 1) /\ o \in Sane
  BY EndedSignal DEF Signalled
<1>2. s \in {o, p1, proven} \/ (~(o.cap >= o.growthLimit) /\ s = [proven EXCEPT !.streak = 0, !.cap = Min({o.growthLimit, @ + 1})])
  BY Zenon DEF Succeeded
<1> HIDE DEF o, s
<1>3. /\ o \in Controllers(Requests)
      /\ o.cap \in Nat /\ o.cap > 0 /\ o.growthLimit \in Nat /\ o.lastGood \in Nat
      /\ o.streak \in 0..IncreaseAfter /\ o.lastGood <= o.cap /\ o.cap <= o.growthLimit
  BY <1>1, SaneFields
<1>4. streak \in 0..IncreaseAfter
  <2>1. o.streak + 1 \in Int /\ IncreaseAfter \in Int
    BY <1>3, ConstantsType
  <2> QED BY <1>3, <2>1, ConstantsType, MinOfTwo
<1> HIDE DEF streak
<1>5. best = o.cap
  <2>1. o.lastGood \in Int /\ o.cap \in Int
    BY <1>3
  <2> QED BY <1>3, <2>1, MaxOfTwo
<1> HIDE DEF best
<1>6. /\ p1 \in Controllers(Requests) /\ p1.lastGood = o.lastGood /\ p1.cap = o.cap
      /\ p1.inFlight = o.inFlight /\ p1.growthLimit = o.growthLimit /\ p1.waiters = o.waiters
      /\ p1.current = o.current
  <2>1. p1 \in Controllers(Requests)
    BY <1>3, <1>4, FieldType
  <2> QED BY <1>3, <2>1 DEF Controllers
<1> HIDE DEF p1
<1>7. /\ proven \in Controllers(Requests) /\ proven.lastGood = o.cap /\ proven.cap = o.cap
      /\ proven.inFlight = o.inFlight /\ proven.growthLimit = o.growthLimit
      /\ proven.waiters = o.waiters /\ proven.current = o.current
  <2>1. proven \in Controllers(Requests)
    BY <1>3, <1>5, <1>6, FieldType
  <2> QED BY <1>5, <1>6, <2>1 DEF Controllers
<1>8. s \in {o, p1, proven} \/ (o.cap < o.growthLimit /\ s = grown)
  <2>1. [proven EXCEPT !.streak = 0, !.cap = Min({o.growthLimit, @ + 1})] = [proven EXCEPT !.streak = 0, !.cap = Min({proven.growthLimit, @ + 1})]
    BY <1>7, Zenon
  <2>2. [proven EXCEPT !.streak = 0, !.cap = Min({proven.growthLimit, @ + 1})] = grown
    BY Zenon
  <2>3. ~(o.cap >= o.growthLimit) => o.cap < o.growthLimit
    BY <1>3
  <2> QED BY <1>2, <2>1, <2>2, <2>3 DEF p1
<1> HIDE DEF proven
<1>9. Signalled(c, p1, 1)
  BY <1>1, <1>3, <1>6, Carried
<1>10. Signalled(c, proven, 1)
  BY <1>1, <1>3, <1>7, Carried
<1>11. ASSUME o.cap < o.growthLimit PROVE Signalled(c, grown, 1)
  <2>1. higher = o.cap + 1
    <3>1. o.growthLimit \in Int /\ o.cap + 1 \in Int /\ o.cap + 1 <= o.growthLimit
      BY <1>3, <1>11
    <3>2. Min({o.growthLimit, o.cap + 1}) = IF o.growthLimit <= o.cap + 1 THEN o.growthLimit ELSE o.cap + 1
      BY <3>1, MinOfTwo
    <3> QED BY <1>7, <3>1, <3>2
  <2> HIDE DEF higher
  <2>2. g1 \in Controllers(Requests)
    BY <1>7, FieldType, Resets
  <2>3. higher \in Nat \ {0}
    BY <1>3, <2>1
  <2>4. grown \in Controllers(Requests)
    <3> HIDE DEF g1
    <3> QED BY <2>2, <2>3, FieldType
  <2>5. /\ grown.lastGood = o.cap /\ grown.cap = o.cap + 1 /\ grown.inFlight = o.inFlight
        /\ grown.growthLimit = o.growthLimit /\ grown.waiters = o.waiters
        /\ grown.current = o.current
    BY <1>7, <2>1 DEF Controllers
  <2> HIDE DEF grown
  <2>6. grown.lastGood <= grown.cap /\ grown.cap <= grown.growthLimit /\ grown.cap >= o.cap
    BY <1>3, <1>11, <2>5
  <2> QED BY <1>1, <2>4, <2>5, <2>6, Carried
<1> HIDE DEF grown
<1>12. \/ s = o \/ s = p1 \/ s = proven \/ (o.cap < o.growthLimit /\ s = grown)
  BY <1>8
<1> QED BY <1>1, <1>9, <1>10, <1>11, <1>12 DEF s

LEMMA ThrottledSignal ==
    ASSUME NEW c \in Sane, NEW r \in Requests, c.inFlight > 0, NEW after \in Nat
    PROVE  Signalled(c, Throttled(c, r, after), 1)
<1> DEFINE e    == Ended(c, r)
           cool == IF after > 0 THEN Max({e.cooldown, after}) ELSE e.cooldown
           e1   == [e EXCEPT !.streak = 0]
           e2   == [e1 EXCEPT !.throttledAge = 0]
           o    == [e2 EXCEPT !.cooldown = cool]
           o1   == [o EXCEPT !.current = {}]
           fall == [o1 EXCEPT !.cap = o.lastGood]
           less == Max({Floor, (o.cap * 3) \div 4})
           cut1 == [o1 EXCEPT !.cap = less]
           cut  == [cut1 EXCEPT !.lastGood = NoCap]
           t    == Throttled(c, r, after)
<1>1. Signalled(c, e, 1) /\ e \in Sane
  BY EndedSignal DEF Signalled
<1>3. e \in Controllers(Requests) /\ e.cooldown \in Nat \cup {Never}
  BY <1>1, SaneFields
<1>4. cool \in Nat \cup {Never}
  <2>1. e.cooldown \in Int /\ after \in Int
    BY <1>3 DEF Never
  <2> QED BY <1>3, <2>1, MaxOfTwo
<1>5. o \in Controllers(Requests)
  <2>1. e1 \in Controllers(Requests)
    BY <1>3, FieldType, Resets
  <2> HIDE DEF e1
  <2>2. e2 \in Controllers(Requests)
    BY <2>1, FieldType, Resets
  <2> HIDE DEF e2
  <2> QED BY <1>4, <2>2, FieldType
<1>2. \/ t = o
      \/ o.lastGood # NoCap /\ o.cap > o.lastGood /\ t = fall
      \/ t = cut
  <2> DEFINE u     == [e2 EXCEPT !.cooldown = IF after > 0 THEN Max({@, after}) ELSE @]
             fallU == [u EXCEPT !.current = {}, !.cap = u.lastGood]
             cutU  == [u EXCEPT !.current = {}, !.cap = Max({Floor, (@ * 3) \div 4}), !.lastGood = NoCap]
  <2>1. t = IF r \notin c.current THEN u
            ELSE IF u.lastGood # NoCap /\ u.cap > u.lastGood THEN fallU
            ELSE cutU
    BY DEF Throttled
  <2>2. u = o
    <3>1. e2.cooldown = e.cooldown
      <4> HIDE DEF e
      <4> QED BY <1>3 DEF Controllers
    <3> HIDE DEF e2
    <3> QED BY <3>1
  <2> HIDE DEF u, o
  <2>3. fallU = fall
    BY <2>2, Zenon
  <2>4. cutU = [o1 EXCEPT !.cap = Max({Floor, (@ * 3) \div 4}), !.lastGood = NoCap]
    BY <2>2, Zenon
  <2>5. o1.cap = o.cap
    BY <1>5 DEF Controllers
  <2> HIDE DEF o1
  <2>6. cutU = cut
    BY <2>4, <2>5, Zenon
  <2> HIDE DEF t, fall, cut, fallU, cutU
  <2> QED BY <2>1, <2>2, <2>3, <2>6
<1> HIDE DEF e, t, cool
<1>6. /\ o.inFlight = e.inFlight /\ o.growthLimit = e.growthLimit /\ o.waiters = e.waiters
      /\ o.cap = e.cap /\ o.lastGood = e.lastGood /\ o.current = e.current
  BY <1>3 DEF Controllers
<1> HIDE DEF o
<1>7. Signalled(c, o, 1) /\ o \in Sane
  BY <1>1, <1>5, <1>6, SaneFields, Carried DEF Signalled
<1>8. o1 \in Controllers(Requests)
  BY <1>5, FieldType, Resets
<1>9. ASSUME o.lastGood # NoCap, o.cap > o.lastGood PROVE Signalled(c, fall, 1)
  <2>1. /\ fall.inFlight = o.inFlight /\ fall.growthLimit = o.growthLimit
        /\ fall.waiters = o.waiters /\ fall.cap = o.lastGood /\ fall.lastGood = o.lastGood
        /\ fall.current = {}
    BY <1>5 DEF Controllers
  <2>2. fall \in Controllers(Requests)
    <3>1. o.lastGood \in Nat \ {0}
      BY <1>7, <1>9, SaneFields DEF NoCap
    <3> HIDE DEF o1
    <3> QED BY <1>8, <3>1, FieldType
  <2> HIDE DEF fall
  <2>3. fall.lastGood <= fall.cap /\ fall.cap <= fall.growthLimit
    BY <1>7, <2>1, SaneFields
  <2> QED BY <1>7, <2>1, <2>2, <2>3, Carried
<1>10. less \in Nat \ {0} /\ less <= o.cap
  <2>1. o.cap \in Nat /\ o.cap >= 1
    BY <1>7, SaneFields
  <2>2. PICK q \in Int : q = (o.cap * 3) \div 4 /\ q <= o.cap
    BY ONLY <2>1
  <2>3. Max({1, q}) = IF 1 >= q THEN 1 ELSE q
    BY ONLY <2>2, MaxOfTwo, 1 \in Int
  <2> QED BY <2>1, <2>2, <2>3 DEF Floor
<1>11. Signalled(c, cut, 1)
  <2> HIDE DEF less
  <2>1. /\ cut.inFlight = o.inFlight /\ cut.growthLimit = o.growthLimit
        /\ cut.waiters = o.waiters /\ cut.cap = less /\ cut.lastGood = NoCap
        /\ cut.current = {}
    BY <1>5 DEF Controllers
  <2>2. cut1 \in Controllers(Requests)
    <3> HIDE DEF o1
    <3> QED BY <1>8, <1>10, FieldType
  <2>3. cut \in Controllers(Requests)
    <3> HIDE DEF cut1
    <3> QED BY <2>2, FieldType, Resets
  <2> HIDE DEF cut
  <2>4. cut.lastGood <= cut.cap /\ cut.cap <= cut.growthLimit
    BY <1>7, <1>10, <2>1, SaneFields DEF NoCap
  <2> QED BY <1>7, <2>1, <2>3, <2>4, Carried
<1> HIDE DEF fall, cut
<1> QED BY <1>2, <1>7, <1>9, <1>11 DEF t

\* A refusal of a request that is not of the epoch leaves the cap alone.
LEMMA LateRefusal ==
    ASSUME NEW c \in Sane, NEW r \in Requests, c.inFlight > 0, r \notin c.current
    PROVE  Throttled(c, r, 0).cap = c.cap
<1> DEFINE e == Ended(c, r)
           o == [e EXCEPT !.streak = 0, !.throttledAge = 0,
                          !.cooldown = IF 0 > 0 THEN Max({@, 0}) ELSE @]
<1>1. Throttled(c, r, 0) = o
  BY Zenon DEF Throttled
<1>2. e \in Controllers(Requests)
  BY EndedSignal, SaneFields DEF Signalled
<1>3. e.cap = c.cap
  <2>1. c \in Controllers(Requests) /\ c.inFlight # 0
    BY SaneFields
  <2>2. Observe(c) = c
    BY <2>1 DEF Observe
  <2> QED BY <2>1, <2>2 DEF Ended, Controllers
<1> HIDE DEF e
<1>4. o.cap = e.cap
  BY <1>2 DEF Controllers
<1> QED BY <1>1, <1>3, <1>4 DEF o

\* A new limit: the cap and the proven level come down to it if they must.
LEMMA LimitSignal ==
    ASSUME NEW c \in Sane, NEW limit \in Nat, D <= limit
    PROVE  LET l == SetGrowthLimit(c, limit)
           IN  /\ l \in Sane /\ Cautious(c, l, {}) /\ l.growthLimit = limit
               /\ l.inFlight = c.inFlight /\ l.waiters = c.waiters
<1> DEFINE o  == Observe(c)
           l1 == [o EXCEPT !.growthLimit = limit]
           l2 == [l1 EXCEPT !.cap = limit]
           l3 == [l2 EXCEPT !.lastGood = Min({o.lastGood, limit})]
           l4 == [l3 EXCEPT !.streak = 0]
           l5 == [l4 EXCEPT !.current = {}]
           l  == SetGrowthLimit(c, limit)
<1>1. Signalled(c, o, 0) /\ o \in Sane
  BY ObserveSignal DEF Signalled
<1>2. o \in Controllers(Requests) /\ limit \in Nat \ {0}
  BY <1>1, SaneFields, ConstantsType
<1>3. Max({D, limit}) = limit
  <2>1. D \in Int /\ limit \in Int
    BY ConstantsType
  <2> QED BY <2>1, MaxOfTwo
<1>4. l = IF o.cap <= limit THEN l1
          ELSE [o EXCEPT !.growthLimit = limit, !.cap = limit, !.lastGood = Min({@, limit}),
                         !.streak = 0, !.current = {}]
  BY <1>3 DEF SetGrowthLimit
<1> HIDE DEF o
<1>5. l2.lastGood = o.lastGood
  BY <1>2 DEF Controllers
<1>6. l \in {l1, l5} /\ (l = l1 => o.cap <= limit \/ l1 = l5)
  <2>1. [o EXCEPT !.growthLimit = limit, !.cap = limit, !.lastGood = Min({@, limit}),
                  !.streak = 0, !.current = {}]
        = [l2 EXCEPT !.lastGood = Min({@, limit}), !.streak = 0, !.current = {}]
    BY Zenon
  <2> HIDE DEF l2
  <2>2. [l2 EXCEPT !.lastGood = Min({@, limit}), !.streak = 0, !.current = {}] = l5
    BY <1>5, Zenon
  <2> HIDE DEF l1, l5, l
  <2> QED BY <1>4, <2>1, <2>2
<1> HIDE DEF l
<1>7. l1 \in Controllers(Requests)
  BY <1>2, FieldType
<1>8. l1.cap = o.cap /\ l1.growthLimit = limit /\ l1.lastGood = o.lastGood
      /\ l1.inFlight = o.inFlight /\ l1.waiters = o.waiters /\ l1.current = o.current
  BY <1>2 DEF Controllers
<1>9. Min({o.lastGood, limit}) \in Nat /\ Min({o.lastGood, limit}) <= limit
  <2>1. o.lastGood \in Int /\ o.lastGood \in Nat /\ limit \in Int
    BY <1>1, SaneFields
  <2> QED BY <2>1, MinOfTwo
<1>10. l5.cap = limit /\ l5.growthLimit = limit /\ l5.lastGood = Min({o.lastGood, limit})
       /\ l5.inFlight = o.inFlight /\ l5.waiters = o.waiters /\ l5.current = {}
  BY <1>2 DEF Controllers
<1>11. l5 \in Controllers(Requests)
  <2> HIDE DEF l1
  <2>1. l2 \in Controllers(Requests)
    BY <1>2, <1>7, FieldType
  <2> HIDE DEF l2
  <2>2. l3 \in Controllers(Requests)
    BY <1>9, <2>1, FieldType
  <2> HIDE DEF l3
  <2>3. l4 \in Controllers(Requests)
    BY <2>2, FieldType, Resets
  <2> HIDE DEF l4
  <2> QED BY <2>3, FieldType, Resets
<1> HIDE DEF l1, l5
<1>12. CASE l = l1 /\ o.cap <= limit
  BY <1>1, <1>7, <1>8, <1>12, SaneFields DEF Sane, Signalled, Cautious, l
<1>13. CASE l = l5
  BY <1>1, <1>9, <1>10, <1>11, <1>13, SaneFields DEF Sane, Signalled, Cautious, l
<1> QED BY <1>6, <1>12, <1>13

LEMMA SeedSignal ==
    ASSUME NEW c \in Sane, NEW target \in Nat
    PROVE  Signalled(c, Seed(c, target), 0)
<1> DEFINE o    == Observe(c)
           next == Min({o.growthLimit, target})
           s1   == [o EXCEPT !.cap = next]
           s2   == [s1 EXCEPT !.lastGood = NoCap]
           s3   == [s2 EXCEPT !.streak = 0]
           s4   == [s3 EXCEPT !.current = {}]
           s    == Seed(c, target)
<1>1. Signalled(c, o, 0) /\ o \in Sane
  BY ObserveSignal DEF Signalled
<1>2. s = o \/ (~(next <= o.cap) /\ s = s4)
  <2>1. [o EXCEPT !.cap = next, !.lastGood = NoCap, !.streak = 0, !.current = {}] = s4
    BY Zenon
  <2> HIDE DEF s4
  <2> QED BY <2>1 DEF Seed
<1> HIDE DEF o, s
<1>3. next \in Nat /\ next <= o.growthLimit
  <2>1. o.growthLimit \in Int /\ o.growthLimit \in Nat /\ target \in Int
    BY <1>1, SaneFields
  <2> QED BY <2>1, MinOfTwo
<1> HIDE DEF next
<1>4. ASSUME ~(next <= o.cap) PROVE Signalled(c, s4, 0)
  <2>1. o \in Controllers(Requests) /\ next \in Nat \ {0} /\ next >= o.cap
    BY <1>1, <1>3, <1>4, SaneFields
  <2>2. /\ s4.inFlight = o.inFlight /\ s4.growthLimit = o.growthLimit
        /\ s4.waiters = o.waiters /\ s4.cap = next /\ s4.lastGood = NoCap /\ s4.current = {}
    BY <2>1 DEF Controllers
  <2>3. s1 \in Controllers(Requests)
    BY <2>1, FieldType
  <2> HIDE DEF s1
  <2>4. s2 \in Controllers(Requests)
    BY <2>3, FieldType, Resets
  <2> HIDE DEF s2
  <2>5. s3 \in Controllers(Requests)
    BY <2>4, FieldType, Resets
  <2> HIDE DEF s3
  <2>6. s4 \in Controllers(Requests)
    BY <2>5, FieldType, Resets
  <2> HIDE DEF s4
  <2>7. s4.lastGood <= s4.cap /\ s4.cap <= s4.growthLimit
    BY <1>3, <2>2 DEF NoCap
  <2> QED BY <1>1, <2>2, <2>6, <2>7, Carried
<1> HIDE DEF s4
<1> QED BY <1>1, <1>2, <1>4 DEF s

LEMMA AdmittedSignal ==
    ASSUME NEW c \in Sane, NEW r \in Requests
    PROVE  LET a == Admitted(Observe(c), r)
           IN  /\ a \in Sane /\ Cautious(c, a, {r}) /\ a.inFlight = c.inFlight + 1
               /\ a.growthLimit = c.growthLimit /\ a.waiters = c.waiters
<1> DEFINE o  == Observe(c)
           a1 == [o EXCEPT !.requestAge = 0]
           a2 == [a1 EXCEPT !.inFlight = @ + 1]
           a  == [a2 EXCEPT !.current = @ \cup {r}]
<1>1. Signalled(c, o, 0) /\ o \in Sane
  BY ObserveSignal DEF Signalled
<1>2. Admitted(o, r) = a
  BY Zenon DEF Admitted
<1> HIDE DEF o
<1>3. o \in Controllers(Requests)
  BY <1>1, SaneFields
<1>4. a1.inFlight = o.inFlight /\ a2.current = o.current
  BY <1>3 DEF Controllers
<1>5. /\ a.inFlight = o.inFlight + 1 /\ a.growthLimit = o.growthLimit /\ a.waiters = o.waiters
      /\ a.cap = o.cap /\ a.lastGood = o.lastGood /\ a.current = o.current \cup {r}
  BY <1>3 DEF Controllers
<1>6. o.inFlight + 1 \in Nat /\ o.current \cup {r} \in SUBSET Requests
  BY <1>1, SaneFields
<1>7. a \in Controllers(Requests)
  <2>1. a1 \in Controllers(Requests)
    BY <1>3, FieldType, Resets
  <2> HIDE DEF a1
  <2>2. a2 \in Controllers(Requests)
    BY <1>4, <1>6, <2>1, FieldType
  <2> HIDE DEF a2
  <2> QED BY <1>4, <1>6, <2>2, FieldType
<1> HIDE DEF a
<1>8. a \in Sane
  BY <1>1, <1>5, <1>7, SaneFields DEF Sane
<1>9. Cautious(c, a, {r})
  BY <1>1, <1>5 DEF Signalled, Cautious
<1> QED BY <1>1, <1>2, <1>5, <1>8, <1>9, SaneFields DEF o, Signalled

LEMMA WaitersSignal ==
    ASSUME NEW c \in Sane, NEW n \in Nat
    PROVE  LET w == Waiters(c, n)
           IN  /\ w \in Sane /\ Cautious(c, w, {}) /\ w.inFlight = c.inFlight
               /\ w.growthLimit = c.growthLimit /\ w.waiters = n
<1> DEFINE o == Observe(c)
           w == Waiters(c, n)
<1>1. Signalled(c, o, 0) /\ o \in Sane
  BY ObserveSignal DEF Signalled
<1>2. w = [o EXCEPT !.waiters = n]
  BY DEF Waiters
<1> HIDE DEF o, w
<1>3. o \in Controllers(Requests)
  BY <1>1, SaneFields
<1>4. w \in Controllers(Requests)
  BY <1>2, <1>3, FieldType
<1>5. /\ w.inFlight = o.inFlight /\ w.growthLimit = o.growthLimit /\ w.waiters = n
      /\ w.cap = o.cap /\ w.lastGood = o.lastGood /\ w.current = o.current
  BY <1>2, <1>3 DEF Controllers
<1> QED BY <1>1, <1>4, <1>5, SaneFields DEF Signalled, Cautious, Sane, w

\* Time changes none of it.
LEMMA AgedController ==
    ASSUME NEW c \in Sane
    PROVE  LET a == Aged(c)
           IN  /\ a \in Sane /\ a.inFlight = c.inFlight /\ a.growthLimit = c.growthLimit
               /\ a.waiters = c.waiters /\ a.cap = c.cap /\ a.current = c.current
<1> DEFINE a1 == [c EXCEPT !.cooldown = Sooner(c.cooldown)]
           a2 == [a1 EXCEPT !.requestAge = Older(c.requestAge)]
           a  == [a2 EXCEPT !.throttledAge = Older(c.throttledAge)]
<1>1. c \in Controllers(Requests)
  BY SaneFields
<1>2. Aged(c) = a
  <2>1. a1.requestAge = c.requestAge /\ a2.throttledAge = c.throttledAge
    BY <1>1 DEF Controllers
  <2> QED BY <2>1, Zenon DEF Aged
<1>3. /\ Sooner(c.cooldown) \in Nat \cup {Never}
      /\ Older(c.requestAge) \in 0..IdleAfter \cup {Never}
      /\ Older(c.throttledAge) \in 0..IdleAfter \cup {Never}
  <2>1. /\ c.cooldown \in Nat \cup {Never} /\ c.requestAge \in 0..IdleAfter \cup {Never}
        /\ c.throttledAge \in 0..IdleAfter \cup {Never}
    BY <1>1 DEF Controllers
  <2> QED BY <2>1, ConstantsType DEF Sooner, Older, Never
<1>4. a \in Controllers(Requests)
  <2>1. a1 \in Controllers(Requests)
    BY <1>1, <1>3, FieldType
  <2> HIDE DEF a1
  <2>2. a2 \in Controllers(Requests)
    BY <1>3, <2>1, FieldType
  <2> HIDE DEF a2
  <2> QED BY <1>3, <2>2, FieldType
<1>5. /\ a.inFlight = c.inFlight /\ a.growthLimit = c.growthLimit
      /\ a.waiters = c.waiters /\ a.cap = c.cap /\ a.lastGood = c.lastGood
      /\ a.current = c.current
  BY <1>1 DEF Controllers
<1> HIDE DEF a
<1> QED BY <1>2, <1>4, <1>5, SaneFields DEF Sane
--------------------------------------------------------------------------------
(* The queues. *)

Entry  == [run : Runs, waiting : Seq(Requests)]
Queues == Seq(Entry)

\* No entry is empty, a run has one entry, which holds requests of the run, and nobody
\* waits in two places.
QueuesWell(q) ==
    /\ \A n \in DOMAIN q : q[n].waiting # <<>>
    /\ \A m, n \in DOMAIN q : q[m].run = q[n].run => m = n
    /\ \A n \in DOMAIN q : \A i \in DOMAIN q[n].waiting : RunOf[q[n].waiting[i]] = q[n].run
    /\ \A n \in DOMAIN q : \A i, j \in DOMAIN q[n].waiting :
          q[n].waiting[i] = q[n].waiting[j] => i = j

Queued(q, r) == \E n \in DOMAIN q : \E i \in DOMAIN q[n].waiting : q[n].waiting[i] = r
Ahead(q, r, s) ==
    \E n \in DOMAIN q : \E i, j \in DOMAIN q[n].waiting :
        i < j /\ q[n].waiting[i] = r /\ q[n].waiting[j] = s

LEMMA QueueFacts ==
    ASSUME NEW q \in Queues
    PROVE  /\ Len(q) \in Nat /\ DOMAIN q = 1..Len(q)
           /\ \A n \in 1..Len(q) :
                 /\ q[n] \in Entry /\ q[n].run \in Runs /\ q[n].waiting \in Seq(Requests)
                 /\ Len(q[n].waiting) \in Nat
                 /\ DOMAIN q[n].waiting = 1..Len(q[n].waiting)
                 /\ \A i \in 1..Len(q[n].waiting) : q[n].waiting[i] \in Requests
<1>1. Len(q) \in Nat /\ DOMAIN q = 1..Len(q)
  BY LenProperties DEF Queues
<1>2. ASSUME NEW n \in 1..Len(q)
      PROVE  q[n] \in Entry /\ q[n].run \in Runs /\ q[n].waiting \in Seq(Requests)
  <2>1. q[n] \in Entry
    BY ElementOfSeq DEF Queues
  <2> QED BY <2>1 DEF Entry
<1>3. ASSUME NEW n \in 1..Len(q)
      PROVE  /\ Len(q[n].waiting) \in Nat /\ DOMAIN q[n].waiting = 1..Len(q[n].waiting)
             /\ \A i \in 1..Len(q[n].waiting) : q[n].waiting[i] \in Requests
  BY <1>2, LenProperties, ElementOfSeq
<1> QED BY <1>1, <1>2, <1>3

LEMMA WaitingIsQueued ==
    ASSUME NEW b \in Buckets
    PROVE  /\ b.queues \in Queues
           /\ \A r : r \in Waiting(b) <=> Queued(b.queues, r)
           /\ Waiting(b) \subseteq Requests
           /\ \A r, s : Before(b, r, s) <=> Ahead(b.queues, r, s)
<1>1. b.queues \in Queues
  BY DEF Buckets, Queues, Entry
<1>2. \A r : r \in Waiting(b) <=> Queued(b.queues, r)
  BY DEF Waiting, ToSet, Queued
<1>3. Waiting(b) \subseteq Requests
  BY <1>1, <1>2, QueueFacts DEF Queued
<1>4. \A r, s : Before(b, r, s) <=> Ahead(b.queues, r, s)
  BY DEF Before, Ahead
<1> QED BY <1>1, <1>2, <1>3, <1>4

\* In a well-kept queue a request has one place.
LEMMA OnePlace ==
    ASSUME NEW q \in Queues, QueuesWell(q), NEW m \in DOMAIN q, NEW n \in DOMAIN q,
           NEW i \in DOMAIN q[m].waiting, NEW j \in DOMAIN q[n].waiting,
           q[m].waiting[i] = q[n].waiting[j]
    PROVE  m = n /\ i = j
<1>1. m = n
  BY DEF QueuesWell
<1> QED BY <1>1 DEF QueuesWell

\* splice() and shift(): all but one element stay, in their order.
LEMMA RemovedAt ==
    ASSUME NEW S, NEW q \in Seq(S), NEW p \in 1..Len(q)
    PROVE  LET w == RemoveAt(q, p)
           IN  /\ w \in Seq(S) /\ Len(w) = Len(q) - 1 /\ DOMAIN w = 1..(Len(q) - 1)
               /\ \A j \in 1..(Len(q) - 1) : w[j] = q[IF j < p THEN j ELSE j + 1]
<1> DEFINE w == RemoveAt(q, p)
<1>1. Len(q) \in Nat /\ Len(q) >= 1 /\ p \in Int /\ \A i \in 1..Len(q) : q[i] \in S
  <2>1. Len(q) \in Nat /\ \A i \in 1..Len(q) : q[i] \in S
    BY LenProperties, ElementOfSeq
  <2> QED BY <2>1
<1> DEFINE front == SubSeq(q, 1, p - 1)
           back  == SubSeq(q, p + 1, Len(q))
<1>2. w = front \o back
  BY DEF RemoveAt
<1> HIDE DEF w
<1>3. /\ front \in Seq(S) /\ Len(front) = p - 1
      /\ \A j \in 1..(p - 1) : front[j] = q[j]
  <2>1. \A i \in 1..(p - 1) : q[i] \in S
    BY <1>1
  <2> QED BY <1>1, <2>1, SubSeqProperties
<1>4. /\ back \in Seq(S) /\ Len(back) = Len(q) - p
      /\ \A j \in 1..(Len(q) - p) : back[j] = q[p + j]
  <2>1. \A i \in (p + 1)..Len(q) : q[i] \in S
    BY <1>1
  <2> QED BY <1>1, <2>1, SubSeqProperties
<1> HIDE DEF front, back
<1>5. /\ w \in Seq(S) /\ Len(w) = Len(q) - 1
      /\ \A j \in 1..(Len(q) - 1) : w[j] = IF j <= p - 1 THEN front[j] ELSE back[j - (p - 1)]
  <2>1. Len(front) + Len(back) = Len(q) - 1
    BY <1>1, <1>3, <1>4
  <2>2. /\ front \o back \in Seq(S)
        /\ Len(front \o back) = Len(front) + Len(back)
        /\ \A i \in 1 .. Len(front) + Len(back) :
              (front \o back)[i] = IF i <= Len(front) THEN front[i] ELSE back[i - Len(front)]
    BY <1>3, <1>4, ConcatProperties
  <2> QED BY <1>2, <1>3, <2>1, <2>2
<1>6. ASSUME NEW j \in 1..(Len(q) - 1)
      PROVE  w[j] = q[IF j < p THEN j ELSE j + 1]
  <2>1. CASE j < p
    BY <1>1, <1>3, <1>5, <2>1
  <2>2. CASE j >= p
    <3>1. j - (p - 1) \in 1..(Len(q) - p) /\ p + (j - (p - 1)) = j + 1
      BY <1>1, <2>2
    <3> QED BY <1>1, <1>4, <1>5, <2>2, <3>1
  <2> QED BY <1>1, <2>1, <2>2
<1> QED BY <1>5, <1>6, LenProperties DEF w

\* What is left when r has left.
Left(q, q2, r) ==
    /\ q2 \in Queues /\ QueuesWell(q2)
    /\ \A s : Queued(q2, s) <=> Queued(q, s) /\ s # r
    /\ \A s, t : Ahead(q2, s, t) => Ahead(q, s, t)

LEMMA EntryLeaves ==
    ASSUME NEW q \in Queues, QueuesWell(q), NEW n \in DOMAIN q, Len(q[n].waiting) = 1
    PROVE  Left(q, RemoveAt(q, n), q[n].waiting[1])
<1> DEFINE q2    == RemoveAt(q, n)
           at(j) == IF j < n THEN j ELSE j + 1
           r     == q[n].waiting[1]
<1>1. Len(q) \in Nat /\ DOMAIN q = 1..Len(q) /\ n \in 1..Len(q) /\ DOMAIN q[n].waiting = 1..1
  BY QueueFacts
<1>2. /\ q2 \in Queues /\ Len(q2) = Len(q) - 1 /\ DOMAIN q2 = 1..(Len(q) - 1)
      /\ \A j \in 1..(Len(q) - 1) : q2[j] = q[at(j)]
  BY <1>1, RemovedAt DEF Queues
<1> HIDE DEF q2
<1>3. /\ \A j \in 1..(Len(q) - 1) : at(j) \in 1..Len(q) /\ at(j) # n
      /\ \A j, k \in 1..(Len(q) - 1) : at(j) = at(k) => j = k
  BY <1>1
<1>4. \A m \in 1..Len(q) : m # n => \E j \in 1..(Len(q) - 1) : at(j) = m
  <2> SUFFICES ASSUME NEW m \in 1..Len(q), m # n PROVE \E j \in 1..(Len(q) - 1) : at(j) = m
    OBVIOUS
  <2>1. CASE m < n
    <3>1. m \in 1..(Len(q) - 1) /\ at(m) = m
      BY <1>1, <2>1
    <3> HIDE DEF at
    <3> QED BY <3>1
  <2>2. CASE m > n
    <3>1. m - 1 \in 1..(Len(q) - 1) /\ at(m - 1) = m
      BY <1>1, <2>2
    <3> HIDE DEF at
    <3> QED BY <3>1
  <2> QED BY <1>1, <2>1, <2>2
<1> HIDE DEF at
<1>5. QueuesWell(q2)
  <2>1. \A m \in DOMAIN q2 : q2[m].waiting # <<>>
    BY <1>1, <1>2, <1>3 DEF QueuesWell
  <2>2. \A m, k \in DOMAIN q2 : q2[m].run = q2[k].run => m = k
    BY <1>1, <1>2, <1>3 DEF QueuesWell
  <2>3. \A m \in DOMAIN q2 : \A i \in DOMAIN q2[m].waiting : RunOf[q2[m].waiting[i]] = q2[m].run
    BY <1>1, <1>2, <1>3 DEF QueuesWell
  <2>4. \A m \in DOMAIN q2 : \A i, j \in DOMAIN q2[m].waiting :
            q2[m].waiting[i] = q2[m].waiting[j] => i = j
    BY <1>1, <1>2, <1>3 DEF QueuesWell
  <2> QED BY <2>1, <2>2, <2>3, <2>4 DEF QueuesWell
<1>6. ASSUME NEW s, Queued(q2, s) PROVE Queued(q, s) /\ s # r
  <2>1. PICK m \in DOMAIN q2 : \E i \in DOMAIN q2[m].waiting : q2[m].waiting[i] = s
    BY <1>6 DEF Queued
  <2>2. PICK i \in DOMAIN q2[m].waiting : q2[m].waiting[i] = s
    BY <2>1
  <2>3. at(m) \in DOMAIN q /\ at(m) # n /\ i \in DOMAIN q[at(m)].waiting /\ q[at(m)].waiting[i] = s
    BY <1>1, <1>2, <1>3, <2>2
  <2>4. Queued(q, s)
    BY <2>3 DEF Queued
  <2>5. s # r
    <3>1. 1 \in DOMAIN q[n].waiting
      BY <1>1
    <3> QED BY <2>3, <3>1, OnePlace
  <2> QED BY <2>4, <2>5
<1>7. ASSUME NEW s, Queued(q, s), s # r PROVE Queued(q2, s)
  <2>1. PICK m \in DOMAIN q : \E i \in DOMAIN q[m].waiting : q[m].waiting[i] = s
    BY <1>7 DEF Queued
  <2>2. PICK i \in DOMAIN q[m].waiting : q[m].waiting[i] = s
    BY <2>1
  <2>3. m # n
    <3>1. m = n => i = 1
      BY <1>1, <2>2
    <3> QED BY <1>7, <2>2, <3>1
  <2>4. PICK j \in 1..(Len(q) - 1) : at(j) = m
    BY <1>1, <1>4, <2>3
  <2>5. j \in DOMAIN q2 /\ i \in DOMAIN q2[j].waiting /\ q2[j].waiting[i] = s
    BY <1>2, <2>2, <2>4
  <2> QED BY <2>5 DEF Queued
<1>8. ASSUME NEW s, NEW t, Ahead(q2, s, t) PROVE Ahead(q, s, t)
  <2>1. PICK m \in DOMAIN q2 : \E i, j \in DOMAIN q2[m].waiting :
            i < j /\ q2[m].waiting[i] = s /\ q2[m].waiting[j] = t
    BY <1>8 DEF Ahead
  <2>2. at(m) \in DOMAIN q /\ q2[m] = q[at(m)]
    BY <1>1, <1>2, <1>3
  <2> QED BY <2>1, <2>2 DEF Ahead
<1> QED BY <1>2, <1>5, <1>6, <1>7, <1>8 DEF Left, q2

LEMMA PlaceLeaves ==
    ASSUME NEW q \in Queues, QueuesWell(q), NEW n \in DOMAIN q, NEW p \in DOMAIN q[n].waiting,
           Len(q[n].waiting) # 1
    PROVE  Left(q, [q EXCEPT ![n].waiting = RemoveAt(@, p)], q[n].waiting[p])
<1> DEFINE w     == q[n].waiting
           v     == RemoveAt(w, p)
           e     == [q[n] EXCEPT !.waiting = v]
           q2    == [q EXCEPT ![n] = e]
           at(j) == IF j < p THEN j ELSE j + 1
           r     == w[p]
<1>0. [q EXCEPT ![n].waiting = RemoveAt(@, p)] = q2
  OBVIOUS
<1>1. /\ Len(q) \in Nat /\ DOMAIN q = 1..Len(q) /\ n \in 1..Len(q) /\ q[n] \in Entry
      /\ w \in Seq(Requests) /\ Len(w) \in Nat /\ DOMAIN w = 1..Len(w) /\ p \in 1..Len(w)
  BY QueueFacts
<1>2. Len(w) >= 2
  <2>1. Len(w) # 1
    OBVIOUS
  <2> HIDE DEF w
  <2> QED BY ONLY <1>1, <2>1
<1>3. /\ v \in Seq(Requests) /\ Len(v) = Len(w) - 1 /\ DOMAIN v = 1..(Len(w) - 1)
      /\ \A j \in 1..(Len(w) - 1) : v[j] = w[at(j)]
  BY <1>1, RemovedAt
<1> HIDE DEF v
<1>4. e \in Entry /\ e.run = q[n].run /\ e.waiting = v
  BY <1>1, <1>3 DEF Entry
<1> HIDE DEF e
<1>5. /\ q2 \in Queues /\ DOMAIN q2 = DOMAIN q
      /\ \A m \in DOMAIN q : q2[m] = IF m = n THEN e ELSE q[m]
  <2>1. q \in Seq(Entry)
    BY DEF Queues
  <2> QED BY <1>1, <1>4, <2>1, ExceptSeq DEF Queues
<1> HIDE DEF q2
<1>6. /\ \A j \in DOMAIN v : at(j) \in DOMAIN w /\ at(j) # p
      /\ \A j, k \in DOMAIN v : (at(j) = at(k) => j = k) /\ (j < k => at(j) < at(k))
  BY <1>1, <1>2, <1>3
<1>7. \A m \in DOMAIN w : m # p => \E j \in DOMAIN v : at(j) = m
  <2> SUFFICES ASSUME NEW m \in 1..Len(w), m # p PROVE \E j \in 1..(Len(w) - 1) : at(j) = m
    BY <1>1, <1>3
  <2>1. CASE m < p
    <3>1. m \in 1..(Len(w) - 1) /\ at(m) = m
      BY <1>1, <2>1
    <3> HIDE DEF at
    <3> QED BY <3>1
  <2>2. CASE m > p
    <3>1. m - 1 \in 1..(Len(w) - 1) /\ at(m - 1) = m
      BY <1>1, <2>2
    <3> HIDE DEF at
    <3> QED BY <3>1
  <2> QED BY <1>1, <2>1, <2>2
<1>8. \A j \in DOMAIN v : v[j] = w[at(j)]
  BY <1>3
<1>9. v # <<>>
  <2>1. Len(v) # 0
    BY <1>2, <1>3
  <2> QED BY <2>1, EmptySeq
<1>10. w = q[n].waiting
  OBVIOUS
<1> HIDE DEF at, w
<1>11. QueuesWell(q2)
  <2>1. \A m \in DOMAIN q2 : q2[m].waiting # <<>>
    BY <1>4, <1>5, <1>9 DEF QueuesWell
  <2>2. \A m, k \in DOMAIN q2 : q2[m].run = q2[k].run => m = k
    BY <1>4, <1>5 DEF QueuesWell
  <2>3. \A m \in DOMAIN q2 : \A i \in DOMAIN q2[m].waiting : RunOf[q2[m].waiting[i]] = q2[m].run
    <3> SUFFICES ASSUME NEW m \in DOMAIN q2, NEW i \in DOMAIN q2[m].waiting
                 PROVE  RunOf[q2[m].waiting[i]] = q2[m].run
      OBVIOUS
    <3>1. CASE m # n
      BY <1>5, <3>1 DEF QueuesWell
    <3>2. CASE m = n
      BY <1>4, <1>5, <1>6, <1>8, <1>10, <3>2 DEF QueuesWell
    <3> QED BY <3>1, <3>2
  <2>4. \A m \in DOMAIN q2 : \A i, j \in DOMAIN q2[m].waiting :
            q2[m].waiting[i] = q2[m].waiting[j] => i = j
    <3> SUFFICES ASSUME NEW m \in DOMAIN q2, NEW i \in DOMAIN q2[m].waiting,
                        NEW j \in DOMAIN q2[m].waiting, q2[m].waiting[i] = q2[m].waiting[j]
                 PROVE  i = j
      OBVIOUS
    <3>1. CASE m # n
      BY <1>5, <3>1 DEF QueuesWell
    <3>2. CASE m = n
      BY <1>4, <1>5, <1>6, <1>8, <1>10, <3>2 DEF QueuesWell
    <3> QED BY <3>1, <3>2
  <2> QED BY <2>1, <2>2, <2>3, <2>4 DEF QueuesWell
<1>12. ASSUME NEW s, Queued(q2, s) PROVE Queued(q, s) /\ s # r
  <2>1. PICK m \in DOMAIN q2 : \E i \in DOMAIN q2[m].waiting : q2[m].waiting[i] = s
    BY <1>12 DEF Queued
  <2>2. PICK i \in DOMAIN q2[m].waiting : q2[m].waiting[i] = s
    BY <2>1
  <2>3. PICK j \in DOMAIN q[m].waiting : q[m].waiting[j] = s /\ (m = n => j # p)
    <3>1. CASE m # n
      BY <1>5, <2>2, <3>1
    <3>2. CASE m = n
      <4>1. at(i) \in DOMAIN w /\ at(i) # p /\ w[at(i)] = s
        BY <1>4, <1>5, <1>6, <1>8, <2>2, <3>2
      <4> QED BY <1>10, <3>2, <4>1
    <3> QED BY <3>1, <3>2
  <2>4. m \in DOMAIN q
    BY <1>5
  <2>5. s # r
    <3>1. q[n].waiting[p] = r
      BY <1>10
    <3> QED BY <2>3, <2>4, <3>1, OnePlace
  <2> QED BY <2>3, <2>4, <2>5 DEF Queued
<1>13. ASSUME NEW s, Queued(q, s), s # r PROVE Queued(q2, s)
  <2>1. PICK m \in DOMAIN q : \E i \in DOMAIN q[m].waiting : q[m].waiting[i] = s
    BY <1>13 DEF Queued
  <2>2. PICK i \in DOMAIN q[m].waiting : q[m].waiting[i] = s
    BY <2>1
  <2>3. CASE m # n
    BY <1>5, <2>2, <2>3 DEF Queued
  <2>4. CASE m = n
    <3>1. i \in DOMAIN w /\ w[i] = s /\ i # p
      BY <1>10, <1>13, <2>2, <2>4
    <3>2. PICK j \in DOMAIN v : at(j) = i
      BY <1>7, <3>1
    <3>3. n \in DOMAIN q2 /\ q2[n].waiting = v /\ v[j] = s
      BY <1>4, <1>5, <1>8, <3>1, <3>2
    <3> QED BY <3>2, <3>3 DEF Queued
  <2> QED BY <2>3, <2>4
<1>14. ASSUME NEW s, NEW t, Ahead(q2, s, t) PROVE Ahead(q, s, t)
  <2>1. PICK m \in DOMAIN q2 : \E i, j \in DOMAIN q2[m].waiting :
            i < j /\ q2[m].waiting[i] = s /\ q2[m].waiting[j] = t
    BY <1>14 DEF Ahead
  <2>2. PICK i \in DOMAIN q2[m].waiting, j \in DOMAIN q2[m].waiting :
            i < j /\ q2[m].waiting[i] = s /\ q2[m].waiting[j] = t
    BY <2>1
  <2>3. CASE m # n
    BY <1>5, <2>2, <2>3 DEF Ahead
  <2>4. CASE m = n
    <3>1. /\ at(i) \in DOMAIN w /\ at(j) \in DOMAIN w /\ at(i) < at(j)
          /\ w[at(i)] = s /\ w[at(j)] = t
      BY <1>4, <1>5, <1>6, <1>8, <2>2, <2>4
    <3> QED BY <1>10, <3>1 DEF Ahead
  <2> QED BY <2>3, <2>4
<1>15. Left(q, q2, r)
  BY <1>5, <1>11, <1>12, <1>13, <1>14 DEF Left
<1> QED BY <1>15, <1>0, <1>10

\* What is there when r has joined: r is behind its run's other requests.
Joined(q, q2, r) ==
    /\ q2 \in Queues /\ QueuesWell(q2)
    /\ \A s : Queued(q2, s) <=> Queued(q, s) \/ s = r
    /\ \A s, t : Ahead(q2, s, t) => s # r /\ (t = r \/ Ahead(q, s, t))

LEMMA EntryJoins ==
    ASSUME NEW q \in Queues, QueuesWell(q), NEW r \in Requests, RunOf[r] \in Runs,
           \A n \in DOMAIN q : q[n].run # RunOf[r]
    PROVE  Joined(q, Append(q, [run |-> RunOf[r], waiting |-> <<r>>]), r)
<1> DEFINE e  == [run |-> RunOf[r], waiting |-> <<r>>]
           q2 == Append(q, e)
           l  == Len(q) + 1
<1>1. Len(q) \in Nat /\ DOMAIN q = 1..Len(q)
  BY QueueFacts
<1>2. /\ e \in Entry /\ e.run = RunOf[r] /\ e.waiting # <<>>
      /\ DOMAIN e.waiting = {1} /\ e.waiting[1] = r
  <2>1. <<r>> \in Seq(Requests) /\ <<r>> # <<>> /\ DOMAIN <<r>> = {1} /\ <<r>>[1] = r
    OBVIOUS
  <2> QED BY <2>1 DEF Entry
<1> HIDE DEF e
<1>3. /\ q2 \in Queues /\ DOMAIN q2 = 1..l
      /\ \A n \in DOMAIN q : q2[n] = q[n]
      /\ q2[l] = e
  <2>1. /\ q2 \in Seq(Entry) /\ Len(q2) = Len(q) + 1
        /\ \A n \in 1..Len(q) : q2[n] = q[n]
        /\ q2[Len(q) + 1] = e
    BY <1>2, AppendProperties DEF Queues
  <2> HIDE DEF q2
  <2> QED BY <1>1, <2>1, LenProperties DEF Queues
<1>4. /\ \A n : n \in DOMAIN q2 <=> n \in DOMAIN q \/ n = l
      /\ l \notin DOMAIN q
  BY <1>1, <1>3
<1> HIDE DEF q2, l
<1>5. QueuesWell(q2)
  <2>1. \A m \in DOMAIN q2 : q2[m].waiting # <<>>
    BY <1>2, <1>3, <1>4 DEF QueuesWell
  <2>2. \A m, k \in DOMAIN q2 : q2[m].run = q2[k].run => m = k
    BY <1>2, <1>3, <1>4 DEF QueuesWell
  <2>3. \A m \in DOMAIN q2 : \A i \in DOMAIN q2[m].waiting : RunOf[q2[m].waiting[i]] = q2[m].run
    BY <1>2, <1>3, <1>4 DEF QueuesWell
  <2>4. \A m \in DOMAIN q2 : \A i, j \in DOMAIN q2[m].waiting :
            q2[m].waiting[i] = q2[m].waiting[j] => i = j
    BY <1>2, <1>3, <1>4 DEF QueuesWell
  <2> QED BY <2>1, <2>2, <2>3, <2>4 DEF QueuesWell
<1>6. \A s : Queued(q2, s) <=> Queued(q, s) \/ s = r
  BY <1>2, <1>3, <1>4 DEF Queued
<1>7. ASSUME NEW s, NEW t, Ahead(q2, s, t) PROVE s # r /\ Ahead(q, s, t)
  <2>1. PICK m \in DOMAIN q2 : \E i, j \in DOMAIN q2[m].waiting :
            i < j /\ q2[m].waiting[i] = s /\ q2[m].waiting[j] = t
    BY <1>7 DEF Ahead
  <2>2. PICK i \in DOMAIN q2[m].waiting, j \in DOMAIN q2[m].waiting :
            i < j /\ q2[m].waiting[i] = s /\ q2[m].waiting[j] = t
    BY <2>1
  <2>3. m \in DOMAIN q /\ q2[m] = q[m]
    <3>1. m # l
      <4> SUFFICES ASSUME m = l PROVE FALSE
        OBVIOUS
      <4>1. i = 1 /\ j = 1
        BY <1>2, <1>3, <2>2
      <4> QED BY <2>2, <4>1
    <3> QED BY <1>3, <1>4, <3>1
  <2>4. Ahead(q, s, t)
    BY <2>2, <2>3 DEF Ahead
  <2>5. RunOf[s] = q[m].run
    BY <2>2, <2>3 DEF QueuesWell
  <2> QED BY <2>3, <2>4, <2>5
<1> QED BY <1>3, <1>5, <1>6, <1>7 DEF Joined, q2, e

LEMMA PlaceJoins ==
    ASSUME NEW q \in Queues, QueuesWell(q), NEW r \in Requests, ~Queued(q, r),
           NEW n \in DOMAIN q, q[n].run = RunOf[r]
    PROVE  Joined(q, [q EXCEPT ![n].waiting = Append(@, r)], r)
<1> DEFINE w  == q[n].waiting
           v  == Append(w, r)
           e  == [q[n] EXCEPT !.waiting = v]
           q2 == [q EXCEPT ![n] = e]
           l  == Len(w) + 1
<1>0. [q EXCEPT ![n].waiting = Append(@, r)] = q2
  OBVIOUS
<1>1. /\ Len(q) \in Nat /\ DOMAIN q = 1..Len(q) /\ n \in 1..Len(q) /\ q[n] \in Entry
      /\ w \in Seq(Requests) /\ Len(w) \in Nat /\ DOMAIN w = 1..Len(w)
  BY QueueFacts
<1> HIDE DEF w
<1>2. /\ v \in Seq(Requests) /\ DOMAIN v = 1..l /\ v # <<>>
      /\ \A i \in DOMAIN w : v[i] = w[i]
      /\ v[l] = r
  <2>1. /\ v \in Seq(Requests) /\ Len(v) = Len(w) + 1 /\ v # <<>>
        /\ \A i \in 1..Len(w) : v[i] = w[i]
        /\ v[Len(w) + 1] = r
    BY <1>1, AppendProperties
  <2> HIDE DEF v
  <2> QED BY <1>1, <2>1, LenProperties
<1>3. /\ \A i : i \in DOMAIN v <=> i \in DOMAIN w \/ i = l
      /\ l \notin DOMAIN w /\ \A i \in DOMAIN v : i <= l
  BY <1>1, <1>2
<1> HIDE DEF v, l
<1>4. e \in Entry /\ e.run = q[n].run /\ e.waiting = v
  BY <1>1, <1>2 DEF Entry
<1> HIDE DEF e
<1>5. /\ q2 \in Queues /\ DOMAIN q2 = DOMAIN q
      /\ \A m \in DOMAIN q : q2[m] = IF m = n THEN e ELSE q[m]
  <2>1. q \in Seq(Entry)
    BY DEF Queues
  <2> QED BY <1>1, <1>4, <2>1, ExceptSeq DEF Queues
<1> HIDE DEF q2
<1>6. \A i \in DOMAIN w : w[i] # r /\ RunOf[w[i]] = RunOf[r]
  BY DEF Queued, QueuesWell, w
<1>7. \A i, j \in DOMAIN w : w[i] = w[j] => i = j
  BY DEF QueuesWell, w
<1>8. QueuesWell(q2)
  <2>1. \A m \in DOMAIN q2 : q2[m].waiting # <<>>
    BY <1>2, <1>4, <1>5 DEF QueuesWell
  <2>2. \A m, k \in DOMAIN q2 : q2[m].run = q2[k].run => m = k
    BY <1>4, <1>5 DEF QueuesWell
  <2>3. \A m \in DOMAIN q2 : \A i \in DOMAIN q2[m].waiting : RunOf[q2[m].waiting[i]] = q2[m].run
    <3> SUFFICES ASSUME NEW m \in DOMAIN q2, NEW i \in DOMAIN q2[m].waiting
                 PROVE  RunOf[q2[m].waiting[i]] = q2[m].run
      OBVIOUS
    <3>1. CASE m # n
      BY <1>5, <3>1 DEF QueuesWell
    <3>2. CASE m = n
      BY <1>2, <1>3, <1>4, <1>5, <1>6, <3>2
    <3> QED BY <3>1, <3>2
  <2>4. \A m \in DOMAIN q2 : \A i, j \in DOMAIN q2[m].waiting :
            q2[m].waiting[i] = q2[m].waiting[j] => i = j
    <3> SUFFICES ASSUME NEW m \in DOMAIN q2, NEW i \in DOMAIN q2[m].waiting,
                        NEW j \in DOMAIN q2[m].waiting, q2[m].waiting[i] = q2[m].waiting[j]
                 PROVE  i = j
      OBVIOUS
    <3>1. CASE m # n
      BY <1>5, <3>1 DEF QueuesWell
    <3>2. CASE m = n
      BY <1>2, <1>3, <1>4, <1>5, <1>6, <1>7, <3>2
    <3> QED BY <3>1, <3>2
  <2> QED BY <2>1, <2>2, <2>3, <2>4 DEF QueuesWell
<1>9. ASSUME NEW s PROVE Queued(q2, s) <=> Queued(q, s) \/ s = r
  <2>1. ASSUME Queued(q2, s) PROVE Queued(q, s) \/ s = r
    <3>1. PICK m \in DOMAIN q2 : \E i \in DOMAIN q2[m].waiting : q2[m].waiting[i] = s
      BY <2>1 DEF Queued
    <3>2. CASE m # n
      BY <1>5, <3>1, <3>2 DEF Queued
    <3>3. CASE m = n
      BY <1>2, <1>3, <1>4, <1>5, <3>1, <3>3 DEF Queued, w
    <3> QED BY <3>2, <3>3
  <2>2. ASSUME Queued(q, s) PROVE Queued(q2, s)
    <3>1. PICK m \in DOMAIN q : \E i \in DOMAIN q[m].waiting : q[m].waiting[i] = s
      BY <2>2 DEF Queued
    <3>2. CASE m # n
      BY <1>5, <3>1, <3>2 DEF Queued
    <3>3. CASE m = n
      <4>1. PICK i \in DOMAIN w : w[i] = s
        BY <3>1, <3>3 DEF w
      <4>2. n \in DOMAIN q2 /\ q2[n].waiting = v /\ i \in DOMAIN v /\ v[i] = s
        BY <1>2, <1>3, <1>4, <1>5, <4>1
      <4> QED BY <4>2 DEF Queued
    <3> QED BY <3>2, <3>3
  <2>3. Queued(q2, r)
    <3>1. n \in DOMAIN q2 /\ q2[n].waiting = v /\ l \in DOMAIN v /\ v[l] = r
      BY <1>2, <1>3, <1>4, <1>5
    <3> QED BY <3>1 DEF Queued
  <2> QED BY <2>1, <2>2, <2>3
<1>10. ASSUME NEW s, NEW t, Ahead(q2, s, t) PROVE s # r /\ (t = r \/ Ahead(q, s, t))
  <2>1. PICK m \in DOMAIN q2 : \E i, j \in DOMAIN q2[m].waiting :
            i < j /\ q2[m].waiting[i] = s /\ q2[m].waiting[j] = t
    BY <1>10 DEF Ahead
  <2>2. PICK i \in DOMAIN q2[m].waiting, j \in DOMAIN q2[m].waiting :
            i < j /\ q2[m].waiting[i] = s /\ q2[m].waiting[j] = t
    BY <2>1
  <2>3. CASE m # n
    <3>1. m \in DOMAIN q /\ q2[m] = q[m]
      BY <1>5, <2>3
    <3>2. Ahead(q, s, t)
      BY <2>2, <3>1 DEF Ahead
    <3>3. Queued(q, s)
      BY <2>2, <3>1 DEF Queued
    <3> QED BY <3>2, <3>3
  <2>4. CASE m = n
    <3>1. i \in DOMAIN v /\ j \in DOMAIN v /\ v[i] = s /\ v[j] = t
      BY <1>4, <1>5, <2>2, <2>4
    <3>2. i \in DOMAIN w
      <4>1. i # l
        <5> SUFFICES ASSUME i = l PROVE FALSE
          OBVIOUS
        <5>1. j <= i /\ i < j /\ i \in Int /\ j \in Int
          BY <1>2, <1>3, <2>2, <3>1
        <5> QED BY ONLY <5>1
      <4> QED BY <1>3, <3>1, <4>1
    <3>3. s # r
      BY <1>2, <1>6, <3>1, <3>2
    <3>4. CASE j = l
      BY <1>2, <3>1, <3>3, <3>4
    <3>5. CASE j \in DOMAIN w
      <4>1. w[i] = s /\ w[j] = t
        BY <1>2, <3>1, <3>2, <3>5
      <4>2. Ahead(q, s, t)
        BY <2>2, <3>2, <3>5, <4>1 DEF Ahead, w
      <4> QED BY <3>3, <4>2
    <3> QED BY <1>3, <3>1, <3>4, <3>5
  <2> QED BY <2>3, <2>4
<1>11. Joined(q, q2, r)
  BY <1>5, <1>8, <1>9, <1>10 DEF Joined
<1> QED BY <1>0, <1>11
--------------------------------------------------------------------------------
(* The bucket. *)

Sound == {b \in Buckets : QueuesWell(b.queues) /\ b.ctl \in Sane}

\* The controller knows how many wait.
Told(b) == b.ctl.waiters = Cardinality(Waiting(b))

LEMMA RequestSetsFinite ==
    ASSUME NEW S \in SUBSET Requests
    PROVE  IsFiniteSet(S) /\ Cardinality(S) \in Nat
BY GovernorAssumption, FS_Subset, FS_CardinalityType

LEMMA BucketFields ==
    ASSUME NEW b \in Buckets
    PROVE  /\ \A c \in Controllers(Requests) : [b EXCEPT !.ctl = c] \in Buckets
           /\ \A q \in Queues : [b EXCEPT !.queues = q] \in Buckets
           /\ \A l \in Runs \cup {Observer, NoRun} : [b EXCEPT !.last = l] \in Buckets
           /\ \A u \in SUBSET Runs : [b EXCEPT !.used = u] \in Buckets
           /\ \A w \in Nat \cup {Never} : [b EXCEPT !.wake = w] \in Buckets
BY DEF Buckets, Queues, Entry

LEMMA SoundFields ==
    ASSUME NEW b \in Sound
    PROVE  /\ b \in Buckets /\ b.queues \in Queues /\ QueuesWell(b.queues) /\ b.ctl \in Sane
           /\ b.used \subseteq Runs /\ b.last \in Runs \cup {Observer, NoRun}
           /\ b.wake \in Nat \cup {Never}
           /\ b.ctl.inFlight \in Nat /\ b.ctl.growthLimit \in Nat
BY WaitingIsQueued, SaneFields DEF Sound, Buckets

\* A signal on the controller alone.
LEMMA CtlChange ==
    ASSUME NEW b \in Sound, NEW c \in Sane
    PROVE  LET d == [b EXCEPT !.ctl = c]
           IN  /\ d \in Sound /\ d.ctl = c /\ d.queues = b.queues /\ d.used = b.used
               /\ d.last = b.last /\ d.wake = b.wake
               /\ Waiting(d) = Waiting(b)
<1> DEFINE d == [b EXCEPT !.ctl = c]
<1>1. b \in Buckets /\ QueuesWell(b.queues) /\ c \in Controllers(Requests)
  BY SoundFields, SaneFields
<1>2. d \in Buckets
  BY <1>1, BucketFields
<1>3. d.ctl = c /\ d.queues = b.queues /\ d.used = b.used /\ d.last = b.last /\ d.wake = b.wake
  BY <1>1 DEF Buckets
<1> HIDE DEF d
<1> QED BY <1>1, <1>2, <1>3 DEF Sound, Waiting, d

LEMMA ArmedBucket ==
    ASSUME NEW b \in Sound
    PROVE  /\ Armed(b) \in Sound /\ Armed(b).ctl = b.ctl /\ Armed(b).queues = b.queues
           /\ Armed(b).used = b.used /\ Waiting(Armed(b)) = Waiting(b)
<1> DEFINE w == IF Waiting(b) = {} THEN Never ELSE b.ctl.cooldown
           d == [b EXCEPT !.wake = w]
<1>1. b \in Buckets /\ QueuesWell(b.queues) /\ b.ctl \in Sane
  BY SoundFields
<1>2. w \in Nat \cup {Never}
  BY <1>1, SaneFields DEF Never
<1> HIDE DEF w
<1>3. d \in Buckets
  BY <1>1, <1>2, BucketFields
<1>4. d.ctl = b.ctl /\ d.queues = b.queues /\ d.used = b.used
  BY <1>1 DEF Buckets
<1>5. Armed(b) = d
  BY DEF Armed, w
<1> HIDE DEF d
<1> QED BY <1>1, <1>3, <1>4, <1>5 DEF Sound, Waiting

\* What the rest of a drain may do to a bucket.
Drained(b, d) ==
    /\ d \in Sound
    /\ d.used = b.used /\ d.ctl.growthLimit = b.ctl.growthLimit
    /\ Waiting(d) \subseteq Waiting(b)
    /\ d.ctl.inFlight + Cardinality(Waiting(d)) = b.ctl.inFlight + Cardinality(Waiting(b))
    /\ Cautious(b.ctl, d.ctl, Waiting(b) \ Waiting(d))
    /\ \A r, s : Ahead(d.queues, r, s) => Ahead(b.queues, r, s)
    /\ \A r \in Waiting(b) \ Waiting(d) : \A s \in Waiting(d) :
          RunOf[r] = RunOf[s] => Ahead(b.queues, r, s)

LEMMA CautiousTwice ==
    ASSUME NEW b \in Sane, NEW c \in Sane, NEW d \in Sane, NEW R, NEW S,
           Cautious(b, c, R), Cautious(c, d, S)
    PROVE  Cautious(b, d, R \cup S)
<1>1. d.current \subseteq b.current \cup (R \cup S)
  BY DEF Cautious
<1>2. CASE c.cap >= b.cap /\ d.cap >= c.cap
  BY <1>1, <1>2, SaneFields DEF Cautious
<1>3. CASE c.current \cap (b.current \ R) = {}
  <2>1. d.current \cap (b.current \ (R \cup S)) = {}
    BY <1>3 DEF Cautious
  <2> QED BY <1>1, <2>1 DEF Cautious
<1>4. CASE d.current \cap (c.current \ S) = {}
  <2>1. d.current \cap (b.current \ (R \cup S)) = {}
    BY <1>4 DEF Cautious
  <2> QED BY <1>1, <2>1 DEF Cautious
<1> QED BY <1>2, <1>3, <1>4 DEF Cautious

LEMMA DrainedTwice ==
    ASSUME NEW b \in Sound, NEW c, NEW d, Drained(b, c), Drained(c, d)
    PROVE  Drained(b, d)
<1>1. c \in Sound /\ d \in Sound
  BY DEF Drained
<1>2. Waiting(d) \subseteq Waiting(c) /\ Waiting(c) \subseteq Waiting(b)
  BY DEF Drained
<1>3. Cautious(b.ctl, d.ctl, Waiting(b) \ Waiting(d))
  <2>1. Cautious(b.ctl, d.ctl, (Waiting(b) \ Waiting(c)) \cup (Waiting(c) \ Waiting(d)))
    <3>1. b.ctl \in Sane /\ c.ctl \in Sane /\ d.ctl \in Sane
      BY <1>1, SoundFields
    <3> QED BY <3>1, CautiousTwice DEF Drained
  <2>2. (Waiting(b) \ Waiting(c)) \cup (Waiting(c) \ Waiting(d)) = Waiting(b) \ Waiting(d)
    BY <1>2
  <2> QED BY <2>1, <2>2
<1>4. d.ctl.inFlight + Cardinality(Waiting(d)) = b.ctl.inFlight + Cardinality(Waiting(b))
  BY DEF Drained
<1>5. \A r, s : Ahead(d.queues, r, s) => Ahead(b.queues, r, s)
  BY DEF Drained
<1>6. ASSUME NEW r \in Waiting(b) \ Waiting(d), NEW s \in Waiting(d), RunOf[r] = RunOf[s]
      PROVE  Ahead(b.queues, r, s)
  <2>1. CASE r \in Waiting(c)
    BY <1>6, <2>1 DEF Drained
  <2>2. CASE r \notin Waiting(c)
    BY <1>2, <1>6, <2>2 DEF Drained
  <2> QED BY <2>1, <2>2
<1>7. d.used = b.used /\ d.ctl.growthLimit = b.ctl.growthLimit
  BY DEF Drained
<1> QED BY <1>1, <1>2, <1>3, <1>4, <1>5, <1>6, <1>7 DEF Drained

\* A signal is a drain that lets nobody through.
LEMMA SignalDrains ==
    ASSUME NEW b \in Sound, NEW c \in Sane, Cautious(b.ctl, c, {}),
           c.inFlight = b.ctl.inFlight, c.growthLimit = b.ctl.growthLimit
    PROVE  Drained(b, [b EXCEPT !.ctl = c])
<1> DEFINE d == [b EXCEPT !.ctl = c]
<1>1. /\ d \in Sound /\ d.ctl = c /\ d.queues = b.queues /\ d.used = b.used
      /\ Waiting(d) = Waiting(b)
  BY CtlChange
<1> HIDE DEF d
<1>2. Waiting(b) \ Waiting(d) = {}
  BY <1>1
<1>3. Cautious(b.ctl, d.ctl, Waiting(b) \ Waiting(d))
  BY <1>1, <1>2
<1> QED BY <1>1, <1>2, <1>3 DEF Drained, d

LEMMA ObservedBucket ==
    ASSUME NEW b \in Sound
    PROVE  Drained(b, [b EXCEPT !.ctl = Observe(@)])
<1>1. b.ctl \in Sane
  BY SoundFields
<1>2. Signalled(b.ctl, Observe(b.ctl), 0)
  BY <1>1, ObserveSignal
<1>3. /\ Observe(b.ctl) \in Sane /\ Cautious(b.ctl, Observe(b.ctl), {})
      /\ Observe(b.ctl).inFlight = b.ctl.inFlight
      /\ Observe(b.ctl).growthLimit = b.ctl.growthLimit
  BY <1>1, <1>2, SaneFields DEF Signalled
<1> QED BY <1>3, SignalDrains

LEMMA CountedBucket ==
    ASSUME NEW b \in Sound
    PROVE  /\ Drained(b, Counted(b)) /\ Told(Counted(b))
           /\ Counted(b).queues = b.queues /\ Waiting(Counted(b)) = Waiting(b)
<1> DEFINE n == Cardinality(Waiting(b))
           c == Waiters(b.ctl, n)
           d == [b EXCEPT !.ctl = c]
<1>1. b.ctl \in Sane /\ n \in Nat
  BY SoundFields, WaitingIsQueued, RequestSetsFinite
<1> HIDE DEF n
<1>2. /\ c \in Sane /\ Cautious(b.ctl, c, {}) /\ c.inFlight = b.ctl.inFlight
      /\ c.growthLimit = b.ctl.growthLimit /\ c.waiters = n
  BY <1>1, WaitersSignal
<1> HIDE DEF c
<1>3. d.ctl = c /\ d.queues = b.queues /\ Waiting(d) = Waiting(b)
  BY <1>2, CtlChange
<1>4. Drained(b, d)
  BY <1>2, SignalDrains
<1>5. Counted(b) = d
  BY DEF Counted, c, n
<1> HIDE DEF d
<1> QED BY <1>2, <1>3, <1>4, <1>5 DEF Told, n

\* The entry whose turn it is exists.
LEMMA NextEntryExists ==
    ASSUME NEW b \in Sound, b.queues # <<>>
    PROVE  NextEntry(b) \in DOMAIN b.queues
<1> DEFINE q     == b.queues
           P     == {0} \cup {n \in DOMAIN q : q[n].run = b.last}
           place == Max(P)
<1>1. Len(q) \in Nat /\ DOMAIN q = 1..Len(q) /\ Len(q) # 0
  BY SoundFields, QueueFacts, EmptySeq DEF Queues
<1>2. P \in SUBSET (0..Len(q))
  BY <1>1
<1>3. place \in 0..Len(q)
  <2>1. IsFiniteSet(0..Len(q))
    BY <1>1, FS_Interval
  <2>2. IsFiniteSet(P) /\ P # {} /\ P \in SUBSET Nat
    BY <1>1, <1>2, <2>1, FS_Subset
  <2> HIDE DEF P
  <2> QED BY <1>2, <2>2, MaxIsGreatest DEF Greatest
<1> HIDE DEF place
<1>4. PICK l \in Nat : l = Len(q) /\ l > 0
  BY <1>1
<1>5. place % l \in 0..(l - 1)
  <2>1. place \in Int /\ l \in Nat /\ l > 0
    BY <1>3, <1>4
  <2> QED BY ONLY <2>1
<1>6. NextEntry(b) = (place % l) + 1
  BY <1>4 DEF NextEntry, place
<1> QED BY <1>1, <1>4, <1>5, <1>6

\* Leave() takes one waiter out.
LEMMA LeftBucket ==
    ASSUME NEW b \in Sound, NEW n \in DOMAIN b.queues, NEW i \in DOMAIN b.queues[n].waiting
    PROVE  LET d == Leave(b, n, i)
               r == b.queues[n].waiting[i]
           IN  /\ d \in Sound /\ d.ctl = b.ctl /\ d.used = b.used
               /\ r \in Waiting(b) /\ r \in Requests /\ Waiting(d) = Waiting(b) \ {r}
               /\ \A s, t : Ahead(d.queues, s, t) => Ahead(b.queues, s, t)
<1> DEFINE q  == b.queues
           r  == q[n].waiting[i]
           q2 == IF Len(q[n].waiting) = 1 THEN RemoveAt(q, n)
                 ELSE [q EXCEPT ![n].waiting = RemoveAt(@, i)]
           d  == [b EXCEPT !.queues = q2]
<1>1. b \in Buckets /\ q \in Queues /\ QueuesWell(q)
  BY SoundFields
<1>2. Left(q, q2, r)
  <2>1. CASE Len(q[n].waiting) = 1
    <3>1. DOMAIN q[n].waiting = 1..1
      BY <1>1, <2>1, QueueFacts
    <3>2. i = 1
      BY <3>1
    <3> QED BY <1>1, <2>1, <3>2, EntryLeaves
  <2>2. CASE Len(q[n].waiting) # 1
    BY <1>1, <2>2, PlaceLeaves
  <2> QED BY <2>1, <2>2
<1>3. Leave(b, n, i) = d
  BY DEF Leave
<1> HIDE DEF q2
<1>4. d \in Buckets /\ d.queues = q2 /\ d.ctl = b.ctl /\ d.used = b.used
  <2>1. d \in Buckets
    BY <1>1, <1>2, BucketFields DEF Left
  <2> QED BY <1>1, <2>1 DEF Buckets
<1> HIDE DEF d
<1>5. d \in Sound
  BY <1>2, <1>4, SoundFields DEF Sound, Left
<1>6. r \in Waiting(b)
  BY <1>1, WaitingIsQueued DEF Queued
<1>7. \A s : s \in Waiting(d) <=> s \in Waiting(b) /\ s # r
  BY <1>1, <1>2, <1>4, WaitingIsQueued DEF Left
<1>8. r \in Requests
  BY <1>1, <1>6, WaitingIsQueued
<1>9. \A s, t : Ahead(d.queues, s, t) => Ahead(b.queues, s, t)
  BY <1>2, <1>4 DEF Left
<1>10. Waiting(d) = Waiting(b) \ {r}
  BY <1>7
<1> QED BY <1>3, <1>4, <1>5, <1>6, <1>8, <1>9, <1>10

LEMMA GrantedBucket ==
    ASSUME NEW b \in Sound, NEW r \in Requests
    PROVE  LET g == Grant(b, r)
           IN  /\ g \in Sound /\ g.queues = b.queues /\ g.used = b.used
               /\ Waiting(g) = Waiting(b)
               /\ Cautious(b.ctl, g.ctl, {r}) /\ g.ctl.inFlight = b.ctl.inFlight + 1
               /\ g.ctl.growthLimit = b.ctl.growthLimit /\ g.ctl.waiters = b.ctl.waiters
<1> DEFINE a == Admitted(Observe(b.ctl), r)
           c == [b EXCEPT !.ctl = a]
           g == [c EXCEPT !.last = RunOf[r]]
<1>1. /\ a \in Sane /\ Cautious(b.ctl, a, {r}) /\ a.inFlight = b.ctl.inFlight + 1
      /\ a.growthLimit = b.ctl.growthLimit /\ a.waiters = b.ctl.waiters
  BY SoundFields, AdmittedSignal
<1>2. Grant(b, r) = g
  BY Zenon DEF Grant
<1> HIDE DEF a
<1>3. /\ c \in Sound /\ c.ctl = a /\ c.queues = b.queues /\ c.used = b.used
      /\ Waiting(c) = Waiting(b)
  BY <1>1, CtlChange
<1> HIDE DEF c
<1>4. c \in Buckets /\ QueuesWell(c.queues) /\ c.ctl \in Sane
  BY <1>3, SoundFields
<1>5. RunOf[r] \in Runs \cup {Observer, NoRun}
  BY GovernorAssumption
<1>6. g \in Buckets /\ g.ctl = c.ctl /\ g.queues = c.queues /\ g.used = c.used
  <2>1. g \in Buckets
    BY <1>4, <1>5, BucketFields
  <2> QED BY <1>4, <2>1 DEF Buckets
<1> HIDE DEF g
<1>7. g \in Sound /\ Waiting(g) = Waiting(b)
  BY <1>3, <1>4, <1>6 DEF Sound, Waiting
<1> QED BY <1>1, <1>2, <1>3, <1>6, <1>7

\* One round of drain().
LEMMA GrantNextDrains ==
    ASSUME NEW b \in Sound, b.queues # <<>>
    PROVE  /\ Drained(b, GrantNext(b))
           /\ Cardinality(Waiting(b)) = Cardinality(Waiting(GrantNext(b))) + 1
<1> DEFINE n == NextEntry(b)
           q == b.queues
           r == Head(q[n].waiting)
           d == Leave(b, n, 1)
           g == Grant(d, r)
<1>1. n \in DOMAIN q
  BY NextEntryExists
<1> HIDE DEF n
<1>2. q \in Queues /\ QueuesWell(q) /\ b \in Buckets
  BY SoundFields
<1>3. 1 \in DOMAIN q[n].waiting /\ r = q[n].waiting[1]
  <2>1. /\ q[n].waiting \in Seq(Requests) /\ q[n].waiting # <<>>
        /\ DOMAIN q[n].waiting = 1..Len(q[n].waiting)
    BY <1>1, <1>2, QueueFacts DEF QueuesWell
  <2>2. Len(q[n].waiting) \in Nat \ {0}
    BY <2>1, EmptySeq
  <2>3. 1 \in 1..Len(q[n].waiting)
    BY <2>2
  <2>4. Head(q[n].waiting) = q[n].waiting[1]
    BY <2>1, SMT
  <2> QED BY <2>1, <2>3, <2>4
<1>4. /\ d \in Sound /\ d.ctl = b.ctl /\ d.used = b.used
      /\ r \in Waiting(b) /\ r \in Requests /\ Waiting(d) = Waiting(b) \ {r}
      /\ \A s, t : Ahead(d.queues, s, t) => Ahead(q, s, t)
  <2> DEFINE r1 == b.queues[n].waiting[1]
  <2>1. /\ d \in Sound /\ d.ctl = b.ctl /\ d.used = b.used
        /\ r1 \in Waiting(b) /\ r1 \in Requests /\ Waiting(d) = Waiting(b) \ {r1}
        /\ \A s, t : Ahead(d.queues, s, t) => Ahead(b.queues, s, t)
    BY <1>1, <1>3, LeftBucket
  <2>2. r = r1
    BY <1>3
  <2> HIDE DEF d, r, r1
  <2> QED BY <2>1, <2>2
<1>5. GrantNext(b) = g
  BY DEF GrantNext, n
<1> HIDE DEF d
<1>6. /\ g \in Sound /\ g.queues = d.queues /\ g.used = d.used /\ Waiting(g) = Waiting(d)
      /\ Cautious(d.ctl, g.ctl, {r}) /\ g.ctl.inFlight = d.ctl.inFlight + 1
      /\ g.ctl.growthLimit = d.ctl.growthLimit
  BY <1>4, GrantedBucket
<1> HIDE DEF g, r
<1>7. Cardinality(Waiting(b)) = Cardinality(Waiting(g)) + 1 /\ Cardinality(Waiting(g)) \in Nat
  <2>1. IsFiniteSet(Waiting(b)) /\ Cardinality(Waiting(b)) \in Nat
    BY <1>2, WaitingIsQueued, RequestSetsFinite
  <2> HIDE DEF q
  <2>2. Cardinality(Waiting(b) \ {r}) = Cardinality(Waiting(b)) - 1
    BY <1>4, <2>1, FS_RemoveElement
  <2>3. Cardinality(Waiting(b) \ {r}) \in Nat
    BY <2>1, FS_RemoveElement, FS_CardinalityType
  <2> QED BY <1>4, <1>6, <2>1, <2>2, <2>3
<1>8. Waiting(b) \ Waiting(g) = {r}
  BY <1>4, <1>6
<1>9. Cautious(b.ctl, g.ctl, Waiting(b) \ Waiting(g))
  BY <1>4, <1>6, <1>8
<1>10. g.ctl.inFlight + Cardinality(Waiting(g)) = b.ctl.inFlight + Cardinality(Waiting(b))
  <2>1. b.ctl.inFlight \in Nat
    BY SoundFields
  <2> QED BY <1>4, <1>6, <1>7, <2>1
<1>11. ASSUME NEW s \in Waiting(g), RunOf[r] = RunOf[s] PROVE Ahead(q, r, s)
  <2>1. s \in Waiting(b) /\ s # r
    BY <1>4, <1>6
  <2>2. Queued(q, s)
    BY <1>2, <2>1, WaitingIsQueued
  <2>3. PICK m \in DOMAIN q : \E j \in DOMAIN q[m].waiting : q[m].waiting[j] = s
    BY <2>2 DEF Queued
  <2>4. PICK j \in DOMAIN q[m].waiting : q[m].waiting[j] = s
    BY <2>3
  <2>5. m = n
    <3>1. RunOf[q[m].waiting[j]] = q[m].run /\ RunOf[q[n].waiting[1]] = q[n].run
      BY <1>1, <1>2, <1>3, <2>4 DEF QueuesWell
    <3>2. q[m].run = q[n].run
      BY <1>3, <1>11, <2>4, <3>1
    <3> QED BY <1>1, <1>2, <3>2 DEF QueuesWell
  <2>6. j # 1
    BY <1>3, <2>1, <2>4, <2>5
  <2>7. 1 < j
    <3>1. j \in 1..Len(q[m].waiting) /\ Len(q[m].waiting) \in Nat
      BY <1>2, QueueFacts
    <3> QED BY <2>6, <3>1
  <2>8. q[n].waiting[1] = r /\ q[n].waiting[j] = s /\ j \in DOMAIN q[n].waiting
    BY <1>3, <2>4, <2>5
  <2> QED BY <1>1, <1>3, <2>7, <2>8 DEF Ahead
<1>12. \A s \in Waiting(b) \ Waiting(g) : \A t \in Waiting(g) : RunOf[s] = RunOf[t] => Ahead(b.queues, s, t)
  BY <1>8, <1>11
<1>13. Waiting(g) \subseteq Waiting(b) /\ g.used = b.used
       /\ g.ctl.growthLimit = b.ctl.growthLimit
  BY <1>4, <1>6
<1>14. \A s, t : Ahead(g.queues, s, t) => Ahead(b.queues, s, t)
  BY <1>4, <1>6
<1>15. Drained(b, g)
  BY <1>6, <1>9, <1>10, <1>12, <1>13, <1>14 DEF Drained
<1> QED BY <1>5, <1>7, <1>15

LEMMA GrantOneDrains ==
    ASSUME NEW b \in Sound, Told(b)
    PROVE  Drained(b, GrantOne(b)) /\ Told(GrantOne(b))
<1>1. CASE CanAdmit(b.ctl) /\ b.queues # <<>>
  <2> DEFINE g == GrantNext(b)
  <2>1. Drained(b, g)
    BY <1>1, GrantNextDrains
  <2>2. GrantOne(b) = Counted(g)
    BY <1>1 DEF GrantOne
  <2> HIDE DEF g
  <2>3. Drained(g, Counted(g)) /\ Told(Counted(g))
    BY <2>1, CountedBucket DEF Drained
  <2> QED BY <2>1, <2>2, <2>3, DrainedTwice
<1>2. CASE ~(CanAdmit(b.ctl) /\ b.queues # <<>>)
  <2>1. GrantOne(b) = b
    BY <1>2 DEF GrantOne
  <2>2. b.ctl \in Sane
    BY SoundFields
  <2>3. Cautious(b.ctl, b.ctl, {}) /\ Waiting(b) \ Waiting(b) = {}
    BY <2>2, SaneFields DEF Cautious
  <2>4. Drained(b, b)
    BY <2>3 DEF Drained
  <2> QED BY <2>1, <2>4
<1> QED BY <1>1, <1>2
--------------------------------------------------------------------------------
(* A whole drain. *)

\* The rounds of a drain that begins with x.
Rounds(g, x, N) == g = [n \in 0..N |-> IF n = 0 THEN x ELSE GrantOne(g[n - 1])]

LEMMA RoundsExist ==
    ASSUME NEW x, NEW N \in Nat
    PROVE  \E g : Rounds(g, x, N)
<1> DEFINE T == {n \in Nat : ~(\E g : Rounds(g, x, n))}
<1>1. T = {}
  <2> SUFFICES ASSUME T # {} PROVE FALSE
    OBVIOUS
  <2>1. PICK m \in T : \A n \in T : m <= n
    <3>1. T \in SUBSET Nat
      OBVIOUS
    <3> HIDE DEF T
    <3> QED BY <3>1, SmallestNat
  <2>2. m \in Nat /\ ~(\E g : Rounds(g, x, m))
    BY <2>1
  <2>3. m # 0
    <3> SUFFICES ASSUME m = 0 PROVE FALSE
      OBVIOUS
    <3> DEFINE g == [n \in 0..0 |-> x]
    <3>1. g = [n \in 0..0 |-> IF n = 0 THEN x ELSE GrantOne(g[n - 1])]
      OBVIOUS
    <3> HIDE DEF g
    <3>2. Rounds(g, x, 0)
      BY <3>1 DEF Rounds
    <3> QED BY <2>2, <3>2
  <2>4. m - 1 \in Nat /\ ~(m <= m - 1)
    BY <2>2, <2>3
  <2>5. \E g : Rounds(g, x, m - 1)
    BY <2>1, <2>4
  <2>6. PICK g : Rounds(g, x, m - 1)
    BY <2>5
  <2>7. \A n \in 0..(m - 1) : g[n] = IF n = 0 THEN x ELSE GrantOne(g[n - 1])
    BY <2>6 DEF Rounds
  <2> DEFINE h == [n \in 0..m |-> IF n = m THEN GrantOne(g[m - 1]) ELSE g[n]]
  <2>8. ASSUME NEW n \in 0..m
        PROVE  h[n] = IF n = 0 THEN x ELSE GrantOne(h[n - 1])
    <3>1. CASE n = m
      <4>1. h[n] = GrantOne(g[m - 1]) /\ h[n - 1] = g[m - 1]
        BY <2>2, <2>3, <3>1
      <4> QED BY <2>3, <3>1, <4>1
    <3>2. CASE n # m
      <4>1. n \in 0..(m - 1) /\ h[n] = g[n]
        BY <2>2, <3>2
      <4>2. n # 0 => h[n - 1] = g[n - 1]
        BY <2>2, <3>2
      <4> HIDE DEF h
      <4> QED BY <2>7, <4>1, <4>2
    <3> QED BY <3>1, <3>2
  <2>9. h = [n \in 0..m |-> h[n]]
    OBVIOUS
  <2> HIDE DEF h
  <2>10. Rounds(h, x, m)
    BY <2>8, <2>9 DEF Rounds
  <2> QED BY <2>2, <2>10
<1> QED BY <1>1

LEMMA RoundsDrain ==
    ASSUME NEW b \in Sound, Told(b), NEW N \in Nat, NEW g, Rounds(g, b, N)
    PROVE  Drained(b, g[N]) /\ Told(g[N])
<1> DEFINE Good(n) == Drained(b, g[n]) /\ Told(g[n])
           T       == {n \in Nat : n <= N /\ ~Good(n)}
<1>1. \A n \in 0..N : g[n] = IF n = 0 THEN b ELSE GrantOne(g[n - 1])
  BY DEF Rounds
<1>2. Good(0)
  <2>1. g[0] = b
    BY <1>1
  <2>2. b.ctl \in Sane
    BY SoundFields
  <2>3. Cautious(b.ctl, b.ctl, {}) /\ Waiting(b) \ Waiting(b) = {}
    BY <2>2, SaneFields DEF Cautious
  <2>4. Drained(b, b)
    BY <2>3 DEF Drained
  <2> QED BY <2>1, <2>4
<1>3. ASSUME NEW n \in 1..N, Good(n - 1) PROVE Good(n)
  <2>1. g[n] = GrantOne(g[n - 1])
    BY <1>1
  <2>2. PICK c : c = g[n - 1]
    OBVIOUS
  <2>3. c \in Sound /\ Told(c) /\ Drained(b, c)
    BY <1>3, <2>2 DEF Drained
  <2>4. Drained(c, GrantOne(c)) /\ Told(GrantOne(c))
    BY <2>3, GrantOneDrains
  <2>5. Drained(b, GrantOne(c))
    BY <2>3, <2>4, DrainedTwice
  <2> QED BY <2>1, <2>2, <2>4, <2>5
<1> HIDE DEF Good
<1>4. T = {}
  <2> SUFFICES ASSUME T # {} PROVE FALSE
    OBVIOUS
  <2>1. PICK m \in T : \A n \in T : m <= n
    <3>1. T \in SUBSET Nat
      OBVIOUS
    <3> HIDE DEF T
    <3> QED BY <3>1, SmallestNat
  <2>2. m \in Nat /\ m <= N /\ ~Good(m) /\ m # 0
    BY <1>2, <2>1
  <2>3. m \in 1..N /\ m - 1 \in Nat /\ m - 1 <= N /\ ~(m <= m - 1)
    BY <2>2
  <2>4. m - 1 \notin T
    BY <2>1, <2>3
  <2>5. Good(m - 1)
    BY <2>3, <2>4
  <2> QED BY <1>3, <2>2, <2>3, <2>5
<1>5. Good(N)
  BY <1>4
<1> QED BY <1>5 DEF Good

\* drain() lets through some of those that wait, in the order of their run.
LEMMA DrainDrains ==
    ASSUME NEW b \in Sound
    PROVE  Drained(b, Drain(b)) /\ Told(Drain(b))
<1> DEFINE o == [b EXCEPT !.ctl = Observe(@)]
           x == Counted(o)
           N == Cardinality(Requests)
           after == CHOOSE g : Rounds(g, x, N)
<1>1. N \in Nat
  BY RequestSetsFinite
<1>2. Drained(b, o) /\ o \in Sound
  BY ObservedBucket DEF Drained
<1>3. Drain(b) = Armed(after[N])
  BY DEF Drain, Rounds
<1> HIDE DEF o, N
<1>4. Drained(o, x) /\ x \in Sound /\ Told(x)
  BY <1>2, CountedBucket DEF Drained
<1>5. Drained(b, x)
  BY <1>2, <1>4, DrainedTwice
<1> HIDE DEF x
<1>6. Rounds(after, x, N)
  BY <1>1, RoundsExist
<1> HIDE DEF after
<1>7. PICK d : d = after[N]
  OBVIOUS
<1>8. Drained(x, d) /\ Told(d)
  BY <1>1, <1>4, <1>6, <1>7, RoundsDrain
<1>9. Drained(b, d) /\ d \in Sound
  BY <1>5, <1>8, DrainedTwice DEF Drained
<1>10. /\ Armed(d) \in Sound /\ Armed(d).ctl = d.ctl /\ Armed(d).queues = d.queues
       /\ Armed(d).used = d.used /\ Waiting(Armed(d)) = Waiting(d)
  BY <1>9, ArmedBucket
<1>11. PICK a : a = Armed(d)
  OBVIOUS
<1>12. Drained(b, a) /\ Told(a)
  BY <1>8, <1>9, <1>10, <1>11 DEF Drained, Told
<1> QED BY <1>3, <1>7, <1>11, <1>12


\* admit(): r is the last of its run, and nobody else moves.
LEMMA EnqueuedBucket ==
    ASSUME NEW b \in Sound, NEW r \in Requests, r \notin Waiting(b), ~IsObserver(r)
    PROVE  LET e == Enqueue(b, r)
           IN  /\ e \in Sound /\ e.ctl = b.ctl /\ e.used = b.used
               /\ Waiting(e) = Waiting(b) \cup {r} /\ Joined(b.queues, e.queues, r)
<1> DEFINE q    == b.queues
           mine == {n \in DOMAIN q : q[n].run = RunOf[r]}
           q2   == IF mine = {} THEN Append(q, [run |-> RunOf[r], waiting |-> <<r>>])
                   ELSE [q EXCEPT ![Max(mine)].waiting = Append(@, r)]
           e    == [b EXCEPT !.queues = q2]
<1>1. b \in Buckets /\ q \in Queues /\ QueuesWell(q) /\ ~Queued(q, r) /\ RunOf[r] \in Runs
  BY SoundFields, WaitingIsQueued, GovernorAssumption DEF IsObserver
<1>2. Joined(q, q2, r)
  <2>1. CASE mine = {}
    <3>1. \A n \in DOMAIN q : q[n].run # RunOf[r]
      BY <2>1
    <3> QED BY <1>1, <2>1, <3>1, EntryJoins
  <2>2. CASE mine # {}
    <3>1. Max(mine) \in mine
      <4>1. Len(q) \in Nat /\ DOMAIN q = 1..Len(q)
        BY <1>1, QueueFacts
      <4>2. IsFiniteSet(1..Len(q)) /\ 1..Len(q) \in SUBSET Nat /\ mine \in SUBSET (1..Len(q))
        BY <4>1, FS_Interval
      <4> HIDE DEF mine
      <4>3. IsFiniteSet(mine) /\ mine \in SUBSET Nat
        BY <4>2, FS_Subset
      <4> QED BY <2>2, <4>3, MaxIsGreatest DEF Greatest
    <3>2. PICK n : n = Max(mine)
      OBVIOUS
    <3>3. n \in DOMAIN q /\ q[n].run = RunOf[r]
      BY <3>1, <3>2
    <3>4. Joined(q, [q EXCEPT ![n].waiting = Append(@, r)], r)
      BY <1>1, <3>3, PlaceJoins
    <3> QED BY <2>2, <3>2, <3>4
  <2> QED BY <2>1, <2>2
<1>3. Enqueue(b, r) = e
  BY DEF Enqueue
<1> HIDE DEF q2
<1>4. e \in Buckets /\ e.queues = q2 /\ e.ctl = b.ctl /\ e.used = b.used
  <2>1. e \in Buckets
    BY <1>1, <1>2, BucketFields DEF Joined
  <2> QED BY <1>1, <2>1 DEF Buckets
<1> HIDE DEF e
<1>5. e \in Sound
  BY <1>2, <1>4, SoundFields DEF Sound, Joined
<1>6. \A s : s \in Waiting(e) <=> s \in Waiting(b) \/ s = r
  BY <1>1, <1>2, <1>4, WaitingIsQueued DEF Joined
<1>7. Waiting(e) = Waiting(b) \cup {r}
  BY <1>6
<1> QED BY <1>2, <1>3, <1>4, <1>5, <1>7

\* onAbort: r is gone, and nobody else moves.
LEMMA DequeuedBucket ==
    ASSUME NEW b \in Sound, NEW r \in Waiting(b)
    PROVE  LET d == Dequeue(b, r)
           IN  /\ d \in Sound /\ d.ctl = b.ctl /\ d.used = b.used
               /\ Waiting(d) = Waiting(b) \ {r}
               /\ \A s, t : Ahead(d.queues, s, t) => Ahead(b.queues, s, t)
<1> DEFINE n == CHOOSE m \in DOMAIN b.queues : r \in ToSet(b.queues[m].waiting)
           i == CHOOSE j \in DOMAIN b.queues[n].waiting : b.queues[n].waiting[j] = r
<1>1. \E m \in DOMAIN b.queues : r \in ToSet(b.queues[m].waiting)
  BY DEF Waiting
<1>2. n \in DOMAIN b.queues /\ r \in ToSet(b.queues[n].waiting)
  BY <1>1
<1>3. Dequeue(b, r) = Leave(b, n, i)
  BY DEF Dequeue
<1> HIDE DEF n
<1>4. i \in DOMAIN b.queues[n].waiting /\ b.queues[n].waiting[i] = r
  BY <1>2 DEF ToSet
<1> HIDE DEF i
<1>5. PICK d : d = Leave(b, n, i)
  OBVIOUS
<1>6. /\ d \in Sound /\ d.ctl = b.ctl /\ d.used = b.used
      /\ Waiting(d) = Waiting(b) \ {b.queues[n].waiting[i]}
      /\ \A s, t : Ahead(d.queues, s, t) => Ahead(b.queues, s, t)
  BY <1>2, <1>4, <1>5, LeftBucket
<1> QED BY <1>3, <1>4, <1>5, <1>6
--------------------------------------------------------------------------------
(* The growth limit. *)

\* The limit that the bounds of the runs in u ask for.
Growth(u, reg) == Max({BaseLimit} \cup {reg[run] : run \in u})

LEMMA BaseLimitType ==
    BaseLimit \in Nat /\ D <= BaseLimit /\ BaseLimit > 0
<1>1. D \in Nat /\ D > 0 /\ GrowthFactor \in Nat /\ GrowthFactor > 0
  BY ConstantsType, GovernorAssumption
<1>2. GrowthFactor * D \in Nat /\ GrowthFactor * D >= D
  <2>1. \A d \in Nat, g \in Nat : g > 0 => g * d \in Nat /\ g * d >= d
    OBVIOUS
  <2> QED BY <1>1, <2>1
<1> QED BY <1>1, <1>2 DEF BaseLimit

\* What a run has not registered does not count.
LEMMA GrowthFacts ==
    ASSUME NEW u \in SUBSET Runs, NEW reg \in [Runs -> Bounds \cup {0}]
    PROVE  LET own == {reg[run] : run \in u} \ {0}
           IN  /\ Growth(u, reg) \in Nat /\ D <= Growth(u, reg)
               /\ Max({BaseLimit} \cup own) = Growth(u, reg)
               /\ own # {} => Max(own) \in Nat
<1> DEFINE all == {reg[run] : run \in u}
           own == all \ {0}
           S   == {BaseLimit} \cup all
           T   == {BaseLimit} \cup own
<1>1. all \in SUBSET Nat /\ IsFiniteSet(all)
  <2>1. all \in SUBSET Nat
    <3>1. \A run \in Runs : reg[run] \in Bounds \cup {0}
      OBVIOUS
    <3>2. Bounds \cup {0} \subseteq Nat
      BY GovernorAssumption
    <3>3. \A run \in u : reg[run] \in Nat
      BY <3>1, <3>2
    <3> QED BY <3>3
  <2>2. IsFiniteSet(u)
    BY GovernorAssumption, FS_Subset
  <2>3. [run \in u |-> reg[run]] \in Surjection(u, all)
    BY DEF Surjection
  <2> HIDE DEF all
  <2> QED BY <2>1, <2>2, <2>3, FS_Surjection
<1> HIDE DEF all
<1>2. own \in SUBSET Nat /\ IsFiniteSet(own)
  BY <1>1, FS_Subset
<1>3. S \in SUBSET Nat /\ IsFiniteSet(S) /\ S # {} /\ T \in SUBSET Nat /\ IsFiniteSet(T) /\ T # {}
  <2>1. IsFiniteSet({BaseLimit}) /\ {BaseLimit} \in SUBSET Nat
    BY BaseLimitType, FS_Singleton
  <2> HIDE DEF own
  <2> QED BY <1>1, <1>2, <2>1, FS_Union
<1>4. Greatest(S, Max(S)) /\ Max(S) \in Nat
  <2> HIDE DEF S, T
  <2> QED BY <1>3, MaxIsGreatest
<1>5. Greatest(T, Max(S))
  <2>1. Max(S) >= BaseLimit /\ Max(S) \in S
    BY <1>4 DEF Greatest
  <2>2. Max(S) # 0
    BY <1>4, <2>1, BaseLimitType
  <2>3. Max(S) \in T /\ T \subseteq S
    BY <2>1, <2>2
  <2> HIDE DEF S, T
  <2> QED BY <1>4, <2>3 DEF Greatest
<1>6. Max(S) = Max(T)
  <2> HIDE DEF S, T
  <2>1. \A m : Greatest(T, m) => m = Max(T)
    BY <1>3, MaxIsGreatest
  <2> QED BY <1>5, <2>1
<1>7. own # {} => Max(own) \in Nat
  <2> HIDE DEF own
  <2> QED BY <1>2, MaxIsGreatest
<1>8. Growth(u, reg) = Max(S)
  BY DEF Growth, all
<1>9. D <= Max(S)
  <2>1. Max(S) >= BaseLimit
    BY <1>4 DEF Greatest
  <2> HIDE DEF S
  <2> QED BY <1>4, <2>1, BaseLimitType, ConstantsType
<1> HIDE DEF S
<1> QED BY <1>4, <1>6, <1>7, <1>8, <1>9 DEF all

\* What a change of the limit leaves as it was.
Limited(b, e, u, limit) ==
    /\ e \in Sound /\ e.queues = b.queues /\ Waiting(e) = Waiting(b)
    /\ e.used = u /\ e.ctl.growthLimit = limit /\ e.wake = b.wake
    /\ e.ctl.inFlight = b.ctl.inFlight /\ e.ctl.waiters = b.ctl.waiters
    /\ Cautious(b.ctl, e.ctl, {})

LEMMA SelfCautious ==
    ASSUME NEW c \in Sane
    PROVE  Cautious(c, c, {})
BY SaneFields DEF Cautious

\* refreshGrowthLimit() follows the bounds.
LEMMA RefreshedBucket ==
    ASSUME NEW b \in Sound, NEW reg \in [Runs -> Bounds \cup {0}]
    PROVE  Limited(b, Refresh(b, reg), b.used, Growth(b.used, reg))
<1> DEFINE own   == {reg[run] : run \in b.used} \ {0}
           limit == Max({BaseLimit} \cup own)
           moved == IF limit = b.ctl.growthLimit THEN b.ctl ELSE SetGrowthLimit(b.ctl, limit)
           seed  == IF own = {} THEN moved ELSE Seed(moved, Max(own))
           e     == [b EXCEPT !.ctl = seed]
<1>1. b.ctl \in Sane /\ b.used \in SUBSET Runs
  BY SoundFields
<1>2. limit = Growth(b.used, reg) /\ limit \in Nat /\ D <= limit /\ (own # {} => Max(own) \in Nat)
  BY <1>1, GrowthFacts
<1>3. Refresh(b, reg) = e
  BY DEF Refresh
<1> HIDE DEF own, limit
<1>4. /\ moved \in Sane /\ Cautious(b.ctl, moved, {}) /\ moved.growthLimit = limit
      /\ moved.inFlight = b.ctl.inFlight /\ moved.waiters = b.ctl.waiters
  <2>1. CASE limit = b.ctl.growthLimit
    BY <1>1, <2>1, SelfCautious
  <2>2. CASE limit # b.ctl.growthLimit
    BY <1>1, <1>2, <2>2, LimitSignal
  <2> QED BY <2>1, <2>2
<1> HIDE DEF moved
<1>5. /\ seed \in Sane /\ Cautious(b.ctl, seed, {}) /\ seed.growthLimit = limit
      /\ seed.inFlight = b.ctl.inFlight /\ seed.waiters = b.ctl.waiters
  <2>1. CASE own = {}
    BY <1>4, <2>1
  <2>2. CASE own # {}
    <3>1. PICK s : s = Seed(moved, Max(own))
      OBVIOUS
    <3>2. Signalled(moved, s, 0)
      BY <1>2, <1>4, <2>2, <3>1, SeedSignal
    <3>3. /\ s \in Sane /\ Cautious(moved, s, {}) /\ s.growthLimit = limit
          /\ s.inFlight = b.ctl.inFlight /\ s.waiters = b.ctl.waiters
      BY <1>1, <1>4, <3>2, SaneFields DEF Signalled
    <3>4. Cautious(b.ctl, s, {} \cup {})
      BY <1>1, <1>4, <3>3, CautiousTwice
    <3>5. {} \cup {} = {}
      OBVIOUS
    <3> QED BY <2>2, <3>1, <3>3, <3>4, <3>5
  <2> QED BY <2>1, <2>2
<1> HIDE DEF seed
<1>6. /\ e \in Sound /\ e.ctl = seed /\ e.queues = b.queues /\ e.used = b.used
      /\ e.wake = b.wake /\ Waiting(e) = Waiting(b)
  BY <1>5, CtlChange
<1> HIDE DEF e
<1> QED BY <1>2, <1>3, <1>5, <1>6 DEF Limited

\* A change of the runs that use the key alone.
LEMMA UsedChange ==
    ASSUME NEW b \in Sound, NEW u \in SUBSET Runs
    PROVE  LET d == [b EXCEPT !.used = u]
           IN  /\ d \in Sound /\ d.ctl = b.ctl /\ d.queues = b.queues /\ d.used = u
               /\ d.wake = b.wake /\ Waiting(d) = Waiting(b)
<1> DEFINE d == [b EXCEPT !.used = u]
<1>1. b \in Buckets /\ QueuesWell(b.queues) /\ b.ctl \in Sane
  BY SoundFields
<1>2. d \in Buckets
  BY <1>1, BucketFields
<1>3. d.ctl = b.ctl /\ d.queues = b.queues /\ d.used = u /\ d.wake = b.wake
  BY <1>1 DEF Buckets
<1> HIDE DEF d
<1> QED BY <1>1, <1>2, <1>3 DEF Sound, Waiting, d

\* noteRunUsed() keeps the limit in step with the bounds.
LEMMA NotedBucket ==
    ASSUME NEW b \in Sound, NEW run \in Runs, bounds \in [Runs -> Bounds \cup {0}],
           b.ctl.growthLimit = Growth(b.used, bounds)
    PROVE  Limited(b, NoteRunUsed(b, run), b.used \cup {run}, Growth(b.used \cup {run}, bounds))
<1> DEFINE u == b.used \cup {run}
           d == [b EXCEPT !.used = u]
<1>1. b.ctl \in Sane /\ b.used \in SUBSET Runs /\ u \in SUBSET Runs
  BY SoundFields
<1>2. Cautious(b.ctl, b.ctl, {})
  BY <1>1, SelfCautious
<1>3. CASE run \in b.used
  <2>1. u = b.used /\ NoteRunUsed(b, run) = b
    BY <1>3 DEF NoteRunUsed
  <2> QED BY <1>2, <2>1 DEF Limited
<1>4. CASE run \notin b.used
  <2>1. /\ d \in Sound /\ d.ctl = b.ctl /\ d.queues = b.queues /\ d.used = u
        /\ d.wake = b.wake /\ Waiting(d) = Waiting(b)
    BY <1>1, UsedChange
  <2>2. NoteRunUsed(b, run) = IF bounds[run] = 0 THEN d ELSE Refresh(d, bounds)
    BY <1>4 DEF NoteRunUsed
  <2> HIDE DEF d
  <2>3. CASE bounds[run] = 0
    <3>1. Growth(u, bounds) = Growth(b.used, bounds)
      <4>1. {bounds[x] : x \in u} \ {0} = {bounds[x] : x \in b.used} \ {0}
        BY <2>3
      <4> QED BY <1>1, <4>1, GrowthFacts
    <3> HIDE DEF u
    <3> QED BY <1>2, <2>1, <2>2, <2>3, <3>1 DEF Limited, u
  <2>4. CASE bounds[run] # 0
    <3> HIDE DEF u
    <3>1. Limited(d, Refresh(d, bounds), u, Growth(u, bounds))
      BY <2>1, RefreshedBucket
    <3>2. PICK e : e = Refresh(d, bounds)
      OBVIOUS
    <3>3. Limited(b, e, u, Growth(u, bounds))
      BY <2>1, <3>1, <3>2 DEF Limited
    <3> QED BY <2>2, <2>4, <3>2, <3>3 DEF u
  <2> QED BY <2>3, <2>4
<1> QED BY <1>3, <1>4
--------------------------------------------------------------------------------
(* The inductive invariant. *)

Opened(st) == {r \in Requests : st[r] = "open"}

\* What holds of the bucket b, the bounds reg and the stages st at every moment: those
\* queued are those that wait, the main agent never does, and the controller's count and
\* limit are the true ones.
Kept(b, reg, st) ==
    /\ b \in Sound /\ reg \in [Runs -> Bounds \cup {0}] /\ st \in [Requests -> Stages]
    /\ \A r \in Requests : st[r] = "queued" <=> r \in Waiting(b)
    /\ \A r \in Requests : st[r] \in {"missed", "queued"} => ~IsObserver(r)
    /\ b.ctl.inFlight = Cardinality(Opened(st))
    /\ b.ctl.growthLimit = Growth(b.used, reg)

IInv == Kept(bucket, bounds, stage) /\ Told(bucket)

\* Those let through by a step that leaves d and st2 were not passed before their turn.
InTurn(b, st, d, st2) ==
    \A r \in Opened(st2) \ Opened(st) : \A s \in Waiting(b) \cap Waiting(d) :
        \/ IsObserver(r)
        \/ st[r] # "idle" /\ (RunOf[r] = RunOf[s] => Ahead(b.queues, r, s))

\* What every step does.
Stepped(b, st, d, reg2, st2) ==
    /\ Kept(d, reg2, st2) /\ Told(d)
    /\ Cautious(b.ctl, d.ctl, Requests \ Opened(st))
    /\ InTurn(b, st, d, st2)

\* e is what a handler makes of b before it drains.
Prepared(b, st, e) ==
    /\ Cautious(b.ctl, e.ctl, {})
    /\ \A r \in Waiting(e) : st[r] \notin {"idle", "open"}
    /\ \A s, t : t \in Waiting(b) /\ Ahead(e.queues, s, t) => Ahead(b.queues, s, t)

LEMMA CautiousMore ==
    ASSUME NEW c, NEW o, NEW R, NEW S, Cautious(c, o, R), R \subseteq S
    PROVE  Cautious(c, o, S)
BY DEF Cautious

\* DrainTo() keeps what held before it.
LEMMA DrainKeeps ==
    ASSUME NEW b \in Sound, NEW st, NEW e, NEW reg, NEW place, NEW d, NEW st2,
           Prepared(b, st, e), Kept(e, reg, place), Opened(place) \subseteq Opened(st),
           d = Drain(e),
           st2 = [q \in Requests |-> IF q \in Waiting(e) \ Waiting(d) THEN "open" ELSE place[q]]
    PROVE  Stepped(b, st, d, reg, st2)
<1> DEFINE granted == Waiting(e) \ Waiting(d)
<1>1. e \in Sound /\ place \in [Requests -> Stages]
  BY DEF Kept
<1>2. Drained(e, d) /\ Told(d)
  BY <1>1, DrainDrains
<1>3. d \in Sound /\ Waiting(d) \subseteq Waiting(e) /\ Waiting(e) \subseteq Requests
  BY <1>1, <1>2, SoundFields, WaitingIsQueued DEF Drained
<1>4. st2 \in [Requests -> Stages]
  BY <1>1 DEF Stages
<1>5. \A r \in Requests : st2[r] = IF r \in granted THEN "open" ELSE place[r]
  OBVIOUS
<1>6. \A r \in Requests : place[r] = "queued" <=> r \in Waiting(e)
  BY DEF Kept
<1>7. \A r \in Requests : st2[r] = "queued" <=> r \in Waiting(d)
  BY <1>3, <1>5, <1>6
<1>8. \A r \in Requests : st2[r] \in {"missed", "queued"} => ~IsObserver(r)
  BY <1>5 DEF Kept
<1>9. Opened(st2) = Opened(place) \cup granted /\ Opened(place) \cap granted = {}
  BY <1>3, <1>5, <1>6 DEF Opened
<1>10. d.ctl.inFlight = Cardinality(Opened(st2))
  <2>1. granted \in SUBSET Requests /\ Waiting(d) \in SUBSET Requests /\ Opened(place) \in SUBSET Requests
    BY <1>3 DEF Opened
  <2>2. Waiting(e) = granted \cup Waiting(d) /\ granted \cap Waiting(d) = {}
    BY <1>3
  <2> HIDE DEF granted
  <2>3. /\ IsFiniteSet(granted) /\ Cardinality(granted) \in Nat
        /\ IsFiniteSet(Waiting(d)) /\ Cardinality(Waiting(d)) \in Nat
        /\ IsFiniteSet(Opened(place)) /\ Cardinality(Opened(place)) \in Nat
    BY <2>1, RequestSetsFinite
  <2>4. Cardinality(Waiting(e)) = Cardinality(granted) + Cardinality(Waiting(d)) - Cardinality({})
    BY <2>2, <2>3, FS_Union
  <2>5. Cardinality(Opened(st2)) = Cardinality(Opened(place)) + Cardinality(granted) - Cardinality({})
    BY <1>9, <2>3, FS_Union
  <2>6. Cardinality({}) = 0
    BY FS_EmptySet
  <2>7. d.ctl.inFlight + Cardinality(Waiting(d)) = e.ctl.inFlight + Cardinality(Waiting(e))
    BY <1>2 DEF Drained
  <2>8. e.ctl.inFlight = Cardinality(Opened(place)) /\ d.ctl.inFlight \in Nat
    BY <1>3, SoundFields DEF Kept
  <2> QED BY <2>3, <2>4, <2>5, <2>6, <2>7, <2>8
<1>11. Kept(d, reg, st2)
  <2>1. d.ctl.growthLimit = Growth(d.used, reg) /\ reg \in [Runs -> Bounds \cup {0}]
    BY <1>2 DEF Kept, Drained
  <2> QED BY <1>3, <1>4, <1>7, <1>8, <1>10, <2>1 DEF Kept
<1>12. \A r \in granted : r \in Requests /\ st[r] \notin {"idle", "open"}
  BY <1>3 DEF Prepared
<1>13. Cautious(b.ctl, d.ctl, Requests \ Opened(st))
  <2>1. b.ctl \in Sane /\ e.ctl \in Sane /\ d.ctl \in Sane
    BY <1>1, <1>3, SoundFields
  <2>2. Cautious(b.ctl, d.ctl, {} \cup granted)
    BY <1>2, <2>1, CautiousTwice DEF Prepared, Drained
  <2>3. {} \cup granted \subseteq Requests \ Opened(st)
    BY <1>12 DEF Opened
  <2> HIDE DEF granted
  <2> QED BY <2>2, <2>3, CautiousMore
<1>14. ASSUME NEW r \in Opened(st2) \ Opened(st), NEW s \in Waiting(b) \cap Waiting(d)
       PROVE  st[r] # "idle" /\ (RunOf[r] = RunOf[s] => Ahead(b.queues, r, s))
  <2>1. r \in granted
    BY <1>9
  <2>2. RunOf[r] = RunOf[s] => Ahead(e.queues, r, s)
    BY <1>2, <2>1 DEF Drained
  <2> QED BY <1>12, <2>1, <2>2 DEF Prepared
<1>15. InTurn(b, st, d, st2)
  BY <1>14 DEF InTurn
<1> QED BY <1>2, <1>11, <1>13, <1>15 DEF Stepped


\* A step that lets nobody through.
LEMMA QuietStep ==
    ASSUME NEW b, NEW st, NEW d, NEW reg, NEW st2,
           Kept(d, reg, st2), Told(d), Cautious(b.ctl, d.ctl, {}), Opened(st2) \subseteq Opened(st)
    PROVE  Stepped(b, st, d, reg, st2)
<1>1. Cautious(b.ctl, d.ctl, Requests \ Opened(st))
  BY CautiousMore
<1>2. InTurn(b, st, d, st2)
  BY DEF InTurn
<1> QED BY <1>1, <1>2 DEF Stepped

LEMMA StageMoves ==
    ASSUME NEW st \in [Requests -> Stages], NEW r \in Requests, NEW v \in Stages
    PROVE  LET st2 == [st EXCEPT ![r] = v]
           IN  /\ st2 \in [Requests -> Stages]
               /\ \A q \in Requests : st2[q] = IF q = r THEN v ELSE st[q]
               /\ v = "open" => Opened(st2) = Opened(st) \cup {r}
               /\ v # "open" => Opened(st2) = Opened(st) \ {r}
               /\ IsFiniteSet(Opened(st)) /\ Cardinality(Opened(st)) \in Nat
<1> DEFINE st2 == [st EXCEPT ![r] = v]
<1>1. st2 \in [Requests -> Stages] /\ \A q \in Requests : st2[q] = IF q = r THEN v ELSE st[q]
  OBVIOUS
<1> HIDE DEF st2
<1>2. /\ v = "open" => Opened(st2) = Opened(st) \cup {r}
      /\ v # "open" => Opened(st2) = Opened(st) \ {r}
  BY <1>1 DEF Opened
<1>3. Opened(st) \in SUBSET Requests
  BY DEF Opened
<1>4. IsFiniteSet(Opened(st)) /\ Cardinality(Opened(st)) \in Nat
  BY <1>3, RequestSetsFinite
<1> QED BY <1>1, <1>2, <1>4 DEF st2

LEMMA OpenIsCounted ==
    ASSUME NEW b, NEW reg, NEW st, Kept(b, reg, st), NEW r \in Requests, st[r] = "open"
    PROVE  b.ctl.inFlight > 0 /\ Cardinality(Opened(st) \ {r}) = b.ctl.inFlight - 1
<1>1. r \in Opened(st) /\ Opened(st) \in SUBSET Requests
  BY DEF Opened
<1>2. IsFiniteSet(Opened(st)) /\ Cardinality(Opened(st)) \in Nat
  BY <1>1, RequestSetsFinite
<1>3. /\ Cardinality(Opened(st) \ {r}) = Cardinality(Opened(st)) - 1
      /\ IsFiniteSet(Opened(st) \ {r})
  BY <1>1, <1>2, FS_RemoveElement
<1>4. Cardinality(Opened(st) \ {r}) \in Nat
  BY <1>3, FS_CardinalityType
<1>5. b.ctl.inFlight = Cardinality(Opened(st))
  BY DEF Kept
<1> QED BY <1>2, <1>3, <1>4, <1>5

\* A ticket that is told its ending.
LEMMA SettleKeeps ==
    ASSUME IInv, NEW r \in Requests, stage[r] = "open", NEW ctl, Signalled(bucket.ctl, ctl, 1),
           NEW place \in {"settled", "idle"}, Settle(r, ctl, place)
    PROVE  Stepped(bucket, stage, bucket', bounds', stage')
<1> DEFINE e  == [bucket EXCEPT !.ctl = ctl]
           pl == [stage EXCEPT ![r] = place]
<1>1. /\ bucket \in Sound /\ stage \in [Requests -> Stages] /\ Kept(bucket, bounds, stage)
      /\ bounds \in [Runs -> Bounds \cup {0}]
  BY DEF IInv, Kept
<1>2. /\ ctl \in Sane /\ Cautious(bucket.ctl, ctl, {}) /\ ctl.inFlight = bucket.ctl.inFlight - 1
      /\ ctl.growthLimit = bucket.ctl.growthLimit
  BY DEF Signalled
<1>3. /\ e \in Sound /\ e.ctl = ctl /\ e.queues = bucket.queues /\ e.used = bucket.used
      /\ Waiting(e) = Waiting(bucket)
  BY <1>1, <1>2, CtlChange
<1>4. place \in Stages /\ place \notin {"open", "queued", "missed"}
  BY DEF Stages
<1>5. /\ pl \in [Requests -> Stages]
      /\ \A q \in Requests : pl[q] = IF q = r THEN place ELSE stage[q]
      /\ Opened(pl) = Opened(stage) \ {r}
  BY <1>1, <1>4, StageMoves
<1>6. DrainTo(e, pl) /\ bounds' = bounds
  BY DEF Settle
<1> HIDE DEF e, pl
<1>7. Cardinality(Opened(pl)) = ctl.inFlight
  BY <1>1, <1>2, <1>5, OpenIsCounted
<1>8. Kept(e, bounds, pl)
  <2>1. \A q \in Requests : pl[q] = "queued" <=> q \in Waiting(e)
    BY <1>1, <1>3, <1>4, <1>5 DEF Kept
  <2>2. \A q \in Requests : pl[q] \in {"missed", "queued"} => ~IsObserver(q)
    BY <1>1, <1>4, <1>5 DEF Kept
  <2>3. e.ctl.growthLimit = Growth(e.used, bounds)
    BY <1>1, <1>2, <1>3 DEF Kept
  <2> QED BY <1>1, <1>3, <1>5, <1>7, <2>1, <2>2, <2>3 DEF Kept
<1>9. Prepared(bucket, stage, e)
  <2>1. Cautious(bucket.ctl, e.ctl, {})
    BY <1>2, <1>3
  <2>2. \A q \in Waiting(e) : stage[q] \notin {"idle", "open"}
    <3>1. Waiting(bucket) \subseteq Requests
      BY <1>1, SoundFields, WaitingIsQueued
    <3> QED BY <1>1, <1>3, <3>1 DEF Kept
  <2> QED BY <1>3, <2>1, <2>2 DEF Prepared
<1>10. /\ bucket' = Drain(e)
       /\ stage' = [q \in Requests |-> IF q \in Waiting(e) \ Waiting(bucket') THEN "open" ELSE pl[q]]
  BY <1>6 DEF DrainTo
<1>11. Stepped(bucket, stage, bucket', bounds, stage')
  BY <1>1, <1>5, <1>8, <1>9, <1>10, DrainKeeps
<1> QED BY <1>6, <1>11

LEMMA EndingKeeps ==
    ASSUME IInv, NEW r \in Requests, Ending(r)
    PROVE  Stepped(bucket, stage, bucket', bounds', stage')
<1>1. Kept(bucket, bounds, stage) /\ bucket.ctl \in Sane /\ Told(bucket)
  BY SoundFields DEF IInv, Kept
<1>2. ASSUME stage[r] = "open", NEW ctl, Signalled(bucket.ctl, ctl, 1),
             NEW place \in {"settled", "idle"}, Settle(r, ctl, place)
      PROVE  Stepped(bucket, stage, bucket', bounds', stage')
  BY <1>2, SettleKeeps
<1>3. stage[r] = "open" => bucket.ctl.inFlight > 0
  BY <1>1, OpenIsCounted
<1>4. CASE Complete(r)
  <2>1. Signalled(bucket.ctl, Succeeded(bucket.ctl, r), 1)
    BY <1>1, <1>3, <1>4, SucceededSignal DEF Complete
  <2> QED BY <1>2, <1>4, <2>1 DEF Complete
<1>5. CASE Fail(r)
  <2>1. Signalled(bucket.ctl, FailedTransient(bucket.ctl, r), 1)
    BY <1>1, <1>3, <1>5, TransientSignal DEF Fail
  <2>2. Signalled(bucket.ctl, Ended(bucket.ctl, r), 1)
    BY <1>1, <1>3, <1>5, EndedSignal DEF Fail
  <2> QED BY <1>2, <1>5, <2>1, <2>2 DEF Fail
<1>6. CASE Refuse(r)
  <2>1. PICK after \in RetryAfters : Settle(r, Throttled(bucket.ctl, r, after), "settled")
    BY <1>6 DEF Refuse
  <2>2. Signalled(bucket.ctl, Throttled(bucket.ctl, r, after), 1)
    BY <1>1, <1>3, <1>6, ThrottledSignal, GovernorAssumption DEF Refuse
  <2> QED BY <1>2, <1>6, <2>1, <2>2 DEF Refuse
<1>7. CASE Release(r)
  <2>1. CASE stage[r] = "open" /\ Settle(r, Ended(bucket.ctl, r), "idle")
    <3>1. Signalled(bucket.ctl, Ended(bucket.ctl, r), 1)
      BY <1>1, <1>3, <2>1, EndedSignal
    <3> QED BY <1>2, <2>1, <3>1
  <2>2. CASE stage[r] = "settled" /\ stage' = [stage EXCEPT ![r] = "idle"] /\ UNCHANGED <<bucket, bounds>>
    <3>1. "idle" \in Stages /\ stage \in [Requests -> Stages] /\ bucket \in Sound
      BY <1>1 DEF Stages, Kept
    <3>2. /\ stage' \in [Requests -> Stages]
          /\ \A q \in Requests : stage'[q] = IF q = r THEN "idle" ELSE stage[q]
          /\ Opened(stage') = Opened(stage) \ {r}
      BY <2>2, <3>1, StageMoves
    <3>3. Opened(stage') = Opened(stage)
      BY <2>2, <3>2 DEF Opened
    <3>4. Kept(bucket, bounds, stage')
      BY <1>1, <2>2, <3>2, <3>3 DEF Kept
    <3>5. Cautious(bucket.ctl, bucket.ctl, {})
      BY <1>1, SelfCautious
    <3>6. Stepped(bucket, stage, bucket, bounds, stage')
      BY <1>1, <3>3, <3>4, <3>5, QuietStep
    <3> QED BY <2>2, <3>6
  <2> QED BY <1>7, <2>1, <2>2 DEF Release
<1> QED BY <1>4, <1>5, <1>6, <1>7 DEF Ending


\* What an action may begin with.
LEMMA IInvFacts ==
    ASSUME IInv
    PROVE  /\ Kept(bucket, bounds, stage) /\ Told(bucket)
           /\ bucket \in Sound /\ bucket.ctl \in Sane
           /\ bounds \in [Runs -> Bounds \cup {0}] /\ stage \in [Requests -> Stages]
           /\ bucket.ctl.growthLimit = Growth(bucket.used, bounds)
           /\ bucket.ctl.inFlight = Cardinality(Opened(stage))
           /\ Cautious(bucket.ctl, bucket.ctl, {})
           /\ Waiting(bucket) \subseteq Requests
           /\ \A r \in Requests : stage[r] = "queued" <=> r \in Waiting(bucket)
           /\ \A r \in Requests : stage[r] \in {"missed", "queued"} => ~IsObserver(r)
<1>1. Kept(bucket, bounds, stage) /\ Told(bucket)
  BY DEF IInv
<1>2. bucket \in Sound
  BY <1>1 DEF Kept
<1>3. bucket.ctl \in Sane /\ Waiting(bucket) \subseteq Requests
  BY <1>2, SoundFields, WaitingIsQueued
<1>4. Cautious(bucket.ctl, bucket.ctl, {})
  BY <1>3, SelfCautious
<1> QED BY <1>1, <1>2, <1>3, <1>4 DEF Kept

\* A run's first use of the key, and the observation before the gate is asked.
LEMMA NotedKeeps ==
    ASSUME IInv, NEW r \in Requests, ~IsObserver(r)
    PROVE  LET n == NoteRunUsed(bucket, RunOf[r])
           IN  /\ n \in Sound /\ n.queues = bucket.queues /\ Waiting(n) = Waiting(bucket)
               /\ n.ctl.growthLimit = Growth(n.used, bounds)
               /\ n.ctl.inFlight = bucket.ctl.inFlight /\ n.ctl.waiters = bucket.ctl.waiters
               /\ Cautious(bucket.ctl, n.ctl, {}) /\ n.wake = bucket.wake
<1>1. RunOf[r] \in Runs
  BY GovernorAssumption DEF IsObserver
<1>2. PICK run \in Runs : run = RunOf[r]
  BY <1>1
<1>3. PICK n : n = NoteRunUsed(bucket, run)
  OBVIOUS
<1>4. Limited(bucket, n, bucket.used \cup {run}, Growth(bucket.used \cup {run}, bounds))
  BY <1>3, IInvFacts, NotedBucket
<1>5. /\ n \in Sound /\ n.queues = bucket.queues /\ Waiting(n) = Waiting(bucket)
      /\ n.ctl.growthLimit = Growth(n.used, bounds)
      /\ n.ctl.inFlight = bucket.ctl.inFlight /\ n.ctl.waiters = bucket.ctl.waiters
      /\ Cautious(bucket.ctl, n.ctl, {}) /\ n.wake = bucket.wake
  BY <1>4 DEF Limited
<1> QED BY <1>2, <1>3, <1>5

LEMMA TryAdmitKeeps ==
    ASSUME IInv, NEW r \in Requests, TryAdmit(r)
    PROVE  Stepped(bucket, stage, bucket', bounds', stage')
<1> DEFINE n    == NoteRunUsed(bucket, RunOf[r])
           o    == Observe(n.ctl)
           seen == [n EXCEPT !.ctl = o]
<1>1. stage[r] = "idle" /\ ~IsObserver(r) /\ bounds' = bounds
  BY DEF TryAdmit
<1>2. /\ n \in Sound /\ n.queues = bucket.queues /\ Waiting(n) = Waiting(bucket)
      /\ n.ctl.growthLimit = Growth(n.used, bounds)
      /\ n.ctl.inFlight = bucket.ctl.inFlight /\ n.ctl.waiters = bucket.ctl.waiters
      /\ Cautious(bucket.ctl, n.ctl, {})
  BY <1>1, NotedKeeps
<1>3. \/ /\ MustQueue(seen)
         /\ bucket' = seen /\ stage' = [stage EXCEPT ![r] = "missed"]
      \/ /\ ~MustQueue(seen)
         /\ bucket' = Grant(seen, r) /\ stage' = [stage EXCEPT ![r] = "open"]
  BY DEF TryAdmit
<1> HIDE DEF n
<1>4. n.ctl \in Sane
  BY <1>2, SoundFields
<1>5. Signalled(n.ctl, o, 0)
  BY <1>4, ObserveSignal
<1>6. /\ o \in Sane /\ Cautious(n.ctl, o, {}) /\ o.inFlight = n.ctl.inFlight
      /\ o.growthLimit = n.ctl.growthLimit /\ o.waiters = n.ctl.waiters
  BY <1>4, <1>5, SaneFields DEF Signalled
<1> HIDE DEF o
<1>7. /\ seen \in Sound /\ seen.ctl = o /\ seen.queues = n.queues /\ seen.used = n.used
      /\ Waiting(seen) = Waiting(n)
  BY <1>2, <1>6, CtlChange
<1> HIDE DEF seen
<1>8. Cautious(bucket.ctl, seen.ctl, {})
  <2>1. Cautious(bucket.ctl, o, {} \cup {})
    BY <1>2, <1>4, <1>6, IInvFacts, CautiousTwice
  <2>2. {} \cup {} = {}
    OBVIOUS
  <2> QED BY <1>7, <2>1, <2>2
<1>9. /\ Waiting(seen) = Waiting(bucket) /\ seen.ctl.inFlight = bucket.ctl.inFlight
      /\ seen.ctl.growthLimit = Growth(seen.used, bounds) /\ Told(seen)
  BY <1>2, <1>6, <1>7, IInvFacts DEF Told
<1>10. CASE /\ MustQueue(seen)
            /\ bucket' = seen /\ stage' = [stage EXCEPT ![r] = "missed"]
  <2>1. "missed" \in Stages
    BY DEF Stages
  <2>2. /\ stage' \in [Requests -> Stages]
        /\ \A q \in Requests : stage'[q] = IF q = r THEN "missed" ELSE stage[q]
        /\ Opened(stage') = Opened(stage) \ {r}
    BY <1>10, <2>1, IInvFacts, StageMoves
  <2>3. Opened(stage') = Opened(stage)
    BY <1>1, <2>2 DEF Opened
  <2>4. \A q \in Requests : stage'[q] = "queued" <=> q \in Waiting(seen)
    BY <1>1, <1>9, <2>2, IInvFacts
  <2>5. \A q \in Requests : stage'[q] \in {"missed", "queued"} => ~IsObserver(q)
    BY <1>1, <2>2, IInvFacts
  <2>6. Kept(seen, bounds, stage')
    BY <1>7, <1>9, <2>2, <2>3, <2>4, <2>5, IInvFacts DEF Kept
  <2>7. Stepped(bucket, stage, seen, bounds, stage')
    BY <1>8, <1>9, <2>3, <2>6, QuietStep
  <2> QED BY <1>1, <1>10, <2>7
<1>11. CASE /\ ~MustQueue(seen)
            /\ bucket' = Grant(seen, r) /\ stage' = [stage EXCEPT ![r] = "open"]
  <2>1. PICK g : g = Grant(seen, r)
    OBVIOUS
  <2>2. /\ g \in Sound /\ g.queues = seen.queues /\ g.used = seen.used /\ Waiting(g) = Waiting(seen)
        /\ Cautious(seen.ctl, g.ctl, {r}) /\ g.ctl.inFlight = seen.ctl.inFlight + 1
        /\ g.ctl.growthLimit = seen.ctl.growthLimit /\ g.ctl.waiters = seen.ctl.waiters
    BY <1>7, <2>1, GrantedBucket
  <2>3. Waiting(bucket) = {}
    BY <1>9, <1>11 DEF MustQueue
  <2>4. "open" \in Stages
    BY DEF Stages
  <2>5. /\ stage' \in [Requests -> Stages]
        /\ \A q \in Requests : stage'[q] = IF q = r THEN "open" ELSE stage[q]
        /\ Opened(stage') = Opened(stage) \cup {r}
        /\ IsFiniteSet(Opened(stage)) /\ Cardinality(Opened(stage)) \in Nat
    BY <1>11, <2>4, IInvFacts, StageMoves
  <2>6. r \notin Opened(stage)
    BY <1>1 DEF Opened
  <2>7. g.ctl.inFlight = Cardinality(Opened(stage'))
    <3>1. Cardinality(Opened(stage) \cup {r}) = Cardinality(Opened(stage)) + 1
      BY <2>5, <2>6, FS_AddElement
    <3> QED BY <1>9, <2>2, <2>5, <3>1, IInvFacts
  <2>8. \A q \in Requests : stage'[q] = "queued" <=> q \in Waiting(g)
    BY <1>1, <1>9, <2>2, <2>5, IInvFacts
  <2>9. \A q \in Requests : stage'[q] \in {"missed", "queued"} => ~IsObserver(q)
    BY <2>5, IInvFacts
  <2>10. Kept(g, bounds, stage') /\ Told(g)
    BY <1>9, <2>2, <2>5, <2>7, <2>8, <2>9, IInvFacts DEF Kept, Told
  <2>11. Cautious(bucket.ctl, g.ctl, Requests \ Opened(stage))
    <3>1. g.ctl \in Sane /\ seen.ctl \in Sane
      BY <1>7, <2>2, SoundFields
    <3>2. Cautious(bucket.ctl, g.ctl, {} \cup {r})
      BY <1>8, <2>2, <3>1, IInvFacts, CautiousTwice
    <3>3. {} \cup {r} \subseteq Requests \ Opened(stage)
      BY <2>6
    <3> QED BY <3>2, <3>3, CautiousMore
  <2>12. InTurn(bucket, stage, g, stage')
    BY <2>3 DEF InTurn
  <2>13. Stepped(bucket, stage, g, bounds, stage')
    BY <2>10, <2>11, <2>12 DEF Stepped
  <2> QED BY <1>1, <1>11, <2>1, <2>13
<1> QED BY <1>3, <1>10, <1>11


\* The main agent is let through whatever waits.
LEMMA ObserverKeeps ==
    ASSUME IInv, NEW r \in Requests, ObserverRequest(r)
    PROVE  Stepped(bucket, stage, bucket', bounds', stage')
<1> DEFINE g == Grant(bucket, r)
<1>1. stage[r] = "idle" /\ IsObserver(r) /\ bounds' = bounds /\ bucket' = g /\ stage' = [stage EXCEPT ![r] = "open"]
  BY DEF ObserverRequest
<1>2. /\ g \in Sound /\ g.queues = bucket.queues /\ g.used = bucket.used /\ Waiting(g) = Waiting(bucket)
      /\ Cautious(bucket.ctl, g.ctl, {r}) /\ g.ctl.inFlight = bucket.ctl.inFlight + 1
      /\ g.ctl.growthLimit = bucket.ctl.growthLimit /\ g.ctl.waiters = bucket.ctl.waiters
  BY IInvFacts, GrantedBucket
<1> HIDE DEF g
<1>3. "open" \in Stages
  BY DEF Stages
<1>4. /\ stage' \in [Requests -> Stages]
      /\ \A q \in Requests : stage'[q] = IF q = r THEN "open" ELSE stage[q]
      /\ Opened(stage') = Opened(stage) \cup {r}
      /\ IsFiniteSet(Opened(stage)) /\ Cardinality(Opened(stage)) \in Nat
  BY <1>1, <1>3, IInvFacts, StageMoves
<1>5. r \notin Opened(stage)
  BY <1>1 DEF Opened
<1>6. g.ctl.inFlight = Cardinality(Opened(stage'))
  <2>1. Cardinality(Opened(stage) \cup {r}) = Cardinality(Opened(stage)) + 1
    BY <1>4, <1>5, FS_AddElement
  <2> QED BY <1>2, <1>4, <2>1, IInvFacts
<1>7. \A q \in Requests : stage'[q] = "queued" <=> q \in Waiting(g)
  BY <1>1, <1>2, <1>4, IInvFacts
<1>8. \A q \in Requests : stage'[q] \in {"missed", "queued"} => ~IsObserver(q)
  BY <1>4, IInvFacts
<1>9. Kept(g, bounds, stage') /\ Told(g)
  BY <1>2, <1>4, <1>6, <1>7, <1>8, IInvFacts DEF Kept, Told
<1>10. Cautious(bucket.ctl, g.ctl, Requests \ Opened(stage))
  <2>1. {r} \subseteq Requests \ Opened(stage)
    BY <1>5
  <2> QED BY <1>2, <2>1, CautiousMore
<1>11. InTurn(bucket, stage, g, stage')
  <2>1. Opened(stage') \ Opened(stage) \subseteq {r}
    BY <1>4
  <2> QED BY <1>1, <2>1 DEF InTurn
<1> QED BY <1>1, <1>9, <1>10, <1>11 DEF Stepped

LEMMA AdmitKeeps ==
    ASSUME IInv, NEW r \in Requests, Admit(r)
    PROVE  Stepped(bucket, stage, bucket', bounds', stage')
<1> DEFINE n  == NoteRunUsed(bucket, RunOf[r])
           e  == Enqueue(n, r)
           pl == [stage EXCEPT ![r] = "queued"]
<1>1. stage[r] = "missed" /\ ~IsObserver(r) /\ r \notin Waiting(bucket)
  BY IInvFacts DEF Admit
<1>2. DrainTo(e, pl) /\ bounds' = bounds
  BY DEF Admit
<1>3. /\ n \in Sound /\ n.queues = bucket.queues /\ Waiting(n) = Waiting(bucket)
      /\ n.ctl.growthLimit = Growth(n.used, bounds)
      /\ n.ctl.inFlight = bucket.ctl.inFlight /\ n.ctl.waiters = bucket.ctl.waiters
      /\ Cautious(bucket.ctl, n.ctl, {})
  BY <1>1, NotedKeeps
<1> HIDE DEF n
<1>4. /\ e \in Sound /\ e.ctl = n.ctl /\ e.used = n.used
      /\ Waiting(e) = Waiting(n) \cup {r} /\ Joined(n.queues, e.queues, r)
  BY <1>1, <1>3, EnqueuedBucket
<1> HIDE DEF e
<1>5. "queued" \in Stages
  BY DEF Stages
<1>6. /\ pl \in [Requests -> Stages]
      /\ \A q \in Requests : pl[q] = IF q = r THEN "queued" ELSE stage[q]
      /\ Opened(pl) = Opened(stage) \ {r}
  BY <1>5, IInvFacts, StageMoves
<1> HIDE DEF pl
<1>7. Opened(pl) = Opened(stage)
  BY <1>1, <1>6 DEF Opened
<1>8. Kept(e, bounds, pl)
  <2>1. \A q \in Requests : pl[q] = "queued" <=> q \in Waiting(e)
    BY <1>3, <1>4, <1>6, IInvFacts
  <2>2. \A q \in Requests : pl[q] \in {"missed", "queued"} => ~IsObserver(q)
    BY <1>1, <1>6, IInvFacts
  <2>3. e.ctl.inFlight = Cardinality(Opened(pl)) /\ e.ctl.growthLimit = Growth(e.used, bounds)
    BY <1>3, <1>4, <1>7, IInvFacts
  <2> QED BY <1>4, <1>6, <2>1, <2>2, <2>3, IInvFacts DEF Kept
<1>9. Prepared(bucket, stage, e)
  <2>1. \A q \in Waiting(e) : stage[q] \notin {"idle", "open"}
    BY <1>1, <1>3, <1>4, IInvFacts
  <2>2. ASSUME NEW s, NEW t \in Waiting(bucket), Ahead(e.queues, s, t)
        PROVE  Ahead(bucket.queues, s, t)
    <3>1. t # r
      BY <1>1
    <3> QED BY <1>3, <1>4, <2>2, <3>1 DEF Joined
  <2> QED BY <1>3, <1>4, <2>1, <2>2 DEF Prepared
<1>10. /\ bucket' = Drain(e)
       /\ stage' = [q \in Requests |-> IF q \in Waiting(e) \ Waiting(bucket') THEN "open" ELSE pl[q]]
  BY <1>2 DEF DrainTo
<1>11. Stepped(bucket, stage, bucket', bounds, stage')
  BY <1>7, <1>8, <1>9, <1>10, IInvFacts, DrainKeeps
<1> QED BY <1>2, <1>11

LEMMA AbortKeeps ==
    ASSUME IInv, NEW r \in Requests, Abort(r)
    PROVE  Stepped(bucket, stage, bucket', bounds', stage')
<1> DEFINE d == Dequeue(bucket, r)
           c == Counted(d)
           a == Armed(c)
<1>1. /\ stage[r] = "queued" /\ bounds' = bounds /\ bucket' = a
      /\ stage' = [stage EXCEPT ![r] = "idle"] /\ r \in Waiting(bucket)
  BY IInvFacts DEF Abort
<1>2. d \in Sound /\ d.ctl = bucket.ctl /\ d.used = bucket.used /\ Waiting(d) = Waiting(bucket) \ {r}
  BY <1>1, IInvFacts, DequeuedBucket
<1> HIDE DEF d
<1>3. Drained(d, c) /\ Told(c) /\ Waiting(c) = Waiting(d)
  BY <1>2, CountedBucket
<1> HIDE DEF c
<1>4. /\ c \in Sound /\ c.used = d.used /\ c.ctl.growthLimit = d.ctl.growthLimit
      /\ c.ctl.inFlight = d.ctl.inFlight /\ Cautious(d.ctl, c.ctl, {})
  <2>1. c \in Sound /\ c.used = d.used /\ c.ctl.growthLimit = d.ctl.growthLimit
    BY <1>3 DEF Drained
  <2>2. c.ctl.inFlight + Cardinality(Waiting(d)) = d.ctl.inFlight + Cardinality(Waiting(d))
    BY <1>3 DEF Drained
  <2>3. c.ctl.inFlight \in Nat /\ d.ctl.inFlight \in Nat /\ Cardinality(Waiting(d)) \in Nat
    BY <1>2, <2>1, SoundFields, WaitingIsQueued, RequestSetsFinite
  <2>4. Waiting(d) \ Waiting(c) = {}
    BY <1>3
  <2>5. Cautious(d.ctl, c.ctl, {})
    BY <1>3, <2>4 DEF Drained
  <2> QED BY <2>1, <2>2, <2>3, <2>5
<1>5. /\ a \in Sound /\ a.ctl = c.ctl /\ a.used = c.used /\ Waiting(a) = Waiting(c)
  BY <1>4, ArmedBucket
<1> HIDE DEF a
<1>6. "idle" \in Stages
  BY DEF Stages
<1>7. /\ stage' \in [Requests -> Stages]
      /\ \A q \in Requests : stage'[q] = IF q = r THEN "idle" ELSE stage[q]
      /\ Opened(stage') = Opened(stage) \ {r}
  BY <1>1, <1>6, IInvFacts, StageMoves
<1>8. Opened(stage') = Opened(stage)
  BY <1>1, <1>7 DEF Opened
<1>9. \A q \in Requests : stage'[q] = "queued" <=> q \in Waiting(a)
  BY <1>2, <1>3, <1>5, <1>7, IInvFacts
<1>10. \A q \in Requests : stage'[q] \in {"missed", "queued"} => ~IsObserver(q)
  BY <1>7, IInvFacts
<1>11. Kept(a, bounds, stage') /\ Told(a) /\ Cautious(bucket.ctl, a.ctl, {})
  BY <1>2, <1>3, <1>4, <1>5, <1>7, <1>8, <1>9, <1>10, IInvFacts DEF Kept, Told
<1>12. Stepped(bucket, stage, a, bounds, stage')
  BY <1>8, <1>11, QuietStep
<1> QED BY <1>1, <1>12

LEMMA AbortEarlyKeeps ==
    ASSUME IInv, NEW r \in Requests, AbortEarly(r)
    PROVE  Stepped(bucket, stage, bucket', bounds', stage')
<1>1. /\ stage[r] = "missed" /\ stage' = [stage EXCEPT ![r] = "idle"]
      /\ bucket' = bucket /\ bounds' = bounds
  BY DEF AbortEarly
<1>2. "idle" \in Stages
  BY DEF Stages
<1>3. /\ stage' \in [Requests -> Stages]
      /\ \A q \in Requests : stage'[q] = IF q = r THEN "idle" ELSE stage[q]
      /\ Opened(stage') = Opened(stage) \ {r}
  BY <1>1, <1>2, IInvFacts, StageMoves
<1>4. Opened(stage') = Opened(stage)
  BY <1>1, <1>3 DEF Opened
<1>5. Kept(bucket, bounds, stage')
  BY <1>1, <1>3, <1>4, IInvFacts DEF Kept
<1>6. Stepped(bucket, stage, bucket, bounds, stage')
  BY <1>4, <1>5, IInvFacts, QuietStep
<1> QED BY <1>1, <1>6


\* A change of the timer alone.
LEMMA WakeChange ==
    ASSUME NEW b \in Sound, NEW w \in Nat \cup {Never}
    PROVE  LET d == [b EXCEPT !.wake = w]
           IN  /\ d \in Sound /\ d.ctl = b.ctl /\ d.queues = b.queues /\ d.used = b.used
               /\ Waiting(d) = Waiting(b)
<1> DEFINE d == [b EXCEPT !.wake = w]
<1>1. b \in Buckets /\ QueuesWell(b.queues) /\ b.ctl \in Sane
  BY SoundFields
<1>2. d \in Buckets
  BY <1>1, BucketFields
<1>3. d.ctl = b.ctl /\ d.queues = b.queues /\ d.used = b.used
  BY <1>1 DEF Buckets
<1> HIDE DEF d
<1> QED BY <1>1, <1>2, <1>3 DEF Sound, Waiting, d

LEMMA WakeKeeps ==
    ASSUME IInv, Wake
    PROVE  Stepped(bucket, stage, bucket', bounds', stage')
<1> DEFINE e == [bucket EXCEPT !.wake = Never]
<1>1. DrainTo(e, stage) /\ bounds' = bounds
  BY DEF Wake
<1>2. Never \in Nat \cup {Never}
  OBVIOUS
<1>3. /\ e \in Sound /\ e.ctl = bucket.ctl /\ e.queues = bucket.queues /\ e.used = bucket.used
      /\ Waiting(e) = Waiting(bucket)
  BY <1>2, IInvFacts, WakeChange
<1> HIDE DEF e
<1>4. Kept(e, bounds, stage)
  BY <1>3, IInvFacts DEF Kept
<1>5. Prepared(bucket, stage, e)
  <2>1. \A q \in Waiting(e) : stage[q] \notin {"idle", "open"}
    BY <1>3, IInvFacts
  <2> QED BY <1>3, <2>1, IInvFacts DEF Prepared
<1>6. /\ bucket' = Drain(e)
      /\ stage' = [q \in Requests |-> IF q \in Waiting(e) \ Waiting(bucket') THEN "open" ELSE stage[q]]
  BY <1>1 DEF DrainTo
<1>7. Stepped(bucket, stage, bucket', bounds, stage')
  BY <1>4, <1>5, <1>6, IInvFacts, DrainKeeps
<1> QED BY <1>1, <1>7

LEMMA TickKeeps ==
    ASSUME IInv, Tick
    PROVE  Stepped(bucket, stage, bucket', bounds', stage')
<1> DEFINE a == Aged(bucket.ctl)
           c == [bucket EXCEPT !.ctl = a]
           d == [c EXCEPT !.wake = Sooner(bucket.wake)]
<1>1. bounds' = bounds /\ stage' = stage
  BY DEF Tick
<1>2. /\ a \in Sane /\ a.inFlight = bucket.ctl.inFlight /\ a.growthLimit = bucket.ctl.growthLimit
      /\ a.waiters = bucket.ctl.waiters /\ a.cap = bucket.ctl.cap /\ a.current = bucket.ctl.current
  BY IInvFacts, AgedController
<1>3. bucket' = d
  <2>1. c.wake = bucket.wake
    BY IInvFacts, SoundFields DEF Buckets
  <2> HIDE DEF a
  <2> QED BY <2>1, Zenon DEF Tick, a
<1> HIDE DEF a
<1>4. /\ c \in Sound /\ c.ctl = a /\ c.queues = bucket.queues /\ c.used = bucket.used
      /\ Waiting(c) = Waiting(bucket)
  BY <1>2, IInvFacts, CtlChange
<1> HIDE DEF c
<1>5. Sooner(bucket.wake) \in Nat \cup {Never}
  <2>1. bucket.wake \in Nat \cup {Never}
    BY IInvFacts, SoundFields
  <2> QED BY <2>1 DEF Sooner, Never
<1>6. /\ d \in Sound /\ d.ctl = c.ctl /\ d.queues = c.queues /\ d.used = c.used
      /\ Waiting(d) = Waiting(c)
  BY <1>4, <1>5, WakeChange
<1> HIDE DEF d
<1>7. Kept(d, bounds, stage) /\ Told(d)
  BY <1>2, <1>4, <1>6, IInvFacts DEF Kept, Told
<1>8. Cautious(bucket.ctl, d.ctl, {})
  BY <1>2, <1>4, <1>6, IInvFacts, SaneFields DEF Cautious
<1>9. Stepped(bucket, stage, d, bounds, stage)
  BY <1>7, <1>8, QuietStep
<1> QED BY <1>1, <1>3, <1>9

\* The limit after a change of the bounds.
LEMMA LimitedKeeps ==
    ASSUME IInv, NEW e, NEW u, NEW reg \in [Runs -> Bounds \cup {0}],
           Limited(bucket, e, u, Growth(u, reg))
    PROVE  Stepped(bucket, stage, e, reg, stage)
<1>1. Kept(e, reg, stage) /\ Told(e)
  BY IInvFacts DEF Limited, Kept, Told
<1>2. Cautious(bucket.ctl, e.ctl, {})
  BY DEF Limited
<1> QED BY <1>1, <1>2, QuietStep

LEMMA RunKeeps ==
    ASSUME IInv, NEW run \in Runs, Run(run)
    PROVE  Stepped(bucket, stage, bucket', bounds', stage')
<1>1. bucket.used \in SUBSET Runs
  BY IInvFacts, SoundFields
<1>2. ASSUME run \notin bucket.used, bucket' = bucket, NEW v, bounds' = [bounds EXCEPT ![run] = v]
      PROVE  Limited(bucket, bucket', bucket.used, Growth(bucket.used, bounds'))
  <2>1. {bounds'[x] : x \in bucket.used} = {bounds[x] : x \in bucket.used}
    BY <1>1, <1>2, IInvFacts
  <2>2. Growth(bucket.used, bounds') = Growth(bucket.used, bounds)
    BY <2>1, Zenon DEF Growth
  <2> QED BY <1>2, <2>2, IInvFacts DEF Limited
<1>3. ASSUME NEW n \in Bounds, SetRunBound(run, n)
      PROVE  Stepped(bucket, stage, bucket', bounds', stage')
  <2>1. /\ bounds' = [bounds EXCEPT ![run] = n] /\ stage' = stage
        /\ bucket' = IF run \in bucket.used THEN Refresh(bucket, bounds') ELSE bucket
    BY <1>3 DEF SetRunBound
  <2>2. bounds' \in [Runs -> Bounds \cup {0}]
    BY <2>1, IInvFacts
  <2>3. Limited(bucket, bucket', bucket.used, Growth(bucket.used, bounds'))
    <3>1. CASE run \in bucket.used
      BY <2>1, <2>2, <3>1, IInvFacts, RefreshedBucket
    <3>2. CASE run \notin bucket.used
      BY <1>2, <2>1, <3>2
    <3> QED BY <3>1, <3>2
  <2> QED BY <2>1, <2>2, <2>3, LimitedKeeps
<1>4. ASSUME ClearRunBound(run)
      PROVE  Stepped(bucket, stage, bucket', bounds', stage')
  <2> DEFINE u == bucket.used \ {run}
             d == [bucket EXCEPT !.used = u]
  <2>1. /\ bounds' = [bounds EXCEPT ![run] = 0] /\ stage' = stage
        /\ bucket' = IF run \in bucket.used THEN Refresh(d, bounds') ELSE bucket
    BY <1>4 DEF ClearRunBound
  <2>2. bounds' \in [Runs -> Bounds \cup {0}]
    BY <2>1, IInvFacts
  <2>3. CASE run \in bucket.used
    <3>1. /\ d \in Sound /\ d.ctl = bucket.ctl /\ d.queues = bucket.queues /\ d.used = u
          /\ d.wake = bucket.wake /\ Waiting(d) = Waiting(bucket)
      BY <1>1, IInvFacts, UsedChange
    <3> HIDE DEF d, u
    <3>2. Limited(d, bucket', u, Growth(u, bounds'))
      BY <2>1, <2>2, <2>3, <3>1, RefreshedBucket
    <3>3. Limited(bucket, bucket', u, Growth(u, bounds'))
      BY <3>1, <3>2 DEF Limited
    <3> QED BY <2>1, <2>2, <3>3, LimitedKeeps
  <2>4. CASE run \notin bucket.used
    <3>1. Limited(bucket, bucket', bucket.used, Growth(bucket.used, bounds'))
      BY <1>2, <2>1, <2>4
    <3> QED BY <2>1, <2>2, <3>1, LimitedKeeps
  <2> QED BY <2>3, <2>4
<1> QED BY <1>3, <1>4 DEF Run


LEMMA NextSteps ==
    ASSUME IInv, Next
    PROVE  Stepped(bucket, stage, bucket', bounds', stage')
<1>1. ASSUME NEW r \in Requests, Attempt(r)
      PROVE  Stepped(bucket, stage, bucket', bounds', stage')
  BY <1>1, TryAdmitKeeps, ObserverKeeps, AdmitKeeps, AbortKeeps, AbortEarlyKeeps DEF Attempt
<1> QED BY <1>1, EndingKeeps, RunKeeps, WakeKeeps, TickKeeps DEF Next

LEMMA SteppedInvariant ==
    ASSUME Stepped(bucket, stage, bucket', bounds', stage')
    PROVE  IInv'
<1>1. Kept(bucket', bounds', stage') /\ Told(bucket')
  BY DEF Stepped
<1>2. IInv' <=> Kept(bucket', bounds', stage') /\ Told(bucket')
  BY Zenon DEF IInv, Kept, Told
<1> QED BY <1>1, <1>2

LEMMA InvariantStep ==
    IInv /\ [Next]_vars => IInv'
<1>1. CASE IInv /\ Next
  BY <1>1, NextSteps, SteppedInvariant
<1>2. CASE IInv /\ UNCHANGED vars
  <2>1. bucket' = bucket /\ bounds' = bounds /\ stage' = stage
    BY <1>2 DEF vars
  <2>2. IInv' <=> Kept(bucket', bounds', stage') /\ Told(bucket')
    BY Zenon DEF IInv, Kept, Told
  <2> QED BY <1>2, <2>1, <2>2 DEF IInv
<1> QED BY <1>1, <1>2

LEMMA InitialController ==
    /\ NewController(BaseLimit) \in Sane
    /\ NewController(BaseLimit).inFlight = 0 /\ NewController(BaseLimit).waiters = 0
    /\ NewController(BaseLimit).growthLimit = BaseLimit
<1> DEFINE c == NewController(BaseLimit)
<1>1. BaseLimit \in Nat /\ D <= BaseLimit /\ BaseLimit > 0 /\ D \in Nat /\ D > 0
  BY BaseLimitType, ConstantsType
<1>2. Max({D, BaseLimit}) = BaseLimit
  BY <1>1, MaxOfTwo
<1>3. c = [cap |-> D, growthLimit |-> BaseLimit, current |-> {}, inFlight |-> 0,
           waiters |-> 0, streak |-> 0, cooldown |-> Never, requestAge |-> Never,
           throttledAge |-> Never, lastGood |-> NoCap]
  BY <1>2 DEF NewController
<1> HIDE DEF c
<1>4. D \in Nat \ {0} /\ BaseLimit \in Nat \ {0}
  BY <1>1
<1>5. c \in Controllers(Requests)
  BY <1>3, <1>4, Resets DEF Controllers
<1>6. c.lastGood = 0 /\ c.cap = D /\ c.growthLimit = BaseLimit /\ c.inFlight = 0 /\ c.waiters = 0
  BY <1>3 DEF NoCap
<1>7. c \in Sane
  BY <1>1, <1>5, <1>6 DEF Sane
<1> QED BY <1>6, <1>7 DEF c

LEMMA InvariantInit ==
    Init => IInv
<1> SUFFICES ASSUME Init PROVE IInv
  OBVIOUS
<1>1. PICK c : c = NewController(BaseLimit)
  OBVIOUS
<1>2. c \in Sane /\ c.inFlight = 0 /\ c.waiters = 0 /\ c.growthLimit = BaseLimit
  BY <1>1, InitialController
<1>3. bucket = [ctl |-> c, queues |-> <<>>, last |-> NoRun, used |-> {}, wake |-> Never]
  BY <1>1 DEF Init
<1>4. /\ bucket.ctl = c /\ bucket.queues = <<>> /\ bucket.used = {}
      /\ bucket.last = NoRun /\ bucket.wake = Never
  BY <1>3
<1>5. <<>> \in Seq([run : Runs, waiting : Seq(Requests)]) /\ DOMAIN <<>> = {}
  OBVIOUS
<1>6. bucket \in Buckets
  BY <1>2, <1>3, <1>5, SaneFields DEF Buckets
<1>7. QueuesWell(bucket.queues) /\ Waiting(bucket) = {}
  BY <1>4, <1>5 DEF QueuesWell, Waiting
<1>8. bucket \in Sound
  BY <1>2, <1>4, <1>6, <1>7 DEF Sound
<1>9. bounds \in [Runs -> Bounds \cup {0}] /\ stage = [r \in Requests |-> "idle"]
  BY DEF Init
<1>10. stage \in [Requests -> Stages] /\ Opened(stage) = {} /\ \A r \in Requests : stage[r] = "idle"
  BY <1>9 DEF Stages, Opened
<1>11. Growth(bucket.used, bounds) = BaseLimit
  <2>1. {BaseLimit} \cup {bounds[run] : run \in {}} = {BaseLimit, BaseLimit}
    OBVIOUS
  <2>2. Growth({}, bounds) = Max({BaseLimit, BaseLimit})
    BY <2>1, Zenon DEF Growth
  <2> QED BY <1>4, <2>2, BaseLimitType, MaxOfTwo
<1>12. Cardinality(Opened(stage)) = 0 /\ Cardinality(Waiting(bucket)) = 0
  BY <1>7, <1>10, FS_EmptySet
<1>13. Kept(bucket, bounds, stage)
  BY <1>2, <1>4, <1>7, <1>8, <1>9, <1>10, <1>11, <1>12 DEF Kept
<1>14. Told(bucket)
  BY <1>2, <1>4, <1>12 DEF Told
<1> QED BY <1>13, <1>14 DEF IInv

LEMMA Invariance ==
    Spec => []IInv
BY InvariantInit, InvariantStep, PTL DEF Spec

--------------------------------------------------------------------------------
(* What follows. *)

\* Every record, queue and stage of the gate keeps its shape through every interleaving of
\* admit(), the tickets' endings, aborts, retunes and the timer: the floor included.
THEOREM GateTypes ==
    Spec => []TypeOK
<1>1. IInv => TypeOK
  BY IInvFacts, SoundFields DEF TypeOK
<1> QED BY <1>1, Invariance, PTL

\* The controller's inFlight is the number of tickets that are out, and its waiters the
\* number of entries in the queues: no ending is counted twice, and none is missed.
THEOREM EveryTicketIsCounted ==
    Spec => []InFlightExact
<1>1. IInv => InFlightExact
  <2> SUFFICES ASSUME IInv PROVE InFlightExact
    OBVIOUS
  <2>1. Open = Opened(stage)
    BY DEF Open, Opened
  <2> QED BY <2>1, IInvFacts DEF InFlightExact, Told
<1> QED BY <1>1, Invariance, PTL

\* refreshGrowthLimit() runs wherever a run joins, leaves or is retuned, so that the limit
\* is always that of the runs in use, and no signal takes the cap out of floor..limit.
THEOREM CapFollowsTheRuns ==
    Spec => []CapWithinGrowth
<1>1. IInv => CapWithinGrowth
  <2> SUFFICES ASSUME IInv PROVE CapWithinGrowth
    OBVIOUS
  <2>1. /\ bucket.ctl.cap \in Nat /\ bucket.ctl.cap > 0 /\ bucket.ctl.growthLimit \in Nat
        /\ bucket.ctl.lastGood \in Nat
        /\ bucket.ctl.lastGood <= bucket.ctl.cap /\ bucket.ctl.cap <= bucket.ctl.growthLimit
    BY IInvFacts, SaneFields
  <2>2. bucket.ctl.cap \in Floor..bucket.ctl.growthLimit
        /\ bucket.ctl.lastGood <= bucket.ctl.growthLimit
    BY <2>1 DEF Floor
  <2>3. bucket.ctl.growthLimit = Growth(bucket.used, bounds)
    BY IInvFacts
  <2> QED BY <2>2, <2>3, Zenon DEF CapWithinGrowth, Growth
<1> QED BY <1>1, Invariance, PTL

\* An epoch ends whenever the cap is lowered, by throttled() or setGrowthLimit() or an idle
\* reset, and a drain in the same step adds to it only those it lets through: so a refusal
\* still to come from a request that was out already finds that it is not of the epoch.
THEOREM ABurstLowersOnce ==
    Spec => BurstCountsOnce
<1> DEFINE Once == bucket'.ctl.cap < bucket.ctl.cap =>
                     \A r \in Open \cap Open' : Throttled(bucket'.ctl, r, 0).cap = bucket'.ctl.cap
<1>1. IInv /\ Next => Once
  <2> SUFFICES ASSUME IInv, Next, bucket'.ctl.cap < bucket.ctl.cap,
                      NEW r \in Open, r \in Open'
               PROVE  Throttled(bucket'.ctl, r, 0).cap = bucket'.ctl.cap
    OBVIOUS
  <2>1. Stepped(bucket, stage, bucket', bounds', stage')
    BY NextSteps
  <2>2. PICK d : d = bucket'
    OBVIOUS
  <2>3. Kept(d, bounds', stage') /\ Cautious(bucket.ctl, d.ctl, Requests \ Opened(stage))
    BY <2>1, <2>2 DEF Stepped
  <2>4. d.ctl \in Sane /\ bucket.ctl \in Sane
    BY <2>3, IInvFacts, SoundFields DEF Kept
  <2>5. r \in Requests /\ r \in Opened(stage) /\ stage'[r] = "open"
    BY DEF Open, Opened
  <2>6. ~(d.ctl.cap >= bucket.ctl.cap)
    BY <2>2, <2>4, SaneFields
  <2>7. r \notin d.ctl.current
    BY <2>3, <2>5, <2>6 DEF Cautious
  <2>8. d.ctl.inFlight > 0
    BY <2>3, <2>5, OpenIsCounted
  <2>9. Throttled(d.ctl, r, 0).cap = d.ctl.cap
    BY <2>4, <2>5, <2>7, <2>8, LateRefusal
  <2> QED BY <2>2, <2>9
<1>2. IInv /\ UNCHANGED vars => Once
  <2> SUFFICES ASSUME IInv, UNCHANGED vars, bucket'.ctl.cap < bucket.ctl.cap PROVE FALSE
    OBVIOUS
  <2>1. bucket' = bucket /\ bucket.ctl.cap \in Nat
    BY IInvFacts, SaneFields DEF vars
  <2> QED BY <2>1
<1> HIDE DEF Once
<1>3. IInv /\ [Next]_vars => Once
  BY <1>1, <1>2
<1>4. BurstCountsOnce <=> [][Once]_vars
  BY PTL DEF BurstCountsOnce, Once
<1> QED BY <1>3, <1>4, Invariance, PTL DEF Spec

\* admit() lets a request pass only if nobody waits, and drain() takes the entries' heads:
\* a waiting request is never overtaken by one that had not queued, nor by a younger one
\* of its run.  The main agent is the exception.
THEOREM NobodyOvertakes ==
    Spec => NoOvertaking
<1> DEFINE Turn == \A r \in Open' \ Open : \A s \in Waiting(bucket) \cap Waiting(bucket') :
                     \/ IsObserver(r)
                     \/ stage[r] # "idle" /\ (RunOf[r] = RunOf[s] => Before(bucket, r, s))
<1>1. IInv /\ Next => Turn
  <2> SUFFICES ASSUME IInv, Next, NEW r \in Open', r \notin Open,
                      NEW s \in Waiting(bucket), s \in Waiting(bucket')
               PROVE  \/ IsObserver(r)
                      \/ stage[r] # "idle" /\ (RunOf[r] = RunOf[s] => Before(bucket, r, s))
    OBVIOUS
  <2>1. InTurn(bucket, stage, bucket', stage')
    BY NextSteps DEF Stepped
  <2>2. r \in Opened(stage') \ Opened(stage) /\ s \in Waiting(bucket) \cap Waiting(bucket')
    BY DEF Open, Opened, Waiting
  <2>3. Before(bucket, r, s) <=> Ahead(bucket.queues, r, s)
    BY IInvFacts, SoundFields, WaitingIsQueued
  <2> QED BY <2>1, <2>2, <2>3 DEF InTurn
<1>2. UNCHANGED vars => Turn
  <2> SUFFICES ASSUME UNCHANGED vars PROVE Open' = Open
    OBVIOUS
  <2> QED BY DEF vars, Open
<1> HIDE DEF Turn
<1>3. IInv /\ [Next]_vars => Turn
  BY <1>1, <1>2
<1>4. NoOvertaking <=> [][Turn]_vars
  BY PTL DEF NoOvertaking, Turn
<1> QED BY <1>3, <1>4, Invariance, PTL DEF Spec


--------------------------------------------------------------------------------
(* Who wakes the waiters. *)

\* Nobody is left to let through, or nobody may be.
Spent(b) == Waiting(b) = {} \/ ~CanAdmit(b.ctl)

LEMMA GrantOneSpends ==
    ASSUME NEW b \in Sound
    PROVE  \/ Spent(b) /\ GrantOne(b) = b
           \/ Cardinality(Waiting(b)) = Cardinality(Waiting(GrantOne(b))) + 1
<1>1. CASE CanAdmit(b.ctl) /\ b.queues # <<>>
  <2> DEFINE g == GrantNext(b)
  <2>1. Drained(b, g) /\ Cardinality(Waiting(b)) = Cardinality(Waiting(g)) + 1
    BY <1>1, GrantNextDrains
  <2>2. GrantOne(b) = Counted(g)
    BY <1>1 DEF GrantOne
  <2> HIDE DEF g
  <2>3. Waiting(Counted(g)) = Waiting(g)
    BY <2>1, CountedBucket DEF Drained
  <2> QED BY <2>1, <2>2, <2>3
<1>2. CASE ~(CanAdmit(b.ctl) /\ b.queues # <<>>)
  <2>1. GrantOne(b) = b
    BY <1>2 DEF GrantOne
  <2>2. b.queues = <<>> => Waiting(b) = {}
    BY DEF Waiting
  <2> QED BY <1>2, <2>1, <2>2 DEF Spent
<1> QED BY <1>1, <1>2

\* As many rounds as there are requests are enough.
LEMMA RoundsSpend ==
    ASSUME NEW b \in Sound, Told(b), NEW N \in Nat, Cardinality(Waiting(b)) <= N,
           NEW g, Rounds(g, b, N)
    PROVE  Spent(g[N])
<1> DEFINE Good(n) == Spent(g[n]) \/ Cardinality(Waiting(g[n])) + n <= N
           T       == {n \in Nat : n <= N /\ ~Good(n)}
<1>1. \A n \in 0..N : g[n] = IF n = 0 THEN b ELSE GrantOne(g[n - 1])
  BY DEF Rounds
<1>2. ASSUME NEW n \in 0..N
      PROVE  g[n] \in Sound /\ Cardinality(Waiting(g[n])) \in Nat
  <2> DEFINE h == [k \in 0..n |-> g[k]]
  <2>1. Rounds(h, b, n)
    <3>1. \A k \in 0..n : h[k] = IF k = 0 THEN b ELSE GrantOne(h[k - 1])
      BY <1>1
    <3>2. h = [k \in 0..n |-> h[k]]
      OBVIOUS
    <3> HIDE DEF h
    <3> QED BY <3>1, <3>2 DEF Rounds
  <2>2. h[n] = g[n]
    OBVIOUS
  <2> HIDE DEF h
  <2>3. n \in Nat
    OBVIOUS
  <2>4. Drained(b, h[n])
    BY <2>1, <2>3, RoundsDrain
  <2>5. PICK c : c = g[n]
    OBVIOUS
  <2>6. c \in Sound
    BY <2>2, <2>4, <2>5 DEF Drained
  <2>7. Cardinality(Waiting(c)) \in Nat
    BY <2>6, SoundFields, WaitingIsQueued, RequestSetsFinite
  <2> QED BY <2>5, <2>6, <2>7
<1>3. Good(0)
  <2>1. g[0] = b
    BY <1>1
  <2>2. Cardinality(Waiting(b)) \in Nat
    BY SoundFields, WaitingIsQueued, RequestSetsFinite
  <2> QED BY <2>1, <2>2
<1>4. ASSUME NEW n \in 1..N, Good(n - 1) PROVE Good(n)
  <2>1. g[n] = GrantOne(g[n - 1]) /\ n - 1 \in 0..N
    BY <1>1
  <2>2. PICK c, d : c = g[n - 1] /\ d = g[n]
    OBVIOUS
  <2>3. /\ c \in Sound /\ d = GrantOne(c)
        /\ Cardinality(Waiting(c)) \in Nat /\ Cardinality(Waiting(d)) \in Nat
    BY <1>2, <2>1, <2>2
  <2>4. \/ Spent(c) /\ d = c
        \/ Cardinality(Waiting(c)) = Cardinality(Waiting(d)) + 1
    BY <2>3, GrantOneSpends
  <2>5. Spent(c) => Spent(d) \/ Cardinality(Waiting(c)) = Cardinality(Waiting(d)) + 1
    BY <2>4
  <2>6. CASE Spent(c) /\ d = c
    BY <2>2, <2>6
  <2>7. CASE /\ Cardinality(Waiting(c)) = Cardinality(Waiting(d)) + 1
             /\ Cardinality(Waiting(c)) + (n - 1) <= N
    BY <2>2, <2>3, <2>7
  <2>8. CASE Spent(c) /\ ~(d = c)
    <3>1. c.queues # <<>> /\ CanAdmit(c.ctl)
      BY <2>3, <2>8 DEF GrantOne
    <3>2. Waiting(c) = {}
      BY <2>8, <3>1 DEF Spent
    <3>3. Cardinality(Waiting(c)) = 0
      BY <3>2, FS_EmptySet
    <3> QED BY <2>3, <2>4, <2>8, <3>3
  <2> QED BY <1>4, <2>2, <2>4, <2>6, <2>7, <2>8
<1> HIDE DEF Good
<1>5. T = {}
  <2> SUFFICES ASSUME T # {} PROVE FALSE
    OBVIOUS
  <2>1. PICK m \in T : \A n \in T : m <= n
    <3>1. T \in SUBSET Nat
      OBVIOUS
    <3> HIDE DEF T
    <3> QED BY <3>1, SmallestNat
  <2>2. m \in Nat /\ m <= N /\ ~Good(m) /\ m # 0
    BY <1>3, <2>1
  <2>3. m \in 1..N /\ m - 1 \in Nat /\ m - 1 <= N /\ ~(m <= m - 1)
    BY <2>2
  <2>4. m - 1 \notin T
    BY <2>1, <2>3
  <2>5. Good(m - 1)
    BY <2>3, <2>4
  <2> QED BY <1>4, <2>2, <2>3, <2>5
<1>6. Good(N)
  BY <1>5
<1>7. PICK d : d = g[N]
  OBVIOUS
<1>8. IsFiniteSet(Waiting(d)) /\ Cardinality(Waiting(d)) \in Nat
  <2>1. d \in Sound
    BY <1>2, <1>7
  <2> QED BY <2>1, SoundFields, WaitingIsQueued, RequestSetsFinite
<1>9. CASE Cardinality(Waiting(d)) + N <= N
  <2>1. Cardinality(Waiting(d)) = 0
    BY <1>8, <1>9
  <2>2. Waiting(d) = {}
    BY <1>8, <2>1, FS_EmptySet
  <2> QED BY <1>7, <2>2 DEF Spent
<1> QED BY <1>6, <1>7, <1>9 DEF Good

Watched(b, st) == Waiting(b) # {} => Opened(st) # {} \/ b.wake # Never

\* A drain that leaves somebody waiting leaves a request in flight, or a cooldown and so a
\* timer.
LEMMA DrainWatches ==
    ASSUME NEW e \in Sound, NEW reg, NEW st, Kept(Drain(e), reg, st)
    PROVE  Watched(Drain(e), st)
<1> DEFINE o == [e EXCEPT !.ctl = Observe(@)]
           x == Counted(o)
           N == Cardinality(Requests)
           after == CHOOSE g : Rounds(g, x, N)
<1>1. N \in Nat /\ IsFiniteSet(Requests)
  BY RequestSetsFinite
<1>2. o \in Sound
  BY ObservedBucket DEF Drained
<1>3. Drain(e) = Armed(after[N])
  BY DEF Drain, Rounds
<1>4. Waiting(o) \subseteq Requests /\ Cardinality(Waiting(o)) <= N
  <2> HIDE DEF o
  <2>1. Waiting(o) \subseteq Requests
    BY <1>2, SoundFields, WaitingIsQueued
  <2> QED BY <1>1, <2>1, FS_Subset
<1> HIDE DEF o, N
<1>5. x \in Sound /\ Told(x) /\ Cardinality(Waiting(x)) <= N
  BY <1>2, <1>4, CountedBucket DEF Drained
<1> HIDE DEF x
<1>6. Rounds(after, x, N)
  BY <1>1, RoundsExist
<1> HIDE DEF after
<1>7. PICK d : d = after[N]
  OBVIOUS
<1>8. Spent(d)
  BY <1>1, <1>5, <1>6, <1>7, RoundsSpend
<1>9. d \in Sound
  BY <1>1, <1>5, <1>6, <1>7, RoundsDrain DEF Drained
<1>10. PICK a : a = Armed(d)
  OBVIOUS
<1>11. a.ctl = d.ctl /\ Waiting(a) = Waiting(d)
  BY <1>9, <1>10, ArmedBucket
<1>12. Waiting(d) # {} => a.wake = d.ctl.cooldown
  BY <1>9, <1>10, SoundFields DEF Armed, Buckets
<1>13. Kept(a, reg, st)
  BY <1>3, <1>7, <1>10
<1>14. ASSUME Waiting(a) # {} PROVE Opened(st) # {} \/ a.wake # Never
  <2>1. ~(d.ctl.inFlight < d.ctl.cap) \/ d.ctl.cooldown > 0
    BY <1>8, <1>11, <1>14 DEF Spent, CanAdmit, CoolingDown
  <2>2. CASE d.ctl.cooldown > 0
    BY <1>11, <1>12, <1>14, <2>2 DEF Never
  <2>3. CASE ~(d.ctl.inFlight < d.ctl.cap)
    <3>1. d.ctl.cap \in Nat /\ d.ctl.cap > 0 /\ d.ctl.inFlight \in Nat
      BY <1>9, SoundFields, SaneFields
    <3>2. d.ctl.inFlight = Cardinality(Opened(st))
      BY <1>11, <1>13 DEF Kept
    <3>3. Cardinality(Opened(st)) # 0
      BY <2>3, <3>1, <3>2
    <3> QED BY <3>3, FS_EmptySet
  <2> QED BY <2>1, <2>2, <2>3
<1> QED BY <1>3, <1>7, <1>10, <1>14 DEF Watched

\* Only the abort of a waiting request can take the timer away from the others.
LEMMA NextWatches ==
    ASSUME IInv, Next, ~MayAbort, Watched(bucket, stage)
    PROVE  Watched(bucket', stage')
<1>1. Kept(bucket', bounds', stage')
  BY NextSteps DEF Stepped
<1>2. ASSUME NEW e \in Sound, bucket' = Drain(e)
      PROVE  Watched(bucket', stage')
  BY <1>1, <1>2, DrainWatches
<1>3. ASSUME NEW r \in Requests, stage'[r] = "open"
      PROVE  Watched(bucket', stage')
  BY <1>3 DEF Watched, Opened
<1>4. ASSUME Waiting(bucket') = Waiting(bucket), Opened(stage') = Opened(stage), bucket'.wake = bucket.wake
      PROVE  Watched(bucket', stage')
  BY <1>4 DEF Watched
<1>5. ASSUME NEW r \in Requests, TryAdmit(r)
      PROVE  Watched(bucket', stage')
  <2> DEFINE n    == NoteRunUsed(bucket, RunOf[r])
             o    == Observe(n.ctl)
             seen == [n EXCEPT !.ctl = o]
  <2>1. stage[r] = "idle" /\ ~IsObserver(r)
    BY <1>5 DEF TryAdmit
  <2>2. \/ bucket' = seen /\ stage' = [stage EXCEPT ![r] = "missed"]
        \/ stage' = [stage EXCEPT ![r] = "open"]
    BY <1>5 DEF TryAdmit
  <2>3. CASE stage' = [stage EXCEPT ![r] = "open"]
    BY <1>3, <2>3, IInvFacts
  <2>4. CASE bucket' = seen /\ stage' = [stage EXCEPT ![r] = "missed"]
    <3>1. n \in Sound /\ Waiting(n) = Waiting(bucket) /\ n.wake = bucket.wake
      BY <2>1, NotedKeeps
    <3> HIDE DEF n
    <3>2. o \in Sane
      BY <3>1, SoundFields, ObserveSignal DEF Signalled
    <3> HIDE DEF o
    <3>3. Waiting(seen) = Waiting(n) /\ seen.wake = n.wake
      BY <3>1, <3>2, CtlChange
    <3>4. Opened(stage') = Opened(stage)
      BY <2>1, <2>4, IInvFacts DEF Opened
    <3> QED BY <1>4, <2>4, <3>1, <3>3, <3>4
  <2> QED BY <2>2, <2>3, <2>4
<1>6. ASSUME NEW r \in Requests, ObserverRequest(r)
      PROVE  Watched(bucket', stage')
  <2>1. stage'[r] = "open"
    BY <1>6, IInvFacts DEF ObserverRequest
  <2> QED BY <1>3, <2>1
<1>7. ASSUME NEW r \in Requests, Admit(r)
      PROVE  Watched(bucket', stage')
  <2>1. bucket' = Drain(Enqueue(NoteRunUsed(bucket, RunOf[r]), r))
    BY <1>7 DEF Admit, DrainTo
  <2>2. ~IsObserver(r) /\ r \notin Waiting(bucket)
    BY <1>7, IInvFacts DEF Admit
  <2>3. PICK n : n = NoteRunUsed(bucket, RunOf[r])
    OBVIOUS
  <2>4. n \in Sound /\ Waiting(n) = Waiting(bucket)
    BY <2>2, <2>3, NotedKeeps
  <2>5. Enqueue(n, r) \in Sound
    BY <2>2, <2>4, EnqueuedBucket
  <2> QED BY <1>2, <2>1, <2>3, <2>5
<1>8. ASSUME NEW r \in Requests, Abort(r) \/ AbortEarly(r)
      PROVE  FALSE
  BY <1>8 DEF Abort, AbortEarly
<1>9. ASSUME NEW r \in Requests, stage[r] = "open", NEW ctl, Signalled(bucket.ctl, ctl, 1),
             NEW place, Settle(r, ctl, place)
      PROVE  Watched(bucket', stage')
  <2>1. bucket' = Drain([bucket EXCEPT !.ctl = ctl])
    BY <1>9 DEF Settle, DrainTo
  <2>2. ctl \in Sane
    BY <1>9 DEF Signalled
  <2>3. [bucket EXCEPT !.ctl = ctl] \in Sound
    BY <2>2, IInvFacts, CtlChange
  <2> QED BY <1>2, <2>1, <2>3
<1>10. ASSUME NEW r \in Requests, Ending(r)
       PROVE  Watched(bucket', stage')
  <2>1. stage[r] = "open" => bucket.ctl.inFlight > 0
    BY IInvFacts, OpenIsCounted
  <2>2. CASE Complete(r)
    <3>1. Signalled(bucket.ctl, Succeeded(bucket.ctl, r), 1)
      BY <2>1, <2>2, IInvFacts, SucceededSignal DEF Complete
    <3> QED BY <1>9, <2>2, <3>1 DEF Complete
  <2>3. CASE Fail(r)
    <3>1. Signalled(bucket.ctl, FailedTransient(bucket.ctl, r), 1)
      BY <2>1, <2>3, IInvFacts, TransientSignal DEF Fail
    <3>2. Signalled(bucket.ctl, Ended(bucket.ctl, r), 1)
      BY <2>1, <2>3, IInvFacts, EndedSignal DEF Fail
    <3> QED BY <1>9, <2>3, <3>1, <3>2 DEF Fail
  <2>4. CASE Refuse(r)
    <3>1. PICK after \in RetryAfters : Settle(r, Throttled(bucket.ctl, r, after), "settled")
      BY <2>4 DEF Refuse
    <3>2. Signalled(bucket.ctl, Throttled(bucket.ctl, r, after), 1)
      BY <2>1, <2>4, IInvFacts, ThrottledSignal, GovernorAssumption DEF Refuse
    <3> QED BY <1>9, <2>4, <3>1, <3>2 DEF Refuse
  <2>5. CASE Release(r)
    <3>1. CASE stage[r] = "open" /\ Settle(r, Ended(bucket.ctl, r), "idle")
      <4>1. Signalled(bucket.ctl, Ended(bucket.ctl, r), 1)
        BY <2>1, <3>1, IInvFacts, EndedSignal
      <4> QED BY <1>9, <3>1, <4>1
    <3>2. CASE stage[r] = "settled" /\ stage' = [stage EXCEPT ![r] = "idle"] /\ UNCHANGED <<bucket, bounds>>
      <4>1. Opened(stage') = Opened(stage)
        BY <3>2, IInvFacts DEF Opened
      <4> QED BY <1>4, <3>2, <4>1
    <3> QED BY <2>5, <3>1, <3>2 DEF Release
  <2> QED BY <1>10, <2>2, <2>3, <2>4, <2>5 DEF Ending
<1>11. ASSUME NEW run \in Runs, Run(run)
       PROVE  Watched(bucket', stage')
  <2>1. stage' = stage /\ bounds' \in [Runs -> Bounds \cup {0}]
    BY <1>1, <1>11 DEF Run, SetRunBound, ClearRunBound, Kept
  <2>2. Waiting(bucket') = Waiting(bucket) /\ bucket'.wake = bucket.wake
    <3>1. CASE bucket' = bucket
      BY <3>1
    <3>2. CASE bucket' = Refresh(bucket, bounds')
      BY <2>1, <3>2, IInvFacts, RefreshedBucket DEF Limited
    <3>3. CASE bucket' = Refresh([bucket EXCEPT !.used = @ \ {run}], bounds')
      <4> DEFINE u == bucket.used \ {run}
                 d == [bucket EXCEPT !.used = u]
      <4>1. u \in SUBSET Runs
        BY IInvFacts, SoundFields
      <4>2. d \in Sound /\ d.wake = bucket.wake /\ Waiting(d) = Waiting(bucket)
        BY <4>1, IInvFacts, UsedChange
      <4>3. bucket' = Refresh(d, bounds')
        BY <3>3
      <4> HIDE DEF d
      <4> QED BY <2>1, <4>2, <4>3, RefreshedBucket DEF Limited
    <3> QED BY <1>11, <3>1, <3>2, <3>3 DEF Run, SetRunBound, ClearRunBound
  <2> QED BY <1>4, <2>1, <2>2
<1>12. ASSUME Wake
       PROVE  Watched(bucket', stage')
  <2>1. bucket' = Drain([bucket EXCEPT !.wake = Never])
    BY <1>12 DEF Wake, DrainTo
  <2>2. [bucket EXCEPT !.wake = Never] \in Sound
    BY IInvFacts, WakeChange
  <2> QED BY <1>2, <2>1, <2>2
<1>13. ASSUME Tick
       PROVE  Watched(bucket', stage')
  <2>1. /\ bucket' = [bucket EXCEPT !.ctl = Aged(@), !.wake = Sooner(@)]
        /\ stage' = stage
    BY <1>13 DEF Tick
  <2>2. bucket \in Buckets /\ bucket.wake \in Nat \cup {Never}
    BY IInvFacts, SoundFields
  <2>3. bucket'.wake = Sooner(bucket.wake) /\ bucket'.queues = bucket.queues
    BY <2>1, <2>2 DEF Buckets
  <2>4. bucket.wake # Never => bucket'.wake # Never
    BY <2>2, <2>3 DEF Sooner, Never
  <2>5. Waiting(bucket') = Waiting(bucket)
    BY <2>3 DEF Waiting
  <2> QED BY <2>1, <2>4, <2>5 DEF Watched
<1>14. ASSUME NEW r \in Requests, Attempt(r)
       PROVE  Watched(bucket', stage')
  BY <1>5, <1>6, <1>7, <1>8, <1>14 DEF Attempt
<1> QED BY <1>10, <1>11, <1>12, <1>13, <1>14 DEF Next

\* As long as no waiting request is aborted, drain() and armCooldownWake() leave nobody
\* waiting without a request in flight or a timer: the abort's listener, which arms without
\* draining, is the one place that can lose the wake.
THEOREM OnlyAbortsLoseTheWake ==
    ASSUME ~MayAbort
    PROVE  Spec => []WaitersAreWatched
<1>1. WaitersAreWatched <=> Watched(bucket, stage)
  BY DEF WaitersAreWatched, Watched, Open, Opened
<1>2. Init => WaitersAreWatched
  <2> SUFFICES ASSUME Init PROVE Waiting(bucket) = {}
    BY DEF WaitersAreWatched
  <2>1. bucket.queues = <<>>
    BY DEF Init
  <2> QED BY <2>1 DEF Waiting
<1>3. IInv /\ WaitersAreWatched /\ [Next]_vars => WaitersAreWatched'
  <2>1. CASE IInv /\ WaitersAreWatched /\ Next
    <3>1. Watched(bucket', stage')
      BY <1>1, <2>1, NextWatches
    <3>2. WaitersAreWatched' <=> Watched(bucket', stage')
      BY Zenon DEF WaitersAreWatched, Watched, Open, Opened
    <3> QED BY <3>1, <3>2
  <2>2. CASE WaitersAreWatched /\ UNCHANGED vars
    BY <2>2 DEF vars, WaitersAreWatched, Open
  <2> QED BY <2>1, <2>2
<1> QED BY <1>2, <1>3, Invariance, PTL DEF Spec
================================================================================
