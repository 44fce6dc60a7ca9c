---------------------------- MODULE ReplaySettleOrder ----------------------------
(***************************************************************************)
(* The settle-order gate of a resumed run (engine/replay-order.ts).        *)
(*                                                                         *)
(* A site's ordinal is the arrival counter of its calls, so the calls a    *)
(* script makes after an await are numbered in the order its awaits were   *)
(* answered.  A resumed run therefore answers the calls the journal        *)
(* already knows in the order in which they FIRST settled: a cached        *)
(* release is parked until every earlier key of that order was released,   *)
(* and the releases whose turn has come are delivered one microtask later. *)
(*                                                                         *)
(* The gate is a value, so that its owner can open, recover and replace    *)
(* it inside its own steps; a key stands for the closure parked under it.  *)
(*   order   the keys in first-life settle order                           *)
(*   cursor  the first place of order that was not released yet            *)
(*   parked  keys that arrived and wait for their turn                     *)
(*   queue   keys whose turn came, delivered by the next flush             *)
(*   opened  the run settled: nothing is held any more                     *)
(***************************************************************************)
EXTENDS Integers, Sequences, FiniteSets

\* The elements of S by increasing rank; the ranks of S are distinct.  The
\* choice is total for every place, so its type needs no counting argument.
SortedBy(S, rank) ==
    LET Place(i) == Cardinality({j \in S : rank[j] < rank[i]}) + 1
    IN  [n \in 1..Cardinality(S) |->
            CHOOSE i \in S : (\E j \in S : Place(j) = n) => Place(i) = n]

\* The gates over a set of keys.
Gate(Keys) == [order : Seq(Keys), cursor : Nat \ {0}, parked : SUBSET Keys, queue : Seq(Keys),
               opened : BOOLEAN]

NewGate(order) ==
    [order |-> order, cursor |-> 1, parked |-> {}, queue |-> <<>>, opened |-> FALSE]

EmptyGate == NewGate(<<>>)

\* hold() releases at once: the gate is open, it has no entry for the key, or
\* the key's place was already passed.
Passes_Always(g, key) == TRUE
Passes(g, key) ==
    \/ g.opened
    \/ \A n \in DOMAIN g.order : g.order[n] = key => n < g.cursor

\* pump(): the cursor moves past every leading key that has arrived.
Pumped(g) ==
    LET passed == {n \in g.cursor..Len(g.order) :
                      \A m \in g.cursor..n : g.order[m] \in g.parked}
        stop   == g.cursor + Cardinality(passed)
    IN  [g EXCEPT !.cursor = stop,
                  !.queue  = @ \o SubSeq(g.order, g.cursor, stop - 1),
                  !.parked = @ \ {g.order[m] : m \in passed}]

\* hold() for every key of K that does not pass.  The cursor cannot move past a
\* key that has not arrived, so parking K as a whole equals parking it key by key.
Hold_NoPump(g, K) == [g EXCEPT !.parked = @ \cup {k \in K : ~Passes(g, k)}]
Hold(g, K) ==
    LET waiting == {k \in K : ~Passes(g, k)}
    IN  IF waiting = {} THEN g ELSE Pumped([g EXCEPT !.parked = @ \cup waiting])

\* flush(): what was queued is delivered (by the caller, in queue order).
Flushed_Kept(g) == g
Flushed(g) == [g EXCEPT !.queue = <<>>]

\* open(): everything still queued, then everything parked in recorded order.
Remaining_QueueOnly(g) == g.queue
Remaining(g) ==
    g.queue \o SortedBy(g.parked, [k \in g.parked |->
                   CHOOSE n \in DOMAIN g.order : g.order[n] = k])

Opened_KeepsQueue(g) ==
    [order |-> g.order, cursor |-> Len(g.order) + 1, parked |-> {},
     queue |-> g.queue, opened |-> TRUE]
Opened(g) ==
    [order |-> g.order, cursor |-> Len(g.order) + 1, parked |-> {},
     queue |-> <<>>, opened |-> TRUE]
================================================================================
