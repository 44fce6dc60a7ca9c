--------------------------------- MODULE SeatGate ---------------------------------
(***************************************************************************)
(* The second point where a run's own bound is enforced: the seat gate       *)
(* (bootstrap/src/app/workflow-seat-gate.ts) holds the next turn step of a    *)
(* subagent while more of them work than the bound allows.  It is composed    *)
(* with what the scheduler does to it (dispatch while fewer asks are active   *)
(* than the bound), with the subagents' turns, and with the control that      *)
(* moves both bounds in one call, so that one variable stands for both.       *)
(*                                                                         *)
(* Which of several queued asks the scheduler takes first is left open.  A    *)
(* request that has its seat goes on to the governor (ConcurrencyGovernor);   *)
(* here it is out until it ends.  Requests of a tool pass the gate untouched. *)
(***************************************************************************)
EXTENDS Integers, FiniteSets, Sequences, SequencesExt

CONSTANTS
    Subagents,      \* each has at most one live ask
    Limits          \* the bounds a run may have

ASSUME SeatAssumption == IsFiniteSet(Subagents) /\ Limits \subseteq Nat \ {0}

VARIABLES
    limit,      \* caps.maxConcurrency, and the limit of the gate
    working,    \* subagents with a live ask that are not parked
    parked,     \* the FIFO of those that wait for a seat
    stage,      \* where the turn of each subagent is
    outcome,    \* how the run settled
    aborting    \* asks that abortInFlight has yet to abort

vars == <<limit, working, parked, stage, outcome, aborting>>

\* An ask is queued with the scheduler, or its session is being created, or it has started.
StartedStages == {"thinking", "missed", "parked", "sending", "tools"}
Stages == {"idle", "queued", "opening"} \cup StartedStages
Outcomes == {"running", "stopped", "finished"}

Started == {s \in Subagents : stage[s] \in StartedStages}
Active  == {s \in Subagents : stage[s] \in StartedStages \cup {"opening"}}
Queued  == {s \in Subagents : stage[s] = "queued"}

Least(m, n) == IF m < n THEN m ELSE n

--------------------------------------------------------------------------------
(* The gate: operators on the pair g of its two sets. *)

Gate == [working |-> working, parked |-> parked]

\* parkedIndexOf(), and splice() of that place.
PlaceOf(q, s) == CHOOSE i \in DOMAIN q : q[i] = s
Without(q, s) == RemoveAt(q, PlaceOf(q, s))

\* unpark(): the heads of the FIFO that find a seat free.
Seated_OneLess(g, n) ==
    IF Cardinality(g.working) + 1 < n
    THEN Least(n - 1 - Cardinality(g.working), Len(g.parked))
    ELSE 0
Seated(g, n) ==
    IF Cardinality(g.working) < n
    THEN Least(n - Cardinality(g.working), Len(g.parked))
    ELSE 0
Unparked(g, n) ==
    LET k == Seated(g, n)
    IN  [working |-> g.working \cup {g.parked[i] : i \in 1..k},
         parked  |-> SubSeq(g.parked, k + 1, Len(g.parked))]

\* A turn step is held while more work than the limit allows.
OverLimit_ByTwo(g) == Cardinality(g.working) > limit + 1
OverLimit(g) == Cardinality(g.working) > limit
NeedsSeat(g, s) == s \in g.working /\ stage[s] # "tools"
MustPark(g, s) == NeedsSeat(g, s) /\ OverLimit(g)

\* acquireSeat(), past its early returns.
Parked(g, s) == [working |-> g.working \ {s}, parked |-> Append(g.parked, s)]

\* onAbort: who leaves the FIFO works again.
Aborted_Nowhere(g, s) ==
    IF s \in ToSet(g.parked) THEN [g EXCEPT !.parked = Without(@, s)] ELSE g
Aborted(g, s) ==
    IF s \in ToSet(g.parked)
    THEN [working |-> g.working \cup {s}, parked |-> Without(g.parked, s)]
    ELSE g

\* askStarted(): nobody is counted twice.
AskStarted(g, s) ==
    IF s \in ToSet(g.parked) THEN g ELSE [g EXCEPT !.working = @ \cup {s}]

\* askSettled(): an ask the gate saw start frees its seat, if it holds one.
AskSettled_NoUnpark(g, s) ==
    IF stage[s] \notin StartedStages THEN g
    ELSE IF s \in ToSet(g.parked) THEN [g EXCEPT !.parked = Without(@, s)]
    ELSE [g EXCEPT !.working = @ \ {s}]
AskSettled(g, s) ==
    IF stage[s] \notin StartedStages THEN g
    ELSE IF s \in ToSet(g.parked) THEN [g EXCEPT !.parked = Without(@, s)]
    ELSE IF s \in g.working THEN Unparked([g EXCEPT !.working = @ \ {s}], limit)
    ELSE g

\* The gate becomes g.  Who was parked and has a seat sends its request; the other
\* subagents are where moved says.
GateBecomes(g, moved) ==
    /\ working' = g.working
    /\ parked' = g.parked
    /\ stage' = [s \in Subagents |->
                    IF stage[s] = "parked" /\ moved[s] = "parked" /\ s \in g.working
                    THEN "sending" ELSE moved[s]]

--------------------------------------------------------------------------------
(* The scheduler. *)

\* pumpAll(): as many queued asks as there are free slots under the bound n.
FreeSlots(n, active) == IF Cardinality(active) < n THEN n - Cardinality(active) ELSE 0
Pumpable(n, active) ==
    {some \in SUBSET Queued :
        Cardinality(some) = Least(FreeSlots(n, active), Cardinality(Queued))}

Moved(some, place) == [s \in Subagents |-> IF s \in some THEN place ELSE stage[s]]

IsRunning == outcome = "running"

\* The script asks a subagent that has no live ask.
Ask(s) ==
    /\ IsRunning /\ stage[s] = "idle"
    /\ stage' = [stage EXCEPT ![s] = IF Cardinality(Active) < limit THEN "opening" ELSE "queued"]
    /\ UNCHANGED <<limit, working, parked, outcome, aborting>>

\* The session is there: startAsk.
StartAsk(s) ==
    /\ IsRunning /\ stage[s] = "opening"
    /\ GateBecomes(AskStarted(Gate, s), [stage EXCEPT ![s] = "thinking"])
    /\ UNCHANGED <<limit, outcome, aborting>>

\* node-settled of one ask, then the pump: the turn ended, a submit was accepted or
\* refused for good by a tool, or the session could not be created.
Settle(s) ==
    /\ IsRunning /\ stage[s] \in {"opening", "thinking", "tools"}
    /\ \E some \in Pumpable(limit, Active \ {s}) :
          GateBecomes(AskSettled(Gate, s), [Moved(some, "opening") EXCEPT ![s] = "idle"])
    /\ UNCHANGED <<limit, outcome, aborting>>

\* setMaxConcurrency: the engine first, which pumps on a raise, then the gate.
Retune_GateKeeps(n) ==
    /\ IsRunning /\ limit # n
    /\ limit' = n
    /\ \E some \in IF n > limit THEN Pumpable(n, Active) ELSE {{}} :
          GateBecomes(Gate, Moved(some, "opening"))
    /\ UNCHANGED <<outcome, aborting>>
Retune(n) ==
    /\ IsRunning /\ limit # n
    /\ limit' = n
    /\ \E some \in IF n > limit THEN Pumpable(n, Active) ELSE {{}} :
          GateBecomes(Unparked(Gate, n), Moved(some, "opening"))
    /\ UNCHANGED <<outcome, aborting>>

\* The run settles; abortInFlight is about to go through the asks in flight.
SettleRun(how) ==
    /\ IsRunning
    /\ outcome' = how
    /\ aborting' = Active \cup Queued
    /\ UNCHANGED <<limit, working, parked, stage>>

\* One turn of that loop, which nothing else interleaves with: cancelAsk aborts the
\* request, and a stop records node-settled (cancelled).  What the request that has yet to
\* be queued finds is an aborted signal.
AbortOne(s) ==
    /\ s \in aborting
    /\ aborting' = aborting \ {s}
    /\ LET cancelled == IF stage[s] \in StartedStages THEN Aborted(Gate, s) ELSE Gate
       IN  GateBecomes(IF outcome = "stopped" THEN AskSettled(cancelled, s) ELSE cancelled,
                       [stage EXCEPT ![s] = IF @ = "missed" THEN "missed" ELSE "idle"])
    /\ UNCHANGED <<limit, outcome>>

--------------------------------------------------------------------------------
(* The turns. *)

\* tryAcquire of the next turn step.
TryRequest(s) ==
    /\ IsRunning /\ stage[s] = "thinking"
    /\ stage' = [stage EXCEPT ![s] = IF MustPark(Gate, s) THEN "missed" ELSE "sending"]
    /\ UNCHANGED <<limit, working, parked, outcome, aborting>>

\* acquire, after the wait was reported; the bound may have moved meanwhile, and the
\* request may have been aborted.
Acquire(s) ==
    /\ stage[s] = "missed" /\ aborting = {}
    /\ IF IsRunning
       THEN IF MustPark(Gate, s)
            THEN GateBecomes(Parked(Gate, s), [stage EXCEPT ![s] = "parked"])
            ELSE GateBecomes(Gate, [stage EXCEPT ![s] = "sending"])
       ELSE GateBecomes(Gate, [stage EXCEPT ![s] = "idle"])
    /\ UNCHANGED <<limit, outcome, aborting>>

\* The request is aborted, not the ask: a redrive or a recovered stream sends it anew.
AbortRequest(s) ==
    /\ IsRunning /\ stage[s] \in {"missed", "parked"}
    /\ GateBecomes(Aborted(Gate, s), [stage EXCEPT ![s] = "thinking"])
    /\ UNCHANGED <<limit, outcome, aborting>>

\* The request ends, with tool calls or without; the tools end.
EndRequest(s) ==
    /\ IsRunning /\ stage[s] = "sending"
    /\ \E next \in {"thinking", "tools"} : stage' = [stage EXCEPT ![s] = next]
    /\ UNCHANGED <<limit, working, parked, outcome, aborting>>

EndTools(s) ==
    /\ IsRunning /\ stage[s] = "tools"
    /\ stage' = [stage EXCEPT ![s] = "thinking"]
    /\ UNCHANGED <<limit, working, parked, outcome, aborting>>

Init ==
    /\ limit \in Limits
    /\ working = {} /\ parked = <<>>
    /\ stage = [s \in Subagents |-> "idle"]
    /\ outcome = "running" /\ aborting = {}

Turn(s) == TryRequest(s) \/ Acquire(s) \/ EndRequest(s) \/ EndTools(s)

Next ==
    \/ \E s \in Subagents : Ask(s) \/ StartAsk(s) \/ Settle(s) \/ AbortOne(s)
                            \/ Turn(s) \/ AbortRequest(s)
    \/ \E n \in Limits : Retune(n)
    \/ \E how \in Outcomes \ {"running"} : SettleRun(how)

Spec == Init /\ [][Next]_vars

\* Sessions are created, requests and tools end, a request that missed goes on to the gate,
\* the abort loop runs through; and requests that wait are not aborted for ever.
TurnFairness ==
    /\ \A s \in Subagents : WF_vars(StartAsk(s)) /\ WF_vars(Turn(s)) /\ WF_vars(AbortOne(s))
    /\ <>[][\A s \in Subagents : ~AbortRequest(s)]_vars
TurnSpec == Spec /\ TurnFairness

\* Every turn that keeps getting answers ends its ask.
AsksEnd == \A s \in Subagents : SF_vars(Settle(s))

--------------------------------------------------------------------------------
(* Properties. *)

\* Types; the limit is one of the run's bounds, and nobody is parked twice.
TypeOK ==
    /\ limit \in Limits
    /\ working \subseteq Subagents
    /\ parked \in Seq(Subagents) /\ IsInjective(parked)
    /\ stage \in [Subagents -> Stages]
    /\ outcome \in Outcomes
    /\ aborting \subseteq Subagents

\* activeAsks = working + parked: through retunes, aborted requests and settlements in the
\* window of ensureSession, every started ask is in exactly one of the two, so that none is
\* ungated or counted twice.
AsksAreCounted ==
    IsRunning => /\ working \cap ToSet(parked) = {}
                 /\ working \cup ToSet(parked) = Started
                 /\ \A s \in Subagents : stage[s] = "parked" <=> s \in ToSet(parked)

\* The last seat is never empty while the FIFO is not: no deadlock at any limit.
SeatsAreTaken == parked # <<>> => Cardinality(working) >= limit

\* The scheduler never puts a new subagent in front of a parked one, although it and the
\* gate share no state: whoever is dispatched, by a settlement or a raise that unparks
\* others, nobody is left in the FIFO.
NoDispatchPastParked ==
    [][~(Active' \subseteq Active) => parked' = <<>>]_vars

\* A cut takes effect within one request of each subagent, even if no ask ever settles:
\* the number of those that work comes down to the limit, unless the limit moves.
CutTakesEffect ==
    \A n \in Limits :
        limit = n /\ Cardinality(working) > n ~> Cardinality(working) <= n \/ limit # n \/ ~IsRunning

\* Whoever is parked gets a seat or is told that the request is over, provided that the
\* asks of the others end.
ParkedAreSeated ==
    AsksEnd => \A s \in Subagents : stage[s] = "parked" ~> stage[s] # "parked"
================================================================================
