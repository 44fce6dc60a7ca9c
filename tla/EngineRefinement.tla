---------------------------- MODULE EngineRefinement ----------------------------
(***************************************************************************)
(* WorkflowEngine implements DurableRun: the history is read off the event *)
(* log (the live settlements, in order), and what a life was told is read  *)
(* off the settle events since its run-started.                            *)
(***************************************************************************)
EXTENDS WorkflowEngine

IsAnswer(e) == e.type = "node-settled" /\ e.outcome # "cancelled"

\* The <<call, result>> pairs of the events at the places S of a log, in its order.
AnswersAt(log, S) ==
    LET Nth(k) == CHOOSE n \in S : Cardinality({m \in S : m <= n}) = k
    IN  [k \in 1..Cardinality(S) |-> <<log[Nth(k)].inst, log[Nth(k)].outcome>>]

\* The places of the live settlements, and of the answers since the last run-started.
SettledAt(log) == {n \in DOMAIN log : IsAnswer(log[n]) /\ ~log[n].cached}
ToldAt(log)    == {n \in DOMAIN log :
                      /\ IsAnswer(log[n])
                      /\ \A m \in DOMAIN log : m > n => log[m].type # "run-started"}

History  == AnswersAt(events, SettledAt(events))
LifeTold == AnswersAt(events, ToldAt(events))

Told == IF Running THEN LifeTold ELSE <<>>

Phase ==
    IF Running THEN "running"
    ELSE CASE run.status = "completed" -> "done"
           [] run.status = "errored"   -> "errored"
           [] OTHER                    -> "down"

Durable == INSTANCE DurableRun WITH
    Calls <- Instances, Results <- {"ok", "failed"},
    history <- History, told <- Told, phase <- Phase

--------------------------------------------------------------------------------
(* What a journal can tell of the three things that keep the engine from being a *)
(* durable run.  All three are the log's own: once one is missing it stays so.   *)

\* Every settled row has its settlement in the log: no process died between the two
\* writes of one (engine-settlement.ts, putNode before appendEvent).
EverySettlementIsLogged ==
    \A i \in Terminal : \E n \in SettledAt(events) : events[n].inst = i

\* The log names the asks first in the order in which they settled: no ask that a stop
\* cancelled was overtaken by a settlement before it settled in a later life
\* (recoverSettleOrder takes the cancelled event for its place).
SettleOrderKept ==
    \A m, n \in SettledAt(events) : m < n =>
        \E k \in 1..m : /\ IsSettleOf(events[m].inst, k)
                        /\ \A l \in 1..k : ~IsSettleOf(events[n].inst, l)

\* A life settled asks of its own only after it was told everything settled before: no
\* re-dispatched ask overtook the replay.
ReplayComesFirst ==
    \A m, n \in SettledAt(events) : m < n =>
        \E k \in 1..(n - 1) : /\ IsAnswer(events[k]) /\ events[k].inst = events[m].inst
                              /\ \A l \in k..n : events[l].type # "run-started"

Orderly == EverySettlementIsLogged /\ SettleOrderKept /\ ReplayComesFirst

\* A deterministic script is never told that its inputs changed (docs/execution-engine.md,
\* "Replaying the settle order"), whatever stops, deaths and resumes it went through, unless
\* its journal bears one of the three marks: nothing else can number its calls anew.
MismatchIsMarked == ~NoReplayMismatch => ~Orderly

\* The variables that the history, what was told and the phase are read off.
RunView == <<events, run, up, runSettled>>

\* As long as the journal bears no mark, every step of the engine, its stops, crashes and
\* resumes included, is a step of a durable run: no life is told anything but a prefix of
\* the one history, in its order, and a call settles at most once in all lives together.
DurableWhileOrderly ==
    [][RunView' # RunView /\ Orderly' => [Durable!Next]_(Durable!vars)]_vars
================================================================================
