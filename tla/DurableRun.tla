-------------------------------- MODULE DurableRun --------------------------------
(***************************************************************************)
(* What durable execution promises to the script of a run, without any     *)
(* scheduler, journal table or gate: the run owns one append-only history  *)
(* of settled calls, and every life of the script sees that history from   *)
(* its beginning, in order, before it can add to it.                       *)
(*                                                                         *)
(* Promised by docs/execution-engine.md, "Resume by replay"; implemented   *)
(* by WorkflowEngine (see EngineRefinement).                               *)
(***************************************************************************)
EXTENDS Integers, Sequences

CONSTANTS Calls, Results

VARIABLES
    history,    \* the settled calls <<call, result>> in the order they settled
    told,       \* what this life of the script has been told so far
    phase       \* "running", "down" (stopped, or its process died), "done", "errored"

vars == <<history, told, phase>>

Settled == {history[n][1] : n \in DOMAIN history}

Init == history = <<>> /\ told = <<>> /\ phase = "running"

\* The life is told some more of what is already settled.
Replay ==
    /\ phase = "running"
    /\ \E n \in (Len(told) + 1)..Len(history) : told' = SubSeq(history, 1, n)
    /\ UNCHANGED <<history, phase>>

\* A life that has seen all of the history settles one more call.
Settle(c, r) ==
    /\ phase = "running" /\ told = history
    /\ c \notin Settled
    /\ history' = Append(history, <<c, r>>)
    /\ told' = history'
    /\ UNCHANGED phase

\* The run is cut short; what it settled stays.
Cut == phase = "running" /\ phase' = "down" /\ told' = <<>> /\ UNCHANGED history

\* The script runs again from its beginning.
Resume == phase = "down" /\ phase' = "running" /\ told' = <<>> /\ UNCHANGED history

\* The script ends, and with it the run.
End == phase = "running" /\ phase' \in {"done", "errored"} /\ told' = <<>> /\ UNCHANGED history

Next ==
    \/ Replay \/ Cut \/ Resume \/ End
    \/ \E c \in Calls, r \in Results : Settle(c, r)

Spec == Init /\ [][Next]_vars
================================================================================
