------------------------------ MODULE WorkflowEngine ------------------------------
(***************************************************************************)
(* The core of the dynamic-workflow engine: a script fans out over         *)
(* branches, each branch asks subagents ("actors") one question after      *)
(* another, the engine journals every ask, dispatches it to a driver, and  *)
(* settles it; the process may die at any moment, and a stopped run is     *)
(* resumed by running the same script again against the journal.           *)
(*                                                                         *)
(* Source: engine/engine.ts, engine/scheduler.ts, engine/scheduler-        *)
(* submit.ts, engine/engine-settlement.ts, engine/engine-resume.ts and     *)
(* engine/replay-order.ts (module ReplaySettleOrder).                      *)
(*                                                                         *)
(* Abstractions.                                                           *)
(*  - The script is a deterministic program: per branch a sequence of      *)
(*    calls <<site, actor>>.  What a call asks (its input hash) is a       *)
(*    function of the branch, the step and how the previous call ended;    *)
(*    answers carry no other data.  Branches start in BranchOrder and are  *)
(*    continued in the order in which their calls were answered (inbox),   *)
(*    as promise reactions and sandbox messages are.                       *)
(*  - A handler of the engine runs to completion (one event-loop turn),    *)
(*    so it is one action; what it awaits ends the action.                 *)
(*  - A process death falls between two handlers, and, when TornSettle,    *)
(*    also between the row write and the event append of one settlement.   *)
(*  - Of the event log only run-started, node-settled and run-settled are  *)
(*    kept: they are the events recovery reads or a property is about.     *)
(***************************************************************************)
EXTENDS Integers, Sequences, FiniteSets, ReplaySettleOrder

CONSTANTS
    Sites,              \* call sites of the compiled script
    TypedSites,         \* the sites whose answer is validated (askSpecs.typed)
    Actors,             \* subagents, created before the first ask
    ActorOrder,         \* the order in which they were created
    Branches,           \* concurrent branches of the script
    BranchOrder,        \* the order in which the script starts them
    Prog,               \* Prog[b]: the calls <<site, actor>> of branch b
    Awaited,            \* the branches whose end lets the script return
    Throwing,           \* the branches that do not catch a failed ask
    MaxOrdinal,         \* bound: calls of one site
    InitialCap,         \* caps.maxConcurrency at submission
    CapChoices,         \* the values setMaxConcurrency is called with
    MaxRetunes,         \* bound: calls of setMaxConcurrency
    RepairAttempts,     \* REPAIR_ATTEMPTS
    NudgeAttempts,      \* NUDGE_ATTEMPTS
    StopReasons,        \* the reasons an external stop may carry
    MaxLives,           \* bound: engines built for the run
    MayCrash,           \* the process may die between two handlers
    TornSettle,         \* ... and between a settlement's row and its event
    SessionMayFail,     \* createActorSession may reject
    LiveOutrunsReplay   \* a re-dispatched ask may end before the replay has
                        \* caught up with the journal

Instances == Sites \X (1..MaxOrdinal)
NoInst    == <<>>

RunStatuses == {"running", "completed", "errored", "stopped"}
Outcomes    == {"ok", "failed", "cancelled"}
RowStatus   == [ok |-> "completed", failed |-> "failed"]
OutcomeOf   == [completed |-> "ok", failed |-> "failed"]

\* inputHash of an ask: its instructions, which the script computes from where
\* it is and from what the previous answer was.
Hashes == Branches \X Nat \X (Outcomes \cup {"start"})

NoRow == [status |-> "none"]
Row   == [status : {"running", "completed", "failed"}, actor : Actors,
          actorSeq : Nat, hash : Hashes]

Event == [type : {"run-started"}]
         \cup [type : {"node-settled"}, inst : Instances, outcome : Outcomes,
               cached : BOOLEAN]
         \cup [type : {"run-settled"}, status : RunStatuses]

Actor == [recordedCount : Nat, nextAdmitSeq : Nat,
          pendingRecorded : SUBSET Instances,
          pendingLive : Seq(Instances \X Hashes),
          liveQueue : Seq(Instances),
          current : Instances \cup {NoInst},
          session : {"none", "ready", "broken"}]

VARIABLES
    \* The journal: what a process death leaves behind.
    rows,         \* dwf_node rows, NoRow where there is none
    events,       \* dwf_event, in sequence order
    run,          \* the dwf_run row: status, stopReason, failure, caps
    \* One life of the engine.
    up,           \* an engine exists in a living process
    runSettled,   \* first-wins settlement of this life
    ordinals,     \* per-site arrival counters
    cap,          \* this.caps.maxConcurrency
    actors,       \* the scheduler's actors
    live,         \* liveNodes: admitted and unsettled, in admission order
    started,      \* instances handed to the driver in this life
    tries,        \* repairsRemaining and nudgesRemaining
    activeAsks,   \* dispatched or being dispatched
    gate,         \* replaySettleOrder
    \* The script, which runs anew in every life.
    pc,           \* the step a branch is at; 0 before its start
    asking,       \* the call a branch awaits
    inbox,        \* answers on their way to the script, in order
    \* The driver.
    turns,        \* model turns in progress
    \* Bounds.
    lives, retunes

journalVars == <<rows, events, run>>
askVars     == <<actors, live, started, tries, activeAsks>>
scriptVars  == <<pc, asking, inbox>>
boundVars   == <<lives, retunes>>
vars == <<rows, events, run, up, runSettled, ordinals, cap, actors, live, started,
          tries, activeAsks, gate, pc, asking, inbox, turns, lives, retunes>>

ASSUME ConstantsAssumption ==
    /\ IsFiniteSet(Actors) /\ IsFiniteSet(Sites)
    /\ TypedSites \subseteq Sites
    /\ Prog \in [Branches -> Seq(Sites \X Actors) \ {<<>>}]
    /\ BranchOrder \in Seq(Branches)
    /\ \A m, n \in DOMAIN BranchOrder : BranchOrder[m] = BranchOrder[n] => m = n
    /\ ActorOrder \in [Actors -> Nat]
    /\ \A a, b \in Actors : ActorOrder[a] = ActorOrder[b] => a = b
    /\ MaxOrdinal \in Nat
    /\ InitialCap \in Nat \ {0} /\ CapChoices \subseteq Nat \ {0}
    /\ RepairAttempts \in Nat /\ NudgeAttempts \in Nat
    /\ MaxLives \in Nat /\ MaxRetunes \in Nat
    /\ StopReasons \subseteq {"user", "model", "provider", "interrupted", "superseded"}

Elements(s) == {s[n] : n \in DOMAIN s}
\* s without its entries x, in order.
Without(s, x) ==
    LET kept == {n \in DOMAIN s : s[n] # x}
        at   == SortedBy(kept, [n \in kept |-> n])
    IN  [n \in DOMAIN at |-> s[at[n]]]

NodeSettled(i, o, c) == [type |-> "node-settled", inst |-> i, outcome |-> o, cached |-> c]
RunSettledEvent(st)  == [type |-> "run-settled", status |-> st]
RunStarted           == [type |-> "run-started"]

Recorded == {i \in Instances : rows[i] # NoRow}
Terminal == {i \in Recorded : rows[i].status # "running"}

--------------------------------------------------------------------------------
(* The scheduler. *)

\* The actors of A with an ask to dispatch and none in dispatch, as far as the bound
\* lets them through, in creation order (actorOrder).
Dispatchable_NotSerial(as, active, A, bound) ==
    LET ready == {a \in A : as[a].liveQueue # <<>>}
    IN  {a \in ready : active + Cardinality({b \in ready : ActorOrder[b] < ActorOrder[a]}) < bound}
Dispatchable(as, active, A, bound) ==
    LET ready == {a \in A : as[a].current = NoInst /\ as[a].liveQueue # <<>>}
    IN  {a \in ready : active + Cardinality({b \in ready : ActorOrder[b] < ActorOrder[a]}) < bound}

\* pumpActor for every actor of A: the heads of the chosen queues become current.
Pump(as, active, A, bound) ==
    LET chosen == Dispatchable(as, active, A, bound)
    IN  /\ actors' = [a \in Actors |->
                        IF a \in chosen
                        THEN [as[a] EXCEPT !.current = Head(as[a].liveQueue),
                                           !.liveQueue = Tail(as[a].liveQueue)]
                        ELSE as[a]]
        /\ activeAsks' = active + Cardinality(chosen)

\* The cached settlements of the keys ks: one event and one answer each.
CachedEvents(ks) == [n \in DOMAIN ks |-> NodeSettled(ks[n], OutcomeOf[rows[ks[n]].status], TRUE)]
CachedAnswers(ks) == [n \in DOMAIN ks |-> <<ks[n], OutcomeOf[rows[ks[n]].status]>>]

\* drainAdmission(actor), with pendingRecorded = R and pendingLive = L: the recorded
\* asks leave in actorSeq order without a gap, and only when all recordedCount of
\* them have left are the new ones given the next numbers and admitted.
Admit(a, R, L, box, pumped) ==
    LET A         == actors[a]
        out       == {i \in R :
                        /\ rows[i].actorSeq >= A.nextAdmitSeq
                        /\ \A s \in A.nextAdmitSeq..rows[i].actorSeq :
                               \E j \in R : rows[j].actorSeq = s}
        next      == A.nextAdmitSeq + Cardinality(out)
        seqOf     == [i \in out |-> rows[i].actorSeq]
        rerun     == {i \in out : rows[i].status = "running"}
        cached    == out \ rerun
        now       == SortedBy({i \in cached : Passes(gate, i)}, seqOf)
        new       == IF next >= A.recordedCount THEN L ELSE <<>>
        newInst   == [n \in DOMAIN new |-> new[n][1]]
        admitted  == SortedBy(rerun, seqOf) \o newInst
        NewRow(n) == [status |-> "running", actor |-> a, actorSeq |-> next + n - 1,
                      hash |-> new[n][2]]
    IN  /\ rows' = [i \in Instances |->
                      IF \E n \in DOMAIN new : new[n][1] = i
                      THEN NewRow(CHOOSE n \in DOMAIN new : new[n][1] = i)
                      ELSE rows[i]]
        /\ live' = live \o admitted
        /\ gate' = Hold(gate, cached)
        /\ events' = events \o CachedEvents(now)
        /\ inbox' = box \o CachedAnswers(now)
        /\ Pump([actors EXCEPT ![a] =
                    [A EXCEPT !.nextAdmitSeq = next + Len(new),
                              !.pendingRecorded = R \ out,
                              !.pendingLive = IF next >= A.recordedCount THEN <<>> ELSE L,
                              !.liveQueue = @ \o admitted]],
                activeAsks, pumped, cap)

\* settleOk / settleFailed with finishLiveNode: the row is written before the event,
\* the actor is free again, and every actor is pumped.
Settle(i, o) ==
    LET a    == rows[i].actor
        mine == actors[a].current = i
    IN  /\ rows' = [rows EXCEPT ![i].status = RowStatus[o]]
        /\ events' = Append(events, NodeSettled(i, o, FALSE))
        /\ live' = Without(live, i)
        /\ inbox' = Append(inbox, <<i, o>>)
        /\ turns' = turns \ {i}
        /\ Pump([actors EXCEPT ![a].current = IF mine THEN NoInst ELSE @],
                IF mine THEN activeAsks - 1 ELSE activeAsks, Actors, cap)

\* settleCompleted / settleStopped / settleFailed and finishRun: the gate opens and
\* lets go of what it held, every ask in flight is cancelled and its row left
\* running, the run row is written, and run-settled closes the log.
Finish(st, reason, fail, emitCancelled, box) ==
    LET freed == Remaining(gate)
    IN  /\ runSettled' = TRUE
        /\ gate' = Opened(gate)
        /\ events' = events \o CachedEvents(freed)
                      \o (IF emitCancelled
                          THEN [n \in DOMAIN live |-> NodeSettled(live[n], "cancelled", FALSE)]
                          ELSE <<>>)
                      \o <<RunSettledEvent(st)>>
        /\ inbox' = box \o CachedAnswers(freed)
                     \o [n \in DOMAIN live |-> <<live[n], "cancelled">>]
        /\ turns' = turns \ Elements(live)
        /\ live' = <<>>
        /\ activeAsks' = 0
        /\ run' = [run EXCEPT !.status = st, !.stopReason = reason, !.failure = fail]
        /\ UNCHANGED <<rows, up, cap, actors, started, tries, boundVars>>

--------------------------------------------------------------------------------
(* The script's calls. *)

Running == up /\ ~runSettled

\* Branch b, told o, makes its n-th call: ask() and admitAsk().  A call without a
\* row waits in pendingLive, one with a row in pendingRecorded; a row with another
\* input hash fails the run and the call.
Ask(b, n, o, box) ==
    LET site == Prog[b][n][1]
        a    == Prog[b][n][2]
        i    == <<site, ordinals[site] + 1>>
        hash == <<b, n, o>>
        A    == actors[a]
    IN  /\ ordinals[site] < MaxOrdinal
        /\ ordinals' = [ordinals EXCEPT ![site] = @ + 1]
        /\ pc' = [pc EXCEPT ![b] = n]
        /\ \/ /\ rows[i] = NoRow
              /\ asking' = [asking EXCEPT ![b] = i]
              /\ Admit(a, A.pendingRecorded, Append(A.pendingLive, <<i, hash>>), box, Actors)
              /\ UNCHANGED <<run, up, runSettled, cap, started, tries, turns, boundVars>>
           \/ /\ rows[i] # NoRow /\ rows[i].hash = hash
              /\ asking' = [asking EXCEPT ![b] = i]
              /\ Admit(a, A.pendingRecorded \cup {i}, A.pendingLive, box, {a})
              /\ UNCHANGED <<run, up, runSettled, cap, started, tries, turns, boundVars>>
           \/ /\ rows[i] # NoRow /\ rows[i].hash # hash
              /\ asking' = [asking EXCEPT ![b] = NoInst]
              /\ Finish("errored", "none", "InputHashMismatch", FALSE, box)

\* The script starts its branches one after another before it waits for anything.
StartBranch(b) ==
    /\ Running /\ pc[b] = 0
    /\ \E n \in DOMAIN BranchOrder :
        /\ BranchOrder[n] = b
        /\ \A m \in 1..(n - 1) : pc[BranchOrder[m]] > 0
    /\ Ask(b, 1, "start", inbox)

\* The next answer reaches its branch, which goes on to its next call, ends, or,
\* when it does not catch a failure, makes the script throw (engine.fail).
Continue(b) ==
    /\ Running /\ inbox # <<>>
    /\ \A c \in Branches : pc[c] > 0
    /\ asking[b] = Head(inbox)[1]
    /\ LET o == Head(inbox)[2]
           rest == Tail(inbox)
       IN  \/ /\ ~(o = "failed" /\ b \in Throwing)
              /\ pc[b] < Len(Prog[b])
              /\ Ask(b, pc[b] + 1, o, rest)
           \/ /\ ~(o = "failed" /\ b \in Throwing)
              /\ pc[b] = Len(Prog[b])
              /\ pc' = [pc EXCEPT ![b] = @ + 1]
              /\ asking' = [asking EXCEPT ![b] = NoInst]
              /\ inbox' = rest
              /\ UNCHANGED <<journalVars, up, runSettled, ordinals, cap, askVars, gate,
                             turns, boundVars>>
           \/ /\ o = "failed" /\ b \in Throwing
              /\ asking' = [asking EXCEPT ![b] = NoInst]
              /\ Finish("errored", "none", "ScriptError", FALSE, rest)
              /\ UNCHANGED <<ordinals, pc>>

\* The script returned: complete(artifact).
ScriptReturns ==
    /\ Running
    /\ \A b \in Awaited : pc[b] > Len(Prog[b])
    /\ Finish("completed", "none", "none", TRUE, inbox)
    /\ UNCHANGED <<ordinals, pc, asking>>

\* The microtask that delivers the cached answers whose turn has come.
FlushReplay ==
    /\ up /\ gate.queue # <<>>
    /\ events' = events \o CachedEvents(gate.queue)
    /\ inbox' = inbox \o CachedAnswers(gate.queue)
    /\ gate' = Flushed(gate)
    /\ UNCHANGED <<rows, run, up, runSettled, ordinals, cap, askVars, pc, asking, turns,
                   boundVars>>

--------------------------------------------------------------------------------
(* Dispatch: what dispatch() does around its await of the actor's session. *)

Dispatching_NoRecheck(a) ==
    /\ up
    /\ actors[a].current \notin started \cup {NoInst}
Dispatching(a) ==
    /\ Running
    /\ actors[a].current \in Elements(live) \ started

\* Everything the journal knew at the start of this life has been asked again and
\* has been answered.
ReplayedAll ==
    /\ gate.cursor > Len(gate.order) /\ gate.queue = <<>>
    /\ \A a \in Actors : actors[a].nextAdmitSeq >= actors[a].recordedCount

\* The driver opens (or fails to open) the session; ensureSession keeps the promise,
\* the rejected one too, for every later ask of the actor.
SessionCreated(a, outcome) ==
    /\ Dispatching(a) /\ actors[a].session = "none"
    /\ outcome = "broken" => SessionMayFail
    /\ actors' = [actors EXCEPT ![a].session = outcome]
    /\ UNCHANGED <<journalVars, up, runSettled, ordinals, cap, live, started, tries,
                   activeAsks, gate, scriptVars, turns, boundVars>>

\* The await returned and neither the run nor the ask settled meanwhile: startAsk.
Dispatch(a) ==
    /\ Dispatching(a) /\ actors[a].session = "ready"
    /\ started' = started \cup {actors[a].current}
    /\ turns' = turns \cup {actors[a].current}
    /\ UNCHANGED <<journalVars, up, runSettled, ordinals, cap, actors, live, tries,
                   activeAsks, gate, scriptVars, boundVars>>

DispatchFails(a) ==
    /\ Dispatching(a) /\ actors[a].session = "broken"
    /\ LiveOutrunsReplay \/ ReplayedAll
    /\ Settle(actors[a].current, "failed")
    /\ UNCHANGED <<run, up, runSettled, ordinals, cap, started, tries, gate, pc, asking,
                   boundVars>>

--------------------------------------------------------------------------------
(* What the driver reports.  A report may come late: of everything started in    *)
(* this life, the engine takes notice of what is still live.                     *)

Reported_EvenSettled(i) ==
    /\ up /\ i \in started
    /\ LiveOutrunsReplay \/ ReplayedAll
Reported(i) ==
    /\ up /\ i \in started
    /\ LiveOutrunsReplay \/ ReplayedAll
    /\ i \in Elements(live)

IsTyped(i) == i[1] \in TypedSites

EngineUnchanged == UNCHANGED <<run, up, runSettled, ordinals, cap, started, gate, pc, asking,
                               boundVars>>

\* handleSubmitAttempted: a valid payload of a typed ask.
SubmitAccepted(i) ==
    /\ Reported(i) /\ IsTyped(i)
    /\ Settle(i, "ok")
    /\ UNCHANGED tries /\ EngineUnchanged

\* handleSubmitAttempted: an invalid payload is sent back while repairs remain.
RepairsLeft_Always(i) == TRUE
RepairsLeft(i) == tries[i].repairs > 0
SubmitRejected(i) ==
    /\ Reported(i) /\ IsTyped(i)
    /\ \/ /\ RepairsLeft(i)
          /\ tries' = [tries EXCEPT ![i].repairs = @ - 1]
          /\ UNCHANGED <<rows, events, actors, live, activeAsks, inbox, turns>>
       \/ /\ ~RepairsLeft(i)
          /\ Settle(i, "failed")
          /\ UNCHANGED tries
    /\ EngineUnchanged

\* handleTurnEnded: the final text answers an untyped ask; a typed one is nudged,
\* and fails when no nudge is left.
TurnEnded(i) ==
    /\ Reported(i)
    /\ \/ /\ ~IsTyped(i)
          /\ Settle(i, "ok")
          /\ UNCHANGED tries
       \/ /\ IsTyped(i) /\ tries[i].nudges > 0
          /\ tries' = [tries EXCEPT ![i].nudges = @ - 1]
          /\ UNCHANGED <<rows, events, actors, live, activeAsks, inbox, turns>>
       \/ /\ IsTyped(i) /\ tries[i].nudges = 0
          /\ Settle(i, "failed")
          /\ UNCHANGED tries
    /\ EngineUnchanged

\* askFailed.
AskFailed(i) ==
    /\ Reported(i)
    /\ Settle(i, "failed")
    /\ UNCHANGED tries /\ EngineUnchanged

--------------------------------------------------------------------------------
(* The life of the run. *)

\* stop(reason): the user, the main agent, an amendment, the harness or the driver.
Stop(reason) ==
    /\ Running
    /\ Finish("stopped", reason, "none", TRUE, inbox)
    /\ UNCHANGED <<ordinals, pc, asking>>

\* setMaxConcurrency(n): the bound in use and the one on the run row change together;
\* only a raise scans the queues, a lower bound recalls nothing.
Rescan_Never(n) == UNCHANGED <<actors, activeAsks>>
Rescan(n) ==
    IF n > cap THEN Pump(actors, activeAsks, Actors, n) ELSE UNCHANGED <<actors, activeAsks>>
SetMaxConcurrency(n) ==
    /\ Running /\ n # cap /\ retunes < MaxRetunes
    /\ cap' = n
    /\ run' = [run EXCEPT !.caps = n]
    /\ retunes' = retunes + 1
    /\ Rescan(n)
    /\ UNCHANGED <<rows, events, up, runSettled, ordinals, live, started, tries, gate,
                   scriptVars, turns, lives>>

\* What a life starts from: no ordinal given out, nothing admitted, nothing asked.
BlankActors(count) ==
    [a \in Actors |-> [recordedCount |-> count[a], nextAdmitSeq |-> 0, pendingRecorded |-> {},
                       pendingLive |-> <<>>, liveQueue |-> <<>>, current |-> NoInst,
                       session |-> "none"]]
FullTries == [i \in Instances |-> [repairs |-> RepairAttempts, nudges |-> NudgeAttempts]]
NothingRecorded == [a \in Actors |-> 0]

BlankLife(count) ==
    /\ runSettled' = FALSE
    /\ ordinals' = [s \in Sites |-> 0]
    /\ actors' = BlankActors(count)
    /\ live' = <<>> /\ started' = {} /\ tries' = FullTries /\ activeAsks' = 0
    /\ pc' = [b \in Branches |-> 0] /\ asking' = [b \in Branches |-> NoInst] /\ inbox' = <<>>
    /\ turns' = {}

\* The process dies: the journal is all that is left.
Crash ==
    /\ MayCrash /\ up /\ lives < MaxLives
    /\ up' = FALSE /\ gate' = EmptyGate
    /\ BlankLife(NothingRecorded)
    /\ UNCHANGED <<journalVars, cap, boundVars>>

\* The process dies inside a settlement, after putNode and before appendEvent.
CrashInSettle(i, o) ==
    /\ TornSettle /\ lives < MaxLives
    /\ Running /\ Reported(i)
    /\ rows' = [rows EXCEPT ![i].status = RowStatus[o]]
    /\ up' = FALSE /\ gate' = EmptyGate
    /\ BlankLife(NothingRecorded)
    /\ UNCHANGED <<events, run, cap, boundVars>>

\* The run service of the next process finds a running row nobody owns.
Reconcile ==
    /\ ~up /\ run.status = "running"
    /\ run' = [run EXCEPT !.status = "stopped", !.stopReason = "interrupted"]
    /\ UNCHANGED <<rows, events, up, runSettled, ordinals, cap, askVars, gate, scriptVars,
                   turns, boundVars>>

\* recoverSettleOrder: the instances whose row is terminal, by their first
\* settlement in the event log.
IsSettleOf(i, n) == events[n].type = "node-settled" /\ events[n].inst = i
LastSettle(i) == CHOOSE n \in DOMAIN events :
    IsSettleOf(i, n) /\ \A m \in (n + 1)..Len(events) : ~IsSettleOf(i, m)
FirstSettle(i) == CHOOSE n \in DOMAIN events :
    IsSettleOf(i, n) /\ \A m \in 1..(n - 1) : ~IsSettleOf(i, m)
RecoveredOrder ==
    LET logged == {i \in Terminal : \E n \in DOMAIN events : IsSettleOf(i, n)}
    IN  SortedBy(logged, [i \in logged |-> FirstSettle(i)])

\* Mutant: the numbers of a subagent's new asks leave one out.
RecordedAsks_OneMore == [a \in Actors |-> Cardinality({i \in Recorded : rows[i].actor = a}) + 1]
\* seedRecordedAsks: how many asks of an actor have a row, settled or not.
RecordedAsks == [a \in Actors |-> Cardinality({i \in Recorded : rows[i].actor = a})]

\* The bound of a resumed run comes from its row.
RestoredCap == run.caps

\* resume: a new engine over the journal of a stopped run that no other run replaced.
Resume ==
    /\ ~up \/ runSettled
    /\ run.status = "stopped" /\ run.stopReason # "superseded"
    /\ lives < MaxLives
    /\ lives' = lives + 1
    /\ up' = TRUE /\ cap' = RestoredCap
    /\ gate' = NewGate(RecoveredOrder)
    /\ BlankLife(RecordedAsks)
    /\ run' = [run EXCEPT !.status = "running", !.stopReason = "none", !.failure = "none"]
    /\ events' = Append(events, RunStarted)
    /\ UNCHANGED <<rows, retunes>>

Init ==
    /\ rows = [i \in Instances |-> NoRow]
    /\ events = <<RunStarted>>
    /\ run = [status |-> "running", stopReason |-> "none", failure |-> "none", caps |-> InitialCap]
    /\ up = TRUE /\ runSettled = FALSE
    /\ ordinals = [s \in Sites |-> 0]
    /\ cap = InitialCap
    /\ actors = BlankActors(NothingRecorded)
    /\ live = <<>> /\ started = {} /\ tries = FullTries /\ activeAsks = 0
    /\ gate = EmptyGate
    /\ pc = [b \in Branches |-> 0] /\ asking = [b \in Branches |-> NoInst] /\ inbox = <<>>
    /\ turns = {}
    /\ lives = 1 /\ retunes = 0

\* The run is over for good, or out of lives.
Over ==
    /\ ~up \/ runSettled
    /\ run.status # "running"
    /\ run.status = "stopped" => run.stopReason = "superseded" \/ lives = MaxLives
    /\ UNCHANGED vars

Script == (\E b \in Branches : StartBranch(b) \/ Continue(b)) \/ ScriptReturns \/ FlushReplay
Driver ==
    \/ \E a \in Actors : \/ \E s \in {"ready", "broken"} : SessionCreated(a, s)
                         \/ Dispatch(a) \/ DispatchFails(a)
    \/ \E i \in started : SubmitAccepted(i) \/ SubmitRejected(i) \/ TurnEnded(i) \/ AskFailed(i)
Host ==
    \/ \E r \in StopReasons : Stop(r)
    \/ \E n \in CapChoices : SetMaxConcurrency(n)
    \/ Crash \/ Reconcile \/ Resume
    \/ \E i \in started : \E o \in {"ok", "failed"} : CrashInSettle(i, o)

Next == Script \/ Driver \/ Host \/ Over

Spec == Init /\ [][Next]_vars

\* The event loop runs every reaction and microtask, the driver ends every turn it
\* started (it redrives failed ones) and every session creation, and the next
\* process reconciles.  Nobody has to stop, retune or resume a run.
Fairness ==
    /\ \A b \in Branches : WF_vars(StartBranch(b)) /\ WF_vars(Continue(b))
    /\ WF_vars(ScriptReturns) /\ WF_vars(FlushReplay) /\ WF_vars(Reconcile)
    /\ \A a \in Actors :
        WF_vars(SessionCreated(a, "ready") \/ Dispatch(a) \/ DispatchFails(a))
    /\ \A i \in Instances :
        WF_vars(SubmitAccepted(i) \/ SubmitRejected(i) \/ TurnEnded(i) \/ AskFailed(i))

FairSpec == Spec /\ Fairness

--------------------------------------------------------------------------------
(* Properties. *)

\* Every variable stays within its type, in every life of the run.
TypeOK ==
    /\ rows \in [Instances -> Row \cup {NoRow}]
    /\ events \in Seq(Event)
    /\ run \in [status : RunStatuses, caps : Nat \ {0},
                stopReason : {"none", "user", "model", "provider", "interrupted", "superseded"},
                failure : {"none", "InputHashMismatch", "ScriptError"}]
    /\ up \in BOOLEAN /\ runSettled \in BOOLEAN
    /\ ordinals \in [Sites -> 0..MaxOrdinal]
    /\ cap \in Nat \ {0}
    /\ actors \in [Actors -> Actor]
    /\ live \in Seq(Instances)
    /\ started \in SUBSET Instances
    /\ tries \in [Instances -> [repairs : 0..RepairAttempts, nudges : 0..NudgeAttempts]]
    /\ activeAsks \in Int
    /\ gate \in Gate(Instances)
    /\ pc \in [Branches -> Nat]
    /\ asking \in [Branches -> Instances \cup {NoInst}]
    /\ inbox \in Seq(Instances \X Outcomes)
    /\ turns \in SUBSET Instances
    /\ lives \in Nat /\ retunes \in Nat

\* The hold rule: on one subagent an ask is put to the model, or is settled, only
\* after every ask with a smaller actorSeq has settled, whatever crashes, stops and
\* resumes lie between them.  Otherwise the subagent's transcript would be produced
\* in another order than the journal replays it.
TranscriptOrder ==
    \A i, j \in Recorded :
        /\ rows[i].actor = rows[j].actor /\ rows[i].actorSeq < rows[j].actorSeq
        /\ j \in Terminal \/ j \in turns
        => i \in Terminal

\* While the run is live, a call the script awaits is in exactly one place of the
\* engine: waiting for its admission, queued or in dispatch, held by the gate, or
\* answered and on its way.  A call in none would never be answered, a call in two
\* would be answered twice.
EveryCallIsInOnePlace ==
    Running =>
        \A b \in Branches : asking[b] # NoInst =>
            LET i == asking[b]
                places(a) ==
                    Cardinality({n \in 1..5 :
                        \/ n = 1 /\ i \in actors[a].pendingRecorded
                        \/ n = 2 /\ \E m \in DOMAIN actors[a].pendingLive :
                                        actors[a].pendingLive[m][1] = i
                        \/ n = 3 /\ i \in Elements(live)
                                 /\ i \in Elements(actors[a].liveQueue) \cup {actors[a].current}
                        \/ n = 4 /\ i \in gate.parked \cup Elements(gate.queue)
                        \/ n = 5 /\ \E m \in DOMAIN inbox : inbox[m][1] = i})
            IN  places(Prog[b][pc[b]][2]) = 1

InDispatch == {a \in Actors : actors[a].current # NoInst}

NoneIdles ==
    Running /\ activeAsks < cap =>
        \A a \in Actors : actors[a].current # NoInst \/ actors[a].liveQueue = <<>>

\* The bound is used and kept.  No subagent idles beside a free slot: only a settlement,
\* an admission or a raise scans the queues, so a missed scan would leave an ask waiting.
\* And an ask enters dispatch only while those in dispatch stay within the bound of the
\* run's row: a counter that drifts, or a retune that a resume forgets, would let more through.
BoundIsFollowed ==
    [][/\ NoneIdles'
       /\ Running /\ Running' /\ ~(InDispatch' \subseteq InDispatch)
             => Cardinality(InDispatch') <= run'.caps]_vars

\* A deterministic script is never told that its inputs changed: replayed calls meet
\* the rows they wrote (docs/execution-engine.md, "Replaying the settle order").
NoReplayMismatch == run.failure # "InputHashMismatch"

\* A row that has settled never changes again: not by a late report, an aborted run,
\* a crash or a later life.
SettledRowsAreFinal == [][\A i \in Terminal : rows'[i] = rows[i]]_vars

\* run-settled is the last event of a life: nothing the gate still held, no cancelled
\* ask and no late report is recorded behind it.
RunSettledIsLast ==
    \A n \in DOMAIN events :
        events[n].type = "run-settled" /\ n < Len(events) => events[n + 1].type = "run-started"

\* A model turn in progress belongs to an ask that is still live, so none goes on
\* burning tokens once the run has settled or its ask was given up.
TurnsBelongToLiveAsks == turns \subseteq Elements(live)

\* Settlement answers every call but those whose admission the hold rule still keeps
\* back: the asks in flight are rejected, those held by the gate are released.
Held(i) == \E a \in Actors :
    \/ i \in actors[a].pendingRecorded
    \/ \E n \in DOMAIN actors[a].pendingLive : actors[a].pendingLive[n][1] = i
SettlementAnswersAll ==
    up /\ runSettled =>
        \A b \in Branches : asking[b] # NoInst /\ ~Held(asking[b]) =>
            \E n \in DOMAIN inbox : inbox[n][1] = asking[b]

\* Every call of a life is answered, unless the life ends first: neither the hold
\* rule nor the gate nor the bound can keep a call waiting for ever.
CallsAreAnswered ==
    \A b \in Branches : \A n \in DOMAIN Prog[b] :
        Running /\ pc[b] = n ~> ~Running \/ pc[b] > n

\* The run comes to rest: it is completed, errored, or stopped and not resumed.
RunComesToRest == <>[](run.status # "running")
================================================================================
