# ZCode (LumiAgents): verification of the dynamic-workflow runtime and the relay session

This directory holds TLA+ models of the parts of the repository where its own
logic is hardest to get right: the durable-execution engine of *dynamic
workflows*, the concurrency machinery and the run service around it, and the
acknowledged session that carries RPC between the desktop and a phone. TLC checks every model on
small instances; TLAPS proves the theorems for every value of the constants.

Paths below are relative to the repository; `DW/` stands for
`src/apps/zcode-cli/packages/dynamic-workflow/src/` and `BOOT/` for
`src/apps/zcode-cli/packages/bootstrap/src/app/`.

## 1. Inventory of the system

The repository is a coding-agent product: a terminal CLI and agent runtime
(`src/apps/zcode-cli`), desktop, web and mobile shells (`src/packages/desktop`,
`ui`, `web`, `client`), and the services that connect them (`rpc`, `server`,
`services`, `provider`, `shared`). Most of its lines render, translate, store or
transport. The code whose own state decides whether the product is correct is
smaller, and this project takes it in order of how much goes wrong when it
goes wrong.

### 1.1 Dynamic workflows (modelled first)

A *dynamic workflow* is a script the main agent writes and the runtime executes
durably. The script creates subagents (*actors*), asks them questions, reads the
world, publishes artifacts and reports progress; every call is journalled, so a
run that was stopped or whose process died is resumed by running the same script
again against the journal.

| component | state it keeps | operations | what makes it correct |
|---|---|---|---|
| ask path of the engine: `DW/engine/engine.ts`, `scheduler.ts`, `scheduler-submit.ts`, `engine-settlement.ts`, `engine-resume.ts` | journal rows, event log and run row (SQLite); per life: ordinals, actors with their admission and live queues, live nodes, the count of asks in dispatch, repair and nudge budgets | ask, admit, dispatch, submit, turn ended, ask failed, complete, fail, stop, retune, resume | replay is deterministic; every call is answered once; transcripts of a subagent are produced in journal order; settled rows are final; the bound is respected and not wasted |
| settle-order gate: `DW/engine/replay-order.ts` | recorded order, cursor, parked releases, flush queue | hold, pump, flush, open, recover | cached answers are given in the order of the first life; nothing stays parked |
| holes: `DW/engine/engine-holes.ts`, `BOOT/dynamic-workflow-run-fill.ts` | branches parked at a hole, bodies filled in this life; the script of the run, its draft file | reach a hole, fill, settle | nobody waits at a hole that is filled or that nobody can fill; no accepted body is lost |
| artifacts, world reads, reports, phases: `DW/engine/engine-artifacts.ts`, `engine-world.ts`, `engine-report.ts` | counters and versions, journal rows | publish, delete, read, report | versions are unique |
| imported cache of an amended run: `DW/engine/imported-cache.ts` | imported entries, divergence | claim, diverge, close, re-derive | a resume reaches the verdict the first life reached |
| concurrency controller: `DW/engine/concurrency.ts` | cap, requests in flight, success streak, epoch, cooldown, learned decreases | admit, succeed, throttle, fail, end, seed | AIMD within its bounds, one decrease per episode, exact in-flight count |
| governor: `BOOT/workflow-concurrency-governor.ts` | one bucket per provider key: controller, a queue of waiters per run, the run last granted, a timer | admit, abort, settle, set and clear a run's bound, observe | no waiter is lost, no barging, runs take turns |
| seat gate: `BOOT/workflow-seat-gate.ts` | per subagent: working, parked or idle; queue of parked ones | request start and end, ask start and settle, change of the limit | seats are bounded and handed on, nobody parks for ever |
| run service: `BOOT/dynamic-workflow-run-service.ts`, `-submit.ts`, `-retune.ts`, `-fill.ts`, `-lifecycle.ts`, `-reconcile.ts` | registry of entries and the order in which they settled, run rows, whether it is closed | submit, amend, resume, cancel, retune, fill, close, reconcile | one engine per run, owned by an open service; a row agrees with its engine and takes legal turns; a superseded run stays at rest |
| compiler and analysis: `DW/compiler`, `DW/analysis` | none | pure functions on syntax trees | rejects scripts the engine cannot replay |
| harness and sandbox child: `src/apps/zcode-cli/packages/dynamic-workflow-runtime` | protocol state of a child process | NDJSON requests and replies | replies keep their order |

How they interact: the script's calls reach the engine as messages of the sandbox
child; the engine writes the journal, then calls the *driver* (the agent runtime)
which runs model turns under the seat gate and the governor and reports submits,
turn ends and failures back as callbacks; the run service owns the engines and
the run rows.

What is hard: all of it is single-threaded JavaScript, so a handler runs to
completion, but every `await` is a point where the run may be stopped, the ask
may settle, the bound may change or the process may die. State read before an
`await` and used after it, reports that arrive late, two writes that a crash can
separate, and an order that exists only in an event log are the hazards listed in
`PROJECT.json`.

### 1.2 The acknowledged relay session

A phone works on the desktop's workspaces over an external relay. The RPC channels
above need reliable, ordered messages; the relay loses what it carries for a peer that
is gone and announces ("matched") whenever a peer can be reached again, on the same
socket too. `src/packages/client/src/webRemoteControlAcknowledgedRelayProtocol.ts` with its
batch queue and deadline, and the encoder and assembler in
`src/packages/shared/src/web-remote-control-rpc-transport.ts`, make up an adapter; there is
one at each end and for each *bridge generation*. `CL/` stands for `src/packages/client/src/`.

| state | operations | what makes it correct |
|---|---|---|
| messages kept until acknowledged, the cursor of the next fragment, bytes kept, saturation; the assembler's expected number and staged fragments; the pending acknowledgement; the deadline timer; whether the flush loop runs | reserve a message, flush, replay at an announcement, accept a frame or an acknowledgement, expire, degrade; open a bridge | each channel is given exactly what the other sent, in order and once; only acknowledged messages are forgotten; a replay makes no gap; bytes and saturation are exact; something kept always has a deadline; the loop leaves nothing behind |

### 1.3 The rest of the repository (surveyed, not modelled)

| component | lines (about) | what it does; its own hard behaviour |
|---|---|---|
| agent runtime core (`zcode-cli/packages/core`) | 107,000 | turn loop, tools, permissions, hooks, subagents, runtime tasks, command queue; cancellation against late results |
| bootstrap and adapters (`bootstrap`, `adapters`) | 129,000 | assembly, SQLite storage, model transports, MCP, processes |
| TUI, CLI, telemetry, plugins, contracts | 55,000 | presentation, reporting, schemas |
| desktop, ui, web, client | 485,000 | shells; view state derived from the runtime |
| rpc, server, zcode-server-cli | 20,000 | persistent RPC sessions, chunk reassembly, supervisor and lock; reconnects and duplicates |
| services, shared, provider, provider-node | 190,000 | bots, accounts, sessions, sharing, settings sync, git, OAuth; mailbox, sync conflicts |
| docs, dev-docs, assets, vendored tools | | no behaviour of the product |

`PROJECT.json` lists every one of them under `components`, with what is missing.

## 2. Plan

Most important behaviour first.

1. `ReplaySettleOrder`, `WorkflowEngine`, `DurableRun`, `EngineRefinement`: the ask
   path over several lives. Done, with proofs.
2. `ConcurrencyController`, `ConcurrencyGovernor`, `SeatGate`: admission of model
   requests at the process and at the run. Done, with proofs.
3. `RunService`: the registry of entries, the rows, holes and drafts; submission,
   amendment, resume, retune, fill and close as requests that overlap at their awaits.
   Done, with proofs.
4. `RelaySession` and `ExactlyOnceLink`: the acknowledged relay session and what it is
   for. Done, with proofs, the refinement included.
5. `ContentArtifacts`, `ImportedCache`: the other journalled calls of the engine. Their
   hazards are a driver round trip between a read and a write, and a verdict that is
   re-derived.
6. The sandbox protocol, the runtime-task registry and command queue of the agent
   core, the persistent RPC session and the server supervisor.

Every invariant, every action property and both refinements of the passing runs are theorems
(section 5); liveness is left to TLC. The next proofs are those of the modules under 5 and 6.

## 3. How the models correspond to the code

### 3.1 `ReplaySettleOrder`: the gate as a value

`replay-order.ts` keeps a `Map` from keys to places, a cursor, a map of parked
closures and a microtask queue. The model makes the gate a record (`order`,
`cursor`, `parked`, `queue`, `opened`) and each method an operator on it: `Hold`
(with `Pumped`), `Flushed`, `Opened`, and `Remaining` (what `open()` releases, in
order). A closure is represented by the key it was parked under: the engine
derives from it the event and the answer the closure would have produced.
`recoverSettleOrder` is `WorkflowEngine!RecoveredOrder`, since it reads the
journal.

### 3.2 `WorkflowEngine`: one engine, its script, its driver and its host

| code | model |
|---|---|
| `dwf_node`, `dwf_event`, `dwf_run` | `rows`, `events`, `run`: what survives a death |
| `engine.ask`, `admitAsk`, `drainAdmission` | `Ask` and `Admit`, inside `StartBranch` and `Continue` |
| `pumpActor`, `pumpAll` | `Dispatchable` and `Pump`, part of every action that scans |
| `dispatch()` around `await ensureSession` | `SessionCreated`, `Dispatch`, `DispatchFails` |
| `handleSubmitAttempted`, `handleTurnEnded`, `askFailed` | `SubmitAccepted`, `SubmitRejected`, `TurnEnded`, `AskFailed` |
| `settleOk`, `settleFailed`, `finishLiveNode` | `Settle` |
| `complete`, `fail`, `stop`, `finishRun`, `settleAll` | `Finish`, in `ScriptReturns`, `Continue`, `Ask`, `Stop` |
| the gate's microtask | `FlushReplay` |
| `setMaxConcurrency` | `SetMaxConcurrency` |
| `resumeEngine`, `recoverSettleOrder`, `seedRecordedAsks` | `Resume` |
| `reconcile` of orphaned rows | `Reconcile` |
| process death | `Crash` (between handlers), `CrashInSettle` (between a settlement's two writes) |

A handler is one action, because nothing else runs before it returns. The script
is a deterministic program, `Prog`: per branch a sequence of calls
`<<site, actor>>`; branches start in `BranchOrder` and go on in the order their
answers arrive in `inbox`, as promise reactions do. Its input hash is where it is
and how its previous call ended, which is all that the properties tell apart.

Kept: each guard and early return on the ask path, including the paths on which
the row exists with another hash, the session cannot be created, the ask settles
during the `await`, or the run is settled when a report arrives. Left out: token
and time statistics (`noteStats`, `noteUsage`), the contents of answers, world
reads, reports, artifacts, holes and imported caches (components of their own),
events that neither recovery nor a property reads.

Switches that a run states by its constants:

* `LiveOutrunsReplay`: an ask the resume re-dispatched may end before the recorded prefix
  was replayed (`ReplayedAll`). In the code nothing makes it wait, so every passing run
  has it `TRUE`.
* `TornSettle`: a death may fall between a settlement's row and its event. `FanOutCrash` and
  `SharedHold` have it `TRUE`; the other runs' properties do not depend on the event.
* `CancelledOrder` sets both to `FALSE` and allows no death at all, so that what it shows
  is due to two stops alone.

### 3.3 `DurableRun` and `EngineRefinement`

`DurableRun` states what durable execution promises without any mechanism: an
append-only history of settled calls; every life is told a prefix of it, in
order, and only a life that has been told everything may add to it.
`EngineRefinement` reads the history, what was told, and the phase off the
engine's event log and run row. The history is what the log says at the places of
its live settlements (`SettledAt`), what a life was told is what it says at those of its
settle events since its start (`ToldAt`); `AnswersAt` reads either by its places, without a
recursion over the log, so that the refinement can be proved as well as checked.

The engine is not a durable run in every behaviour: section 6 names three ways in which a
later life replays something else than what happened. Each leaves a mark in the journal, and
the properties are stated in terms of the marks instead of excluding the behaviours:

| conjunct of `Orderly` | it fails once |
|---|---|
| `EverySettlementIsLogged` | a process died between the row and the event of a settlement (`scheduler.ts:499`) |
| `SettleOrderKept` | an ask that a stop cancelled was overtaken by a settlement before it settled in a later life (`replay-order.ts:194`) |
| `ReplayComesFirst` | a re-dispatched ask settled before the replay had caught up (`scheduler.ts:148`) |

`DurableWhileOrderly` says that each step of the engine that leaves the journal without a
mark is a step of `DurableRun`, and `MismatchIsMarked` that a script is told that its inputs
changed only if there is a mark. Stops, deaths and resumes are all allowed; most of them
leave none. A mark is never removed again, so the journal of a run tells by itself
whether its replay can be trusted.

### 3.4 `ConcurrencyController` and `ConcurrencyGovernor`: admission in the process

The controller is a class without a clock; the model makes it a record and each of its
methods an operator (`Succeeded`, `Throttled`, `SetGrowthLimit`, `Seed`, ...). Two things
are represented otherwise than in the code. Time is relative: `cooldown` is the ticks
left, `requestAge` and `throttledAge` grow up to the idle window and no further. An epoch
is only compared with the present one, so `current`, the requests admitted in it, stands
for it: turning the epoch empties the set.

The governor is one bucket, since buckets share nothing but the bounds of the runs.

| code | model |
|---|---|
| `tryAdmit`, then `admit` if it missed (`request-admission.ts`) | `TryAdmit`, `Admit`; between them the request is `missed` |
| `drain`, at the end of every operation that may free a slot | `Drain`, with `GrantNext` for each waiter it lets through |
| `armCooldownWake`, its timer | `Armed`, `Wake` |
| `onAbort`, `signal.aborted` | `Abort`, `AbortEarly` |
| `publish` and `release` of a ticket | `Complete`, `Fail`, `Refuse`, `Release` |
| `setRunBound`, `clearRunBound` | `SetRunBound`, `ClearRunBound` |
| the main agent's `observerAdmission` | `ObserverRequest` |

`queues` is a JavaScript `Map`, so it is a sequence of entries in insertion order and an
entry disappears when it is empty; the rotation depends on both. Left out: the events
fanned out to listeners and `lastBad`, on which nothing depends.

### 3.5 `SeatGate`: admission in the run

The gate's `working` and `parked` are variables; each method is an operator on the pair
(`Unparked`, `Parked`, `Aborted`, `AskStarted`, `AskSettled`). What decides its behaviour
lies outside it and is modelled with it: the scheduler's dispatch (`Ask`, `StartAsk`,
`Settle`, with any choice of which queued asks go first), the turns (`TryRequest`,
`Acquire`, `EndRequest`, `EndTools`), the control that moves both bounds in one call
(`Retune`), and the settlement of the run, whose loop over the asks in flight is modelled
ask by ask (`SettleRun`, `AbortOne`) because a stop calls the gate between two of them.

Left out: a turn step that a subagent still sends after its submit was accepted, two
concurrent requests of one subagent, and requests without a signal, which nothing sends.

### 3.6 `RelaySession` and `ExactlyOnceLink`

| code | model |
|---|---|
| `outboundBatches`, `nextMessageSeq`, `highestFullySentMessageSeq`, `lastAckedMessageSeq`, `unacknowledgedByteCount` | `reserved` and `tx` |
| `assembler`, `pendingAckMessageSeq` | `rx`, and `delivered` for what it gave out |
| `reserveMessage` with the encoder | `Reserve`, `ReserveOverflows` |
| the iterations of `flushPendingFrames` | `SendAck`, `SendFrame`, `FlushEnds` |
| `replayUnacknowledged`, called by `onSendReady` of both ends | `SendReady` |
| `acceptPayload`, `processInbound`, `processAck`, `queueAck`, the assembler's `accept` | `Ignore`, `AckArrives`, `DuplicateArrives`, `FaultArrives`, `FragmentArrives`, `MessageArrives`, `DeliveryFails`, with `AckQueued` |
| `AcknowledgedRelayDeadline`, the assembly timer | `timer`, `GraceExpires`, `AssemblyExpires` |
| `enterDegraded`, `dispose` followed by a new adapter | `Degrade`, `Renewed` |
| `openWorkspaceBridge` of the phone, its request timing out | `AskBridge`, `BridgeOpened`, `OpenedLate` |
| `createWorkspaceBridge` of the desktop before, around and after `await attachWorkspaceHost`, with the superseded and the error path; `respondToWorkspaceBridgeOpen` and its gate `readyAnnounced` | `OpenRefused`, `OpenBridge`, `AttachFails`, `BridgeAttached` with `attaching` |
| `pendingOutboundPayloads` of the desktop, flushed by `onSendReady`, emptied by its timer | `buffered`, `FlushBuffered` in `SendReady`, `BufferExpires` |

A message is told from the others by where it begins in the stream of fragments, so a
message put together of the wrong fragments differs from every message sent. `wire` is the
relay (external): it keeps the order of what it carries to one end and may lose any of it.

The desktop disposes of the bridge it has before it attaches a host to the one asked for; an
open that arrives during the attachment supersedes it, and the bridge that was being attached is
never announced. An announcement that the transport does not take waits in the outbound
buffer and leaves before anything of its bridge, also when that bridge has been replaced
meanwhile. The phone installs the bridge of any announcement whose request is still waiting,
be it the last one it asked for or not. A request that could not be sent is tried once more
with the same generation; the desktop has not seen it then, so the model asks once. The
buffer also holds other payloads and is emptied at fifty; for the announcements this is what
`BufferExpires` does.

A frame counts one byte. There is no clock: whatever has a deadline may miss it at any time.
The places where the code looks at the deadline besides its timer notice nothing that the
armed timer does not, which is what `TimerArmed` is for. The index of the next fragment is
kept per message in the code and once in the model: only the message being sent can have
one, since a replay resets them all. A payload that arrives while `sendFrame` is on the stack
is queued and processed between two iterations of the loop; in the model it arrives there.
Left out: faults that need a payload the other end did not send (checksums, malformed or
oversized frames), the exhaustion of the sequence numbers, and announcements from within
`sendFrame`. `dropped` and `unsure` are history variables that only properties read.

`ExactlyOnceLink` has, per generation, what each channel was asked to send and what it was
given, and no other state: send, deliver the next one, or move to a later generation.

### 3.7 `RunService`: the requests around an engine

| code | model |
|---|---|
| `runs` (registry), `terminalOrder`, `closed`, the settlements `close()` awaits | `registry`, `terminalOrder`, `closed`, `closing` |
| an entry with its engine, its control and its controller | an element of `engines`; `phase` is `live` until the engine settles, `settled` until `trackSettlement`'s continuation ran, then `noted` |
| `dwf_run` | `rows`; `filled` are the holes with a body in the stored script, `from` is the predecessor |
| `submit`, `startNewRun` | `Submit`, `LaunchNew` |
| `amend` around its three awaits | `AmendCall`, `AmendAwaits`, `AmendImports`, `AmendLaunches` |
| `resume` of a run without a predecessor; of an amended run, around the rebuilt cache | `ResumeOriginal`; `ResumeCall`, `ResumeLaunches`; both by `LaunchAgain` |
| `cancel`, `retuneRunConcurrency` | `Cancel`, `Retune` |
| `reachHole`, `fillHole` of the engine | `ReachHole`, `Waiting`, `Accept` |
| `fillDynamicWorkflowHole`, its queue, `fillOnce` around minting and rewriting the draft | `FillTurn`, `FillMinted`, `FillDrafted` |
| the script's end, a stop by the provider or the sandbox | `EngineEnds` |
| `trackSettlement`, `rememberTerminal` | `SettlementNoted` |
| `close` | `Close`, `CloseEnds` |
| death of the process, `reconcileOrphanRuns` of the next one | `Restart` |

Constructing an engine and aborting one are synchronous, so launching is one step and a
stop writes the row in the step of the caller. A script is the set of its holes with a body;
two scripts differ if these sets do, which is what the engine's comparison of hashes is about.
Statuses are grouped by what the service asks of them: `finished` (completed, errored),
`superseded`, `stopped` (the rest). The engine's own work is `WorkflowEngine`.

`raced` is a history variable: the runs with two resumes in flight at once, which the code
does not prevent (section 6). The properties except them, and say what holds otherwise.

Left out: holes inside a filled body, a draft that cannot be written, a draft given at
submission, a session that is closed and opened again in one process, and other processes
on the same session.

## 4. Runs

Distinct states are given so that a reader can see that a bound is not trivial.

| run | instance | shows |
|---|---|---|
| `FanOutCrash` (1.0 million) | two branches on two subagents share two call sites, so which branch gets the second ordinal depends on who was answered first; three lives, user stops, deaths between handlers and inside settlements, re-dispatched asks that overtake the replay | `MismatchIsMarked`, `DurableWhileOrderly` |
| `SharedHold` (848 thousand) | two branches first ask a subagent of their own, then both ask a third: recorded and new asks of one subagent meet; three lives, stops and deaths anywhere | `TranscriptOrder`, `EveryCallIsInOnePlace`, `SettlementAnswersAll`, `SettledRowsAreFinal` |
| `SharedRetune` (274 thousand) | the same, one branch not catching failures, with a typed site (repairs and nudges), failing session creation, supersession, script errors and retunes across a resume; two lives | `TypeOK`, `BoundIsFollowed`, `RunSettledIsLast`, `TurnsBelongToLiveAsks` |
| `SharedLiveness` | bound of one ask, two lives, weak fairness | `CallsAreAnswered`, `RunComesToRest` |
| `CancelledOrder` | see findings | `NoReplayMismatch` violated |
| `GovernorGate` (269 thousand) | two runs with three requesters, the main agent; an initial cap of two, Retry-After of none or a tick, aborts | `TypeOK`, `InFlightExact`, `NoOvertaking`, `BurstCountsOnce` |
| `GovernorRuns` (128 thousand) | three requesters, bounds registered and cleared, every refusal with a Retry-After; no aborts, no main agent, fairness | `WaitersAreWatched`, `CapWithinGrowth`, `WaitersAreServed` |
| `LostWake` | see findings | `WaitersAreWatched` violated |
| `SeatGateRun` (30 thousand) | four subagents, bounds one to three, retunes, aborts, settlement anywhere, fairness | `AsksAreCounted`, `SeatsAreTaken`, `NoDispatchPastParked`, `CutTakesEffect`, `ParkedAreSeated` |
| `RelayReplay` (751 thousand) | two generations: in the first each end sends one message, in the second the desktop sends two of two fragments; each end is announced once, one payload is lost; an open may be refused, superseded or fail, an announcement wait or expire; a buffer of three frames | `TypeOK`, `AckedIsDelivered`, `OnlyLossMakesGaps`, `BytesAreKept`, `TimerArmed`, `NothingStuck`, `QuiescentIsComplete`, `ImplementsExactlyOnce` |
| `RunServiceRun` (641 thousand) | two runs, the second an amendment or not; four launching calls, one death, two holes in the first run, one settled entry kept; fairness | `TypeOK`, `EnginesAreRegistered`, `RowsFollowEngines`, `OnlyAmendmentsOutliveClose`, `DraftFollowsScript`, `FillsAreKept`, `RowsTakeLegalTurns`, `CallsReturn` |
| `UnownedEngine` | two runs, no holes | `EnginesAreOwned` violated |

Why the bounds are enough. Three lives are the least in which a mistake made while
recording a replay can be read back. Of `Orderly` no conjunct can be left out in
`FanOutCrash`: with any one of them gone TLC finds a violation, so each of the three ways
to a wrong replay does occur in the run; without stops, torn settlements and overtaking
(52 thousand states) `Orderly` is an invariant. Two branches sharing a site are the least in
which an ordinal depends on an order. One subagent shared by two branches is the least at which a
recorded and a new ask compete. `MaxOrdinal` is exactly the number of calls of a
site, so it never cuts a behaviour short. One repair and one nudge give both the
branch with a budget left and the one without.

For the governor, two queues are the least between which a rotation can go wrong, and two
requesters in one of them the least for an order within a run. A key whose cap is one at
first and may grow to two or three has a floor, a proven level above it and a step between;
a burst needs three requests out and two cuts to go. The constants of time are small
because only their order matters: in `LostWake` the Retry-After exceeds the idle window,
elsewhere it does not. `IncreaseAfter` is four in the code; a streak of one or two has the
same cases. The seat gate needs three subagents for two in the FIFO under a bound of one;
the fourth lets one more be queued with the scheduler.

For the relay, two fragments are the least in which a replay can begin in the middle, two
messages the least with an acknowledgement that covers one and not the other, a buffer of
three the least at which the second message of two overflows it before the first is
released, and two generations the least with leftovers. One loss and one announcement per
end give a gap, a replay of something lost and a replay of something that was not.

For the run service, two runs are the least with a predecessor, and four launching calls
the least with an amended run that is resumed twice at once (submit, amend, two resumes).
Two holes are the least with a body to lose, and one settled entry kept is the least limit
at which the entry of a resumed run is up for eviction. `Holed` restricts the holes to the
first run: the second adds no case, as nothing about a fill depends on how its run began.

Fairness. JavaScript runs every microtask and every promise reaction, so the
script's and the gate's steps are weakly fair; the driver ends every turn it
starts (it redrives a failed one and reports it at last as a failure) and the
session promise settles, so those are weakly fair; the next process reconciles.
Nothing is assumed of stops, retunes, crashes or resumes. A model request ends, since
its runner releases the ticket in a `finally`; a request that missed the fast path goes on
to the queue once its wait was reported; a due timer fires, and time passes. At the seat
gate requests and tools end and a request that missed goes on to the gate; requests that
wait there are not aborted for ever (`TurnFairness`): what aborts one is the end of its ask
or a failure of a request, and a waiting one has not been sent. `ParkedAreSeated` moreover
assumes that a turn that gets its answers again and again ends its ask (`AsksEnd`);
`CutTakesEffect` does not. In the run service a continuation whose promise has settled runs,
a noted settlement follows the engine's, and the wait for quiet sessions is bounded by five
seconds (an abort settles the engine at once);
nothing is assumed of the engines' own end. The relay session has no liveness property: what
moves an idle session on is an announcement, which nobody owes it. `QuiescentIsComplete` is
the safety half of it.

Deadlock is checked in the runs of the engine and of the governor: `Over`, the step of a
finished engine, is enabled only when the run is final or out of lives. A settled run of
the seat gate stops, and so do a session with nothing to send and a closed service, so
their runs do not check it; `NothingStuck` and `CallsReturn` say which stops are right.

## 5. Proofs

### 5.1 The engine

`WorkflowEngineProofs` begins with lemmas about the gate (`ReplaySettleOrder`): what `Hold`,
`Flushed` and `Opened` return is again a gate, and only keys that were given to it ever come
out of it. It then proves, from `ConstantsAssumption` alone, for every script, every
set of subagents, every number of lives and every choice of the switches (a torn
settlement and an early live answer included):

* `EngineInvariant`: `Spec => []IInv`, where `IInv` is inductive;
* `TypeCorrect`: `Spec => []TypeOK`;
* `SettledRowsStay`: `Spec => SettledRowsAreFinal`.

Why `TypeOK` is not enough. A settled row is final because a report is only heeded
for an ask that is *live*, and the row of a live ask is `running`: that is
`LiveIsRunning`. It is preserved by admission only if a call that is admitted as
new has no row yet (`NewCallsAreNew`) and one admitted as recorded has one
(`RecordedCallsHaveRows`). And the events the gate causes carry the outcome of a row,
which exists only if the gate holds settled asks (`GateHoldsSettled`). `IInv` is the
conjunction of the five.

The proof has one lemma per operation that several actions share (`AdmitStep`,
`AskStep`, `SettlementStep`, `BlankLifeStep`, `QuietStep`) and one per group of actions
(`ScriptStep`, `DriverStep`, `HostStep`, `IdleStep`), combined in `NextStep`.

`EngineOrderProofs` proves, on top of it and from the same assumption, the hold rule and
what it rests on:

* `OrderInvariant`: `Spec => []OrderInv`, inductive;
* `TranscriptsInOrder` (`TranscriptOrder`), `NoStrayTurns` (`TurnsBelongToLiveAsks`) and
  `SettledLogIsClosed` (`RunSettledIsLast`).

The argument. `TranscriptOrder` compares rows of several lives by `actorSeq`, so the proof
must know that a subagent's rows are numbered 0, 1, 2, ... without a gap (`Numbered`) and that
the life in force counts on from there (`CountsAgree`). Then it follows the hold rule: of the
rows this life has reached, those without an answer are in dispatch or queued
(`ReachedArePlaced`), in the order of their numbers (`QueuesInOrder`), and what was put to the
model is the one in dispatch (`StartedAreCurrent`). A new ask waits until every recorded one of
its subagent has come again, or it would be numbered like one of them: `WaitingIsSound` says
that what waits there is for that subagent and each call once.

`EnginePlacesProofs` proves

* `CallsInOnePlace` (`EveryCallIsInOnePlace`) and `SettlementAnswersEveryCall`
  (`SettlementAnswersAll`), from the inductive `PlacesInv`;
* `TheBoundIsFollowed` (`Spec => BoundIsFollowed`), from the inductive `BoundInv`.

`EveryCallIsInOnePlace` counts the places of a call: waiting for its admission, in flight, held
by the gate, answered in the script's inbox. That there is one (`CallsAreSomewhere`) and that
there is no second are separate. The second needs that calls of different branches differ
(`CallsDiffer`), that this life has reached what is in flight or answered but not what waits
(`LiveAreReached`, `AnsweredAreReached`, `WaitingIsUnreached`), and that the gate holds a key
once (`GateIsSound`, `HeldOrOnItsWay`). For the bound, the pump goes round the subagents;
`TheBoundIsFollowed` argues by the least round after which one could be left idle beside a free
slot. It needs the order of the subagents to name each once, which
`ConstantsAssumption` says because `scheduler.ts` appends a subagent when it makes it.

`EngineReplayProofs` proves what durable execution is for, on top of all of these:

* `OneHistory`: `Spec => [](Orderly => HistoryInv)`;
* `ImplementsHistory`: `Spec => DurableWhileOrderly`, the refinement, and its corollary
  `OrderlyRunIsDurable`: `Spec /\ []Orderly => Durable!Spec`;
* `NoMismatchOnReplay`: `Spec => []MismatchIsMarked`.

They hold for every script, every set of subagents, every bound and every choice of the
switches: any number of lives, stops for any reason, deaths between handlers and inside
settlements, races of re-dispatched asks with the replay, retunes and failing sessions. Nothing
is assumed of the run; `Orderly` is a condition on the journal (section 3.3), and none of its
parts can be dropped, as `FanOutCrash` shows.

The inductive invariant is `PlacesInv /\ (Orderly => HistoryInv)`. `PlacesInv` (above) holds
of every run. Since `HistoryInv` is known only of a journal without a mark, the first lemma is
that a mark stays: `OrderlyBefore` shows for every step that what is orderly after it was so
before it, by following how each operation extends the log.

The history. `LogIsSound` says that the log has one live settlement per settled row, with its
result, and no other answer that does not repeat one. So its live settlements are a
sequence in which each ask occurs once. `recoverSettleOrder` takes the first settle
event of each row, cancelled or not; that it returns that very sequence (`RecoversHistory`) is
where `SettleOrderKept` is needed. A life then opens its gate over the
history as it is. `GateFollows` counts: what was told is what the gate has passed, without what
it still has to flush, followed by what this life has added; that it has added nothing before it
was told all of the beginning is `ReplayComesFirst`. `GateKnows` says that what the gate still waits for was not reached,
without which a settlement could be one the gate has yet to replay. The answers in the script's
inbox are the end of what was told (`ToldFollows`). Each operation is followed by a lemma
(`AdmitFollows`, `FinishHistory`, `SettleHistory`, `FlushHistory`, `ResumeHistory`), and each
step maps to `Settle`, `Replay`, `End`, `Cut` or `Resume` of `DurableRun` or to a stutter; a
torn settlement adds nothing to the log and is the death it leaves behind.

The calls. The name of a call is its site and how many calls that site had before, over all
branches, so `NoReplayMismatch` is about the order in which branches call. `ReplayInv`, inductive in
the same form, orders it: the *causes* of calls are the starts of the branches, in `BranchOrder`, and then the
answers of the history. A cause makes at most one call, whose site and hash are a
function of the cause (`CallOf`), and the number of a call is how many causes up to its own call
the same site (`MadeBy`). Every row of the journal, and every call that waits, is made by a cause
of the history in this sense; the ordinals of a life count the causes it has acted on
(`OrdinalsCount`), which are always the first ones (`StartsInOrder`, `AnswerIsNext`). A call the
script makes is then that of the next cause, whichever life makes it (`AskMade`), and two causes
never give one name to different calls (`SameName`): a row that is met has the hash of
the call. It rests on every branch being started once, which `ConstantsAssumption` says
(`BranchOrder` names none twice).

### 5.2 Admission

`ConcurrencyGovernorProofs` proves, from `ControllerAssumption` and `GovernorAssumption`
(finitely many requests and runs; any bounds, factor, Retry-Afters and intervals):

* `GateTypes` (`TypeOK`), `EveryTicketIsCounted` (`InFlightExact`), `CapFollowsTheRuns`
  (`CapWithinGrowth`);
* `ABurstLowersOnce` (`BurstCountsOnce`) and `NobodyOvertakes` (`NoOvertaking`);
* `OnlyAbortsLoseTheWake`: `Spec => []WaitersAreWatched` if no waiting request is aborted.

The argument has three layers. A lemma per signal of the controller says what it does to a
*sane* controller (proven level at most the cap, cap at most the limit, limit at least the
initial cap): it stays sane, `inFlight` changes by the one request, and it is `Cautious`: if
the cap falls the epoch ends, and only those let in join an epoch. A lemma per operation on the
queues says who is left and in which order (`Left`, `Joined`); they need what no property
mentions, that an entry is never empty, that a run has one, and that nobody waits twice
(`QueuesWell`). `Drained(b, d)` is what both become over a drain of any length: those let through
are exactly those that left the queues, `inFlight` plus the waiters is constant, the order within
a run is kept. It is transitive, a round of `drain()` satisfies it, and the least round that
would break it cannot exist, since the rounds are a recursive function and induction takes
this form here. `IInv` adds what relates the bucket to the requesters: those queued are those
that wait, the main agent never is, `inFlight` is the number of tickets out, the limit is that of
the runs in use. A lemma per action then proves at once that it keeps `IInv`, is cautious with
regard to every request that was out, and lets nobody past (`Stepped`).

`WaitersAreWatched` is false in general (run `LostWake`). The proof for the other case shows
that a drain has as many rounds as it needs (`RoundsSpend`): it ends with no waiter, or with the
gate shut by a request in flight or by a cooldown that is still to come, for which
`armCooldownWake` sets the timer. `onAbort` is thus the only place in the code that can lose it.

`SeatGateProofs` proves, from `SeatAssumption` (finitely many subagents, positive bounds):

* `SeatInvariant`: `Spec => []IInv`, inductive;
* `LastSeatTaken`: `Spec => []SeatsAreTaken`;
* `EveryAskCounted`: `Spec => []AsksAreCounted`;
* `NeverPastParked`: `Spec => NoDispatchPastParked`.

The argument. `SeatsAreTaken` compares a number with a bound, so the proof must know that
`unpark()` seats people who were not working before: the two sets are apart and the FIFO
has no repetition. `UnparkedGate` and its neighbours say of each operation of the gate that
it leaves such a pair, with nobody lost; a lemma per action then has only the stages to look
after. `NeverPastParked` needs a fact about the scheduler and one about the gate: what is
dispatched fits the bound (`DispatchWithinBound`, by counting `Pumpable`), and while somebody
is parked the active asks exceed it (`ParkedMeansFull`): as many as the bound work, and the
parked one is active as well.

### 5.3 The relay session

`RelaySessionProofs` proves, from `RelayAssumption`, for every workload and every number of
generations, losses and announcements: `TypeCorrect`, `ExactlyOnce` (`DeliveredIsSentPrefix`),
`ForgottenIsDelivered` (`AckedIsDelivered`), `BytesAreExact` (`BytesAreKept`),
`DeadlineCovers` (`TimerArmed`), `NothingLeftBehind` (`NothingStuck`) and `Implements`
(`Spec => Link!Spec`).

The argument. What is on the wire ties the two ends together, so the invariant speaks of it:
every frame under way is a fragment of a message its sender reserved in that generation, and
every acknowledgement is of a message the peer's channel was given (`WireGood`); the
announcements of bridges arrive in the order of their generations (`ControlsInOrder`), so
no adapter goes back (`Generational`). That order passes through the desktop: `Announcing` says
that the generation whose host is being attached lies above the bridge it has and below what the
phone has still to be heard asking for, and that what waits in the outbound buffer continues the
order of what travels to the phone. Messages lie end to end in the stream of fragments
(`Numbered`), hence a fragment whose number is the expected one can only be the next of the
next message; the assembler's state says where in which message it is (`Acknowledging`), and
the sender's cursor where in which it is (`Sending`). A delivery then appends the
message its sender has at that place. The parts of the sender's own bookkeeping are
inductive on top of that, and the refinement maps each action to one step of the link: the
only delivery is `MessageArrives`, the only send `Reserve`, the only renewals `BridgeAttached`
and `BridgeOpened`.

The same module proves, on top of it, `OnlyLoss` (`OnlyLossMakesGaps`) and `QuietIsComplete`
(`QuiescentIsComplete`), from the inductive `GapInv`. That a replay makes no gap is a fact
about three places at once: what the receiver has taken, what is under way, and where the sender
goes on. `AssemblerAt` says where in which message the receiver is; `SmoothAt`, as long as
nothing was lost, that each frame under way follows on the receiver's place or on a frame before
it, whatever was sent twice; `CoversAt` that the sender's next frame does too. The
same must hold before a bridge is open at both ends, while its announcement travels (`Pending`);
that no frame of a bridge travels while its announcement still waits in the buffer is an
invariant of its own (`Unheard`), without which a flushed announcement could fall behind them.
For the end at rest, `AnsweredAt` adds that whatever a receiver was given is acknowledged, or
its acknowledgement is due or under way, or there is still a frame to come that asks for one. The proof showed that two guards of `Misplaced`
overlapped in an earlier form of the model, so that its value was left to the choice of a case;
it now asks in the order of the code.

### 5.4 The run service

`RunServiceProofs` proves, from `ServiceAssumption`, for any number of runs, launching calls
and deaths, any set of holes and any size of the registry:

* `SafetyInvariant`: `Spec => []IInv`, inductive;
* `TypeCorrect` (`TypeOK`), `EveryEngineIsRegistered` (`EnginesAreRegistered`), `RowsAgree`
  (`RowsFollowEngines`), `DraftsAgree` (`DraftFollowsScript`), `OnlyAmendmentsOutlive`
  (`OnlyAmendmentsOutliveClose`);
* `NoBodyIsLost` (`FillsAreKept`) and `RowsTurnLegally` (`RowsTakeLegalTurns`).

The argument. Every operation that awaits acts later on what it read before, so `IInv` says
for each of them what is still true when it continues. A run that is minted and not launched
left nothing behind (`Fresh`), so an amendment's launch replaces no entry, row or engine. A
resume that awaits the cache is alone, its row is the one it read, still `stopped`, and no
engine of the run is alive (`ResumesWait`): hence the scripts agree and the launch makes no
second engine. A fill is alone in its queue and the script it read is the engine's if that
engine is alive (`FillsWait`): hence the body it installs adds one hole and takes none away.
`ClosingLeavesAmendments` holds from the call of `close()` on, because eviction never hides a
live entry from it (`EnginesAreRegistered`). Runs that two resumes race for are excepted
throughout, as in the properties; `Fresh`, the types and the queues hold for them as well.
There are three kinds of step, with a lemma each: a launch (`LaunchStep`), a step in which
every run stays or its engine and its row end together (`QuietStep`), and a step of one live
engine (`EngineStep`); a lemma per action brings it under one of them.

### 5.5 Only model-checked

* Liveness: `CallsAreAnswered`, `RunComesToRest`, `WaitersAreServed`, `CutTakesEffect`,
  `ParkedAreSeated`, `CallsReturn`. They rest on fairness, which is beyond the prover.
* That a condition of a theorem cannot be dropped is shown by TLC: `NoReplayMismatch` without
  `Orderly` (`CancelledOrder`), `WaitersAreWatched` with aborts (`LostWake`).

## 6. Findings

* `CancelledOrder`: `recoverSettleOrder` (`DW/engine/replay-order.ts:194`) takes the first
  `node-settled` of an instance whatever its outcome, and a stop writes
  `node-settled {cancelled}` for what was in flight. Stop, resume, settle in another
  order, stop, resume: the third life replays the order of the first abort and a pure
  script fails with `InputHashMismatch`.
* `LostWake`: aborting a waiter of a key that was idle for long forgets the cooldown, cancels
  the timer and sets none (`BOOT/workflow-concurrency-governor.ts:366`); the other waiters
  wait for a request that nobody may send. It takes a Retry-After that ends after the idle
  window, which counts from the admission of the last request. `OnlyAbortsLoseTheWake` says
  that nothing else loses the wake.
* `UnownedEngine`: `amend` asks once whether the service is open and then waits
  (`BOOT/dynamic-workflow-run-submit.ts:148`); a `close()` in between stops the predecessor,
  awaits it and resolves, and the amendment launches its successor afterwards (`:205`), an
  engine that no service will stop. `lifecycle.ts:156` wants just this to be impossible, and
  `docs/execution-engine.md` says that no journal event follows the close.
  `OnlyAmendmentsOutliveClose` says what is true of the code: nothing else gets past.

More observations, which no run is kept for:

* A settlement is a row write and an event write (`DW/engine/scheduler.ts:499`); a death
  between them leaves a settled row without a place in the order, although
  `replay-order.ts:162` says the two are one write. With `TornSettle = TRUE`,
  `NoReplayMismatch` fails; the journal then lacks `EverySettlementIsLogged`.
* An ask re-dispatched by a resume can settle before the recorded prefix was replayed
  (`DW/engine/scheduler.ts:148`), which the gate does not order. With
  `LiveOutrunsReplay = TRUE`, `NoReplayMismatch` fails; the journal then lacks
  `ReplayComesFirst`. `NoMismatchOnReplay` proves that these two and `CancelledOrder` are
  the only ways.
* A passed deadline of a cooldown stays set, so the governor's timer re-arms itself with no
  delay as long as the cap is taken (`BOOT/workflow-concurrency-governor.ts:317`):
  `WakeFiresOnce` of `ConcurrencyGovernor` fails.
* Two resumes of one amended run can both pass the check of the registry, await the rebuilt
  cache and launch (`BOOT/dynamic-workflow-run-submit.ts:488`): `EnginesAreOwned` fails
  without any `close()`, and the first of the two engines is out of reach of cancel.
  `docs/execution-engine.md:505` promises `already_running`.
* Two amendments of one run in flight both report that they superseded it, though its row
  names the first only; so does an amendment that comes when the run has just finished
  (`BOOT/dynamic-workflow-run-submit.ts:149`). Read off the code, not checked.
* A call still kept back by the hold rule when the run settles is answered by nobody
  (`DW/engine/engine-settlement.ts:41`), although `docs/execution-engine.md:496` says that
  nothing the script is still awaiting is left hanging. `SettlementAnswersAll` excepts these
  calls by name.
* The main agent's requests overwrite the cursor of the rotation
  (`BOOT/workflow-concurrency-governor.ts:300`): with `agent` among the `Requests` of
  `GovernorRuns`, `WaitersAreServed` fails, because the rotation can begin at the first queue
  each time.
* A raise of the cap does not turn the epoch (`DW/engine/concurrency.ts:158`), so a refusal of
  a request sent under the lower cap still lowers the raised one, although
  `docs/dynamic-workflow/concurrency.md:395` says that a refusal judges the cap its request
  was sent under. `BurstCountsOnce` is what does hold.

## 7. Not modelled

`PROJECT.json` says for every component what is missing and why. In short: rendering,
transport and storage back ends have no state of their own that a model would say
something about; the compiler is a pure function on syntax trees; the remaining
stateful components are on the plan.
