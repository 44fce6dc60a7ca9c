----------------------------- MODULE RunService -----------------------------
(***************************************************************************)
(* The workflow run service of a session App: its registry of entries, the *)
(* engines it launches, the rows of the journal, and the calls that wait   *)
(* between reading one and writing the other. Submitting is one            *)
(* synchronous step; amending a run and resuming an amended run await in   *)
(* the middle, and so does a fill of a hole.                               *)
(*                                                                         *)
(* An entry and its engine are one record here: launching makes both in    *)
(* one step. A script is the set of its holes that have a body.            *)
(***************************************************************************)
EXTENDS Integers, Sequences

CONSTANTS MaxRuns,        \* bound: run ids minted
          MaxLaunches,    \* bound: accepted calls that may launch an engine
          MaxRestarts,    \* bound: deaths of the process, each followed by a new service
          Holes,          \* the holes of a script
          Holed,          \* bound: the runs whose script has holes
          Bounds,         \* the concurrency bounds a retune asks for
          InitialBound,   \* the bound a run is submitted with
          TerminalLimit   \* settled entries the registry keeps

ASSUME ServiceAssumption ==
    /\ MaxRuns \in Nat /\ MaxLaunches \in Nat /\ MaxRestarts \in Nat
    /\ Bounds \subseteq Nat /\ InitialBound \in Nat
    /\ TerminalLimit \in Nat

Runs == 1..MaxRuns

VARIABLES
    minted,       \* run ids given out
    calls,        \* launching calls accepted, for the bound
    restarts,     \* deaths of the process
    rows,         \* per run: its row of the journal
    engines,      \* the engines launched, with their entries, in order
    registry,     \* per run: its entry, an index into engines, or 0
    terminalOrder,\* runs in the order their entries settled, for eviction
    amending,     \* per run to be: the amendment that will launch it
    resuming,     \* per run: the rows read by the resumes that await the rebuilt cache
    filling,      \* per run: the fills whose turn it is; they queue, so one at most
    drafts,       \* per run: the script in its draft file
    closed,       \* the service is open, closing or closed
    closing,      \* the entries whose settlement close() awaits
    raced         \* history: runs with two resumes in flight at once

serviceVars == <<registry, terminalOrder, closed, closing>>
callVars == <<amending, resuming, filling>>
bookVars == <<minted, calls, restarts, raced>>
vars == <<rows, engines, drafts, serviceVars, callVars, bookVars>>

-----------------------------------------------------------------------------
(* Values. "finished" is completed or errored, "stopped" is stopped for any *)
(* reason but the amendment's, which is "superseded".                       *)

Statuses == {"none", "running", "stopped", "superseded", "finished"}
Terminal == {"stopped", "superseded", "finished"}
RowStates == [status : Statuses, by : 0..MaxRuns, from : 0..MaxRuns,
              filled : SUBSET Holes, bound : Nat]
NoRow == [status |-> "none", by |-> 0, from |-> 0, filled |-> {}, bound |-> 0]

\* live; settled, with the entry not yet told; settled and noted; gone with its process.
Phases == {"live", "settled", "noted", "gone"}
Engines == [run : Runs, phase : Phases, inlined : SUBSET Holes,
            parked : SUBSET Holes, answered : SUBSET Holes, script : SUBSET Holes,
            drafted : BOOLEAN, bound : Nat, late : BOOLEAN]

NoDraft == [written |-> FALSE, text |-> {}]
Drafts == [written : BOOLEAN, text : SUBSET Holes]

NotAmending == [at |-> "idle", pred |-> 0, entry |-> 0]
Amendments == [at : {"idle", "settlement", "quiet", "import"},
               pred : 0..MaxRuns, entry : Nat]
Fills == [at : {"mint", "draft"}, entry : Nat, hole : Holes, text : SUBSET Holes]

\* No operation reads more of an entry whose settlement is noted.
Dismissed(engine, phase) ==
    [engine EXCEPT !.phase = phase, !.inlined = {}, !.parked = {}, !.answered = {},
                   !.script = {}, !.drafted = FALSE, !.bound = 0, !.late = FALSE]

Ids == 1..Len(engines)
IsLive(e) == engines[e].phase = "live"
\* The registry holds an entry of r whose terminal is not set.
InFlight(r) == registry[r] # 0 /\ engines[registry[r]].phase # "noted"

Init ==
    /\ minted = 0 /\ calls = 0 /\ restarts = 0
    /\ rows = [r \in Runs |-> NoRow]
    /\ engines = <<>>
    /\ registry = [r \in Runs |-> 0]
    /\ terminalOrder = <<>>
    /\ amending = [r \in Runs |-> NotAmending]
    /\ resuming = [r \in Runs |-> <<>>]
    /\ filling = [r \in Runs |-> {}]
    /\ drafts = [r \in Runs |-> NoDraft]
    /\ closed = "open" /\ closing = {}
    /\ raced = {}

-----------------------------------------------------------------------------
(* Launching: the entry is registered, the engine constructed and its row   *)
(* written in one synchronous step.                                         *)

NewEngine(r, script, bound) ==
    [run |-> r, phase |-> "live", inlined |-> script, parked |-> {}, answered |-> {},
     script |-> script, drafted |-> drafts[r].written, bound |-> bound,
     late |-> closed # "open"]

Register(r, engine) ==
    /\ engines' = Append(engines, engine)
    /\ registry' = [registry EXCEPT ![r] = Len(engines) + 1]

\* A run without a row: the engine creates it.
LaunchNew(r, from) ==
    /\ rows' = [rows EXCEPT ![r] = [status |-> "running", by |-> 0, from |-> from,
                                    filled |-> {}, bound |-> InitialBound]]
    /\ Register(r, NewEngine(r, {}, InitialBound))

\* A run with a row: the engine compares the scripts and takes the row over;
\* if they differ it throws and the entry stands for a launch that failed.
LaunchAgain(r, record) ==
    LET engine == NewEngine(r, record.filled, record.bound)
    IN  IF rows[r].filled = record.filled
        THEN /\ rows' = [rows EXCEPT ![r].status = "running", ![r].by = 0]
             /\ Register(r, engine)
        ELSE /\ Register(r, [engine EXCEPT !.phase = "settled"])
             /\ UNCHANGED rows

(* Settling: the engine writes its row and lets go of whoever waits at a    *)
(* hole; the first settlement wins.                                         *)
SettleAll(E, status, by) ==
    LET done == {e \in E : IsLive(e)}
        ended == {engines[e].run : e \in done}
    IN  /\ engines' = [e \in Ids |->
              IF e \in done THEN [engines[e] EXCEPT !.phase = "settled", !.parked = {}]
              ELSE engines[e]]
        /\ rows' = [r \in Runs |->
              IF r \in ended THEN [rows[r] EXCEPT !.status = status, !.by = by] ELSE rows[r]]

Spend == calls < MaxLaunches /\ calls' = calls + 1
IsOpen == closed = "open"

-----------------------------------------------------------------------------
(* The port's calls *)

\* Mutant: submit does not ask whether the service is open.
Submit_NoGate ==
    /\ minted < MaxRuns
    /\ Spend
    /\ minted' = minted + 1
    /\ LaunchNew(minted + 1, 0)
    /\ UNCHANGED <<terminalOrder, closed, closing, callVars, drafts, restarts, raced>>

Submit ==
    /\ IsOpen
    /\ minted < MaxRuns
    /\ Spend
    /\ minted' = minted + 1
    /\ LaunchNew(minted + 1, 0)
    /\ UNCHANGED <<terminalOrder, closed, closing, callVars, drafts, restarts, raced>>

\* A predecessor in flight is stopped in favour of the run to be.
AmendCall(p) ==
    /\ IsOpen
    /\ rows[p].status # "none"
    /\ minted < MaxRuns
    /\ Spend
    /\ minted' = minted + 1
    /\ IF InFlight(p)
       THEN /\ SettleAll({registry[p]}, "superseded", minted + 1)
            /\ amending' = [amending EXCEPT ![minted + 1] =
                    [at |-> "settlement", pred |-> p, entry |-> registry[p]]]
       ELSE /\ amending' = [amending EXCEPT ![minted + 1] =
                    [at |-> "quiet", pred |-> p, entry |-> 0]]
            /\ UNCHANGED <<rows, engines>>
    /\ UNCHANGED <<serviceVars, resuming, filling, drafts, restarts, raced>>

\* The predecessor's settlement resolves.
AmendAwaits(r) ==
    /\ amending[r].at = "settlement"
    /\ engines[amending[r].entry].phase = "noted"
    /\ amending' = [amending EXCEPT ![r].at = "quiet"]
    /\ UNCHANGED <<rows, engines, drafts, serviceVars, resuming, filling, bookVars>>

\* Its sessions are quiet; the import begins, or throws over a row that is not terminal.
AmendImports(r) ==
    /\ amending[r].at = "quiet"
    /\ amending' = [amending EXCEPT ![r] =
            IF rows[amending[r].pred].status \in Terminal
            THEN [@ EXCEPT !.at = "import"] ELSE NotAmending]
    /\ UNCHANGED <<rows, engines, drafts, serviceVars, resuming, filling, bookVars>>

\* The cache is built: the successor starts like a submitted run.
AmendLaunches(r) ==
    /\ amending[r].at = "import"
    /\ LaunchNew(r, amending[r].pred)
    /\ amending' = [amending EXCEPT ![r] = NotAmending]
    /\ UNCHANGED <<drafts, terminalOrder, closed, closing, resuming, filling, bookVars>>

\* Mutant: a superseded run counts as stopped.
Resumable_Superseded(r) == ~InFlight(r) /\ rows[r].status \in {"stopped", "superseded"}

Resumable(r) == ~InFlight(r) /\ rows[r].status = "stopped"

\* A run that is no amendment needs no cache and is launched in the same step.
ResumeOriginal(r) ==
    /\ IsOpen
    /\ Resumable(r)
    /\ rows[r].from = 0
    /\ Spend
    /\ LaunchAgain(r, rows[r])
    /\ UNCHANGED <<drafts, terminalOrder, closed, closing, callVars, minted, restarts, raced>>

\* An amended run's cache is rebuilt first; its row is read before that.
ResumeCall(r) ==
    /\ IsOpen
    /\ Resumable(r)
    /\ rows[r].from # 0
    /\ Spend
    /\ resuming' = [resuming EXCEPT ![r] = Append(@, rows[r])]
    /\ raced' = IF resuming[r] = <<>> THEN raced ELSE raced \cup {r}
    /\ UNCHANGED <<rows, engines, drafts, serviceVars, amending, filling, minted, restarts>>

ResumeLaunches(r) ==
    \E k \in 1..Len(resuming[r]) :
        /\ LaunchAgain(r, resuming[r][k])
        /\ resuming' = [resuming EXCEPT ![r] = SubSeq(@, 1, k - 1) \o SubSeq(@, k + 1, Len(@))]
        /\ UNCHANGED <<drafts, terminalOrder, closed, closing, amending, filling, bookVars>>

Cancel(r) ==
    /\ InFlight(r)
    /\ SettleAll({registry[r]}, "stopped", 0)
    /\ UNCHANGED <<drafts, serviceVars, callVars, bookVars>>

\* Mutant: the bound is changed in memory only.
Retune_MemoryOnly(r, b) ==
    /\ InFlight(r)
    /\ IsLive(registry[r])
    /\ engines[registry[r]].bound # b
    /\ engines' = [engines EXCEPT ![registry[r]].bound = b]
    /\ UNCHANGED <<rows, drafts, serviceVars, callVars, bookVars>>

\* Engine first: it changes its bound and the row, then the entry's copy follows.
Retune(r, b) ==
    /\ InFlight(r)
    /\ IsLive(registry[r])
    /\ engines[registry[r]].bound # b
    /\ engines' = [engines EXCEPT ![registry[r]].bound = b]
    /\ rows' = [rows EXCEPT ![r].bound = b]
    /\ UNCHANGED <<drafts, serviceVars, callVars, bookVars>>

-----------------------------------------------------------------------------
(* Holes *)

\* A branch of the script arrives at a hole: answered if it was filled in
\* this life, parked otherwise. A body that was there at launch runs inline.
ReachHole(e, h) ==
    /\ IsLive(e) /\ engines[e].run \in Holed
    /\ h \notin engines[e].inlined \cup engines[e].answered \cup engines[e].parked
    /\ engines' = [engines EXCEPT ![e].parked = @ \cup {h}]
    /\ UNCHANGED <<rows, drafts, serviceVars, callVars, bookVars>>

Waiting(e, h) == IsLive(e) /\ h \in engines[e].parked \cup engines[e].answered

\* The engine takes the body: row, memory and parked branches in one step.
Accept(r, e, h, text) ==
    /\ engines' = [engines EXCEPT ![e].parked = @ \ {h}, ![e].answered = @ \cup {h},
                                  ![e].script = text, ![e].drafted = TRUE]
    /\ rows' = [rows EXCEPT ![r].filled = text]

\* A fill's turn: it reads the script, then mints a draft or fills at once.
FillTurns(r, h) ==
    LET e == registry[r]
        fill(at) == [at |-> at, entry |-> e, hole |-> h, text |-> engines[e].script \cup {h}]
    IN  /\ InFlight(r) /\ r \in Holed
        /\ h \notin engines[e].script
        /\ IF engines[e].drafted
           THEN /\ Waiting(e, h)
                /\ Accept(r, e, h, fill("draft").text)
                /\ filling' = [filling EXCEPT ![r] = @ \cup {fill("draft")}]
           ELSE /\ filling' = [filling EXCEPT ![r] = @ \cup {fill("mint")}]
                /\ UNCHANGED <<rows, engines>>
        /\ UNCHANGED <<drafts, serviceVars, amending, resuming, bookVars>>

\* Mutant: the fills of a run do not queue.
FillTurn_Unqueued(r, h) == FillTurns(r, h)

\* The fills of a run queue.
FillTurn(r, h) == filling[r] = {} /\ FillTurns(r, h)

\* Mutant: the draft stays when the engine refuses.
FillMinted_DraftStays(r) ==
    \E f \in filling[r] :
        /\ f.at = "mint"
        /\ filling' = [filling EXCEPT ![r] = @ \ {f}]
        /\ IF Waiting(f.entry, f.hole)
           THEN Accept(r, f.entry, f.hole, f.text)
           ELSE UNCHANGED <<rows, engines>>
        /\ drafts' = [drafts EXCEPT ![r] = [written |-> TRUE, text |-> f.text]]
        /\ UNCHANGED <<serviceVars, amending, resuming, bookVars>>

\* The draft is minted; the engine accepts, or refuses and the draft is removed.
FillMinted(r) ==
    \E f \in filling[r] :
        /\ f.at = "mint"
        /\ filling' = [filling EXCEPT ![r] = @ \ {f}]
        /\ IF Waiting(f.entry, f.hole)
           THEN /\ Accept(r, f.entry, f.hole, f.text)
                /\ drafts' = [drafts EXCEPT ![r] = [written |-> TRUE, text |-> f.text]]
           ELSE UNCHANGED <<rows, engines, drafts>>
        /\ UNCHANGED <<serviceVars, amending, resuming, bookVars>>

\* The draft of a run that had one is written anew after the fill.
FillDrafted(r) ==
    \E f \in filling[r] :
        /\ f.at = "draft"
        /\ drafts' = [drafts EXCEPT ![r].text = f.text]
        /\ filling' = [filling EXCEPT ![r] = @ \ {f}]
        /\ UNCHANGED <<rows, engines, serviceVars, amending, resuming, bookVars>>

-----------------------------------------------------------------------------
(* The engines, close() and the process *)

\* The script ends, or the engine stops for a provider or a dead sandbox.
EngineEnds(e, status) ==
    /\ IsLive(e)
    /\ SettleAll({e}, status, 0)
    /\ UNCHANGED <<drafts, serviceVars, callVars, bookVars>>

\* Mutant: the run of the oldest settled entry loses whatever entry it has.
SettlementNoted_EvictsBlindly(e) ==
    /\ engines[e].phase = "settled"
    /\ engines' = [engines EXCEPT ![e] = Dismissed(@, "noted")]
    /\ LET order == Append(terminalOrder, engines[e].run)
       IN  IF Len(order) > TerminalLimit
           THEN /\ terminalOrder' = Tail(order)
                /\ registry' = [registry EXCEPT ![Head(order)] = 0]
           ELSE terminalOrder' = order /\ UNCHANGED registry
    /\ UNCHANGED <<rows, drafts, closed, closing, callVars, bookVars>>

\* The entry learns its settlement; the oldest settled entry is evicted, unless
\* its run is in flight again.
SettlementNoted(e) ==
    /\ engines[e].phase = "settled"
    /\ engines' = [engines EXCEPT ![e] = Dismissed(@, "noted")]
    /\ LET order == Append(terminalOrder, engines[e].run)
           oldest == Head(order)
       IN  IF Len(order) > TerminalLimit
           THEN /\ terminalOrder' = Tail(order)
                /\ registry' = IF registry[oldest] # 0 /\ engines'[registry[oldest]].phase = "noted"
                               THEN [registry EXCEPT ![oldest] = 0] ELSE registry
           ELSE terminalOrder' = order /\ UNCHANGED registry
    /\ UNCHANGED <<rows, drafts, closed, closing, callVars, bookVars>>

\* Mutant: close() awaits an entry for every run, evicted or never launched.
Close_AwaitsEvicted ==
    /\ IsOpen
    /\ closed' = "closing"
    /\ closing' = {registry[r] : r \in Runs}
    /\ SettleAll(closing' \ {0}, "stopped", 0)
    /\ UNCHANGED <<drafts, registry, terminalOrder, callVars, bookVars>>

\* Mutant: close() waits for the runs in flight and does not interrupt them.
Close_NoAbort ==
    /\ IsOpen
    /\ closed' = "closing"
    /\ closing' = {registry[r] : r \in {x \in Runs : InFlight(x)}}
    /\ UNCHANGED <<rows, engines, drafts, registry, terminalOrder, callVars, bookVars>>

\* close(): the service is closed at once, whoever is in flight is interrupted.
Close ==
    LET owned == {registry[r] : r \in {x \in Runs : InFlight(x)}}
    IN  /\ IsOpen
        /\ closed' = "closing"
        /\ closing' = owned
        /\ SettleAll(owned, "stopped", 0)
        /\ UNCHANGED <<drafts, registry, terminalOrder, callVars, bookVars>>

CloseEnds ==
    /\ closed = "closing"
    /\ \A e \in closing : engines[e].phase = "noted"
    /\ closed' = "closed"
    /\ UNCHANGED <<rows, engines, drafts, registry, terminalOrder, closing, callVars, bookVars>>

\* The process dies and the session is opened again: rows left running are orphans.
Restart ==
    /\ restarts < MaxRestarts
    /\ restarts' = restarts + 1
    /\ rows' = [r \in Runs |-> IF rows[r].status = "running"
                               THEN [rows[r] EXCEPT !.status = "stopped", !.by = 0]
                               ELSE rows[r]]
    /\ engines' = [e \in Ids |-> Dismissed(engines[e], "gone")]
    /\ registry' = [r \in Runs |-> 0]
    /\ terminalOrder' = <<>>
    /\ amending' = [r \in Runs |-> NotAmending]
    /\ resuming' = [r \in Runs |-> <<>>]
    /\ filling' = [r \in Runs |-> {}]
    /\ closed' = "open" /\ closing' = {}
    /\ UNCHANGED <<drafts, minted, calls, raced>>

Calls(r) ==
    \/ AmendCall(r) \/ ResumeOriginal(r) \/ ResumeCall(r) \/ Cancel(r)
    \/ \E b \in Bounds : Retune(r, b)
    \/ \E h \in Holes : FillTurn(r, h)

AmendContinues(r) == AmendAwaits(r) \/ AmendImports(r) \/ AmendLaunches(r)
FillContinues(r) == FillMinted(r) \/ FillDrafted(r)

Engaged(e) ==
    \/ \E h \in Holes : ReachHole(e, h)
    \/ \E status \in {"finished", "stopped"} : EngineEnds(e, status)
    \/ SettlementNoted(e)

Next ==
    \/ Submit \/ Close \/ CloseEnds \/ Restart
    \/ \E r \in Runs : Calls(r) \/ AmendContinues(r) \/ ResumeLaunches(r) \/ FillContinues(r)
    \/ \E e \in Ids : Engaged(e)

Spec == Init /\ [][Next]_vars

\* Promises that are resolved run their continuations, file and session reads
\* end, and the wait for quiet sessions is bounded by five seconds.
Fairness ==
    /\ WF_vars(CloseEnds)
    /\ \A r \in Runs : WF_vars(AmendContinues(r))
    /\ \A e \in 1..MaxLaunches : WF_vars(e \in Ids /\ SettlementNoted(e))
FairSpec == Spec /\ Fairness
-----------------------------------------------------------------------------
(* Properties *)

TypeOK ==
    /\ minted \in 0..MaxRuns
    /\ calls \in 0..MaxLaunches
    /\ restarts \in 0..MaxRestarts
    /\ rows \in [Runs -> RowStates]
    /\ engines \in Seq(Engines)
    /\ registry \in [Runs -> 0..Len(engines)]
    /\ terminalOrder \in Seq(Runs)
    /\ amending \in [Runs -> Amendments]
    /\ resuming \in [Runs -> Seq(RowStates)]
    /\ filling \in [Runs -> SUBSET Fills]
    /\ drafts \in [Runs -> Drafts]
    /\ closed \in {"open", "closing", "closed"}
    /\ closing \subseteq Ids
    /\ raced \subseteq Runs

\* The service can reach every engine it launched, so that cancel, retune, fill,
\* amend and close act on it: no second engine of a run, no entry evicted or
\* replaced under a live engine. Resumes of one run that overlapped are excepted.
EnginesAreRegistered ==
    \A e \in Ids : IsLive(e) /\ engines[e].run \notin raced => registry[engines[e].run] = e

\* The row of a run says "running" exactly while an engine of this process runs it,
\* and that engine has the script and the bound that a resume would read from the row.
\* None of its branches waits at a hole that has a body, which no fill would reach.
RowsFollowEngines ==
    \A r \in Runs \ raced :
        /\ rows[r].status = "running" => \E e \in Ids : IsLive(e) /\ engines[e].run = r
        /\ \A e \in Ids : IsLive(e) /\ engines[e].run = r =>
              /\ rows[r].status = "running"
              /\ rows[r].bound = engines[e].bound
              /\ rows[r].filled = engines[e].script
              /\ engines[e].script = engines[e].inlined \cup engines[e].answered
              /\ engines[e].parked \cap engines[e].script = {}

\* Once close() has resolved, only engines of amended runs are alive: those whose
\* amendment or resume had passed the gate before the service closed.
OnlyAmendmentsOutliveClose ==
    closed = "closed" =>
        \A e \in Ids : IsLive(e) /\ engines[e].run \notin raced =>
            engines[e].late /\ rows[engines[e].run].from # 0

\* A draft file holds the script of the row, but for the fill that is writing it
\* or died in doing so.
DraftFollowsScript ==
    \A r \in Runs \ raced :
        drafts[r].written /\ restarts = 0 /\ (\A f \in filling[r] : f.at # "draft") =>
            drafts[r].text = rows[r].filled

\* A body that was accepted is never lost from the run's script.
FillsAreKept ==
    [][\A r \in Runs \ raced' : rows[r].filled \subseteq rows'[r].filled]_vars

\* Completed, errored and superseded are final; a row is taken over from "stopped" only.
RowsTakeLegalTurns ==
    [][\A r \in Runs \ raced' : rows'[r].status # rows[r].status =>
          <<rows[r].status, rows'[r].status>> \in
              {<<"none", "running">>, <<"stopped", "running">>}
                  \cup ({"running"} \X Terminal)]_vars

\* Whoever amends a run gets an answer, and close() resolves: what they wait for settles.
CallsReturn ==
    /\ \A r \in Runs : amending[r].at # "idle" ~> amending[r].at = "idle"
    /\ closed = "closing" ~> closed # "closing"

\* What the documents promise: an engine belongs to the open service that launched it.
EnginesAreOwned ==
    \A e \in Ids : IsLive(e) => registry[engines[e].run] = e /\ closed # "closed"
=============================================================================
