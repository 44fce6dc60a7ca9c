-------------------------- MODULE RunServiceProofs --------------------------
(***************************************************************************)
(* The run service for any number of runs, launches and deaths, any set of *)
(* holes and any size of the registry: who is live is registered, rows and *)
(* engines agree, rows take legal turns, no body of a hole is lost, and    *)
(* what outlives close() is an amendment.                                  *)
(***************************************************************************)
EXTENDS RunService, TLAPS, SequenceTheorems

EngineOf(e, r) == IsLive(e) /\ engines[e].run = r

-----------------------------------------------------------------------------
(* The invariant. *)

\* A run that is not launched yet left nothing behind, so its launch replaces nothing.
Fresh ==
    \A r \in Runs :
        /\ amending[r].at # "idle" => r <= minted /\ amending[r].pred # 0
        /\ r > minted \/ amending[r].at # "idle" =>
              /\ rows[r] = NoRow /\ drafts[r] = NoDraft
              /\ resuming[r] = <<>> /\ filling[r] = {}
              /\ \A e \in Ids : engines[e].run # r

\* An entry is registered under the id of its run.
RegistryIsRight == \A r \in Runs : registry[r] # 0 => engines[registry[r]].run = r

\* A resume that awaits the rebuilt cache is alone, and its run is left as it was.
ResumesWait ==
    \A r \in Runs \ raced : resuming[r] # <<>> =>
        /\ resuming[r] = <<rows[r]>>
        /\ rows[r].status = "stopped" /\ rows[r].from # 0
        /\ \A e \in Ids : ~EngineOf(e, r)

\* A fill is alone, the script it read is still the engine's, and the draft it writes is
\* the script of the row.
FillsOf(r) ==
    \A f \in filling[r] :
        /\ \A g \in filling[r] : g = f
        /\ f.entry \in Ids /\ engines[f.entry].run = r
        /\ f.at = "mint" /\ IsLive(f.entry) => f.text = engines[f.entry].script \cup {f.hole}
        /\ f.at = "draft" /\ r \notin raced => f.text = rows[r].filled
FillsWait == \A r \in Runs : FillsOf(r)

\* From close() on, not only when it resolves.
ClosingLeavesAmendments ==
    closed # "open" =>
        \A e \in Ids : IsLive(e) /\ engines[e].run \notin raced =>
            engines[e].late /\ rows[engines[e].run].from # 0

IInv ==
    /\ TypeOK
    /\ Fresh
    /\ RegistryIsRight
    /\ EnginesAreRegistered
    /\ RowsFollowEngines
    /\ ResumesWait
    /\ FillsWait
    /\ DraftFollowsScript
    /\ ClosingLeavesAmendments

\* What a step does to the rows of the runs that no two resumes share.
LegalStep ==
    \A r \in Runs \ raced' :
        /\ rows[r].filled \subseteq rows'[r].filled
        /\ rows'[r].status # rows[r].status =>
              <<rows[r].status, rows'[r].status>> \in
                  {<<"none", "running">>, <<"stopped", "running">>}
                      \cup ({"running"} \X Terminal)

-----------------------------------------------------------------------------
(* Facts about sequences and records. *)

LEMMA AFunctionIsASeq ==
    ASSUME NEW S, NEW n \in Nat, NEW f \in [1..n -> S]
    PROVE  f \in Seq(S) /\ Len(f) = n
<1>1. f \in Seq(S)
  BY SeqDef
<1> QED BY <1>1, LenProperties

LEMMA Entries ==
    ASSUME engines \in Seq(Engines)
    PROVE  /\ Len(engines) \in Nat /\ Ids = 1..Len(engines)
           /\ engines \in [Ids -> Engines]
           /\ \A e \in Ids : engines[e] \in Engines /\ e # 0 /\ e \in Nat
<1>1. Len(engines) \in Nat /\ engines \in [1..Len(engines) -> Engines]
  BY LenProperties
<1> QED BY <1>1 DEF Ids

\* One engine replaced.
LEMMA Replaced ==
    ASSUME engines \in Seq(Engines), NEW e \in Ids, NEW x \in Engines,
           engines' = [engines EXCEPT ![e] = x]
    PROVE  /\ engines' \in Seq(Engines) /\ Len(engines') = Len(engines) /\ Ids' = Ids
           /\ engines'[e] = x
           /\ \A y \in Ids : y # e => engines'[y] = engines[y]
<1>1. e \in 1..Len(engines)
  BY DEF Ids
<1>2. /\ engines' \in Seq(Engines) /\ Len(engines') = Len(engines)
      /\ \A y \in 1..Len(engines) : engines'[y] = IF y = e THEN x ELSE engines[y]
  BY <1>1, ExceptSeq
<1> QED BY <1>1, <1>2 DEF Ids

\* One engine added.
LEMMA Added ==
    ASSUME engines \in Seq(Engines), NEW x \in Engines, engines' = Append(engines, x)
    PROVE  /\ engines' \in Seq(Engines) /\ Len(engines') = Len(engines) + 1
           /\ Ids' = Ids \cup {Len(engines) + 1} /\ Len(engines) + 1 \notin Ids
           /\ engines'[Len(engines) + 1] = x
           /\ \A y \in Ids : engines'[y] = engines[y]
<1>1. Len(engines) \in Nat
  BY LenProperties
<1>2. /\ engines' \in Seq(Engines) /\ Len(engines') = Len(engines) + 1
      /\ \A y \in 1..Len(engines) : engines'[y] = engines[y]
      /\ engines'[Len(engines) + 1] = x
  BY AppendProperties
<1> QED BY <1>1, <1>2 DEF Ids

LEMMA Dismissal ==
    ASSUME NEW x \in Engines, NEW phase \in Phases
    PROVE  /\ Dismissed(x, phase) \in Engines
           /\ Dismissed(x, phase).run = x.run /\ Dismissed(x, phase).phase = phase
BY DEF Dismissed, Engines

LEMMA Settlement ==
    ASSUME NEW x \in Engines
    PROVE  LET y == [x EXCEPT !.phase = "settled", !.parked = {}]
           IN  y \in Engines /\ y.run = x.run /\ y.phase = "settled"
BY DEF Engines, Phases

LEMMA Launched ==
    ASSUME NEW r \in Runs, NEW script \in SUBSET Holes, NEW bound \in Nat,
           drafts \in [Runs -> Drafts]
    PROVE  LET x == NewEngine(r, script, bound)
           IN  /\ x \in Engines /\ x.run = r /\ x.phase = "live" /\ x.parked = {}
               /\ x.answered = {} /\ x.inlined = script /\ x.script = script
               /\ x.bound = bound /\ (closed # "open" => x.late)
BY DEF NewEngine, Engines, Phases, Drafts

\* The engine after it took a body.
Filled(x, h, text) ==
    [x EXCEPT !.parked = @ \ {h}, !.answered = @ \cup {h}, !.script = text, !.drafted = TRUE]

LEMMA Filling ==
    ASSUME NEW x \in Engines, NEW h \in Holes, NEW text \in SUBSET Holes
    PROVE  LET y == Filled(x, h, text)
           IN  /\ y \in Engines /\ y.run = x.run /\ y.phase = x.phase
               /\ y.parked = x.parked \ {h} /\ y.answered = x.answered \cup {h}
               /\ y.inlined = x.inlined /\ y.script = text /\ y.bound = x.bound
               /\ y.late = x.late
BY DEF Filled, Engines

-----------------------------------------------------------------------------
(* Every step keeps the types. *)

LEMMA Numbers ==
    ASSUME TypeOK
    PROVE  /\ MaxRuns \in Nat /\ MaxLaunches \in Nat /\ MaxRestarts \in Nat
           /\ InitialBound \in Nat /\ TerminalLimit \in Nat /\ Bounds \subseteq Nat
           /\ minted \in Nat /\ Len(engines) \in Nat /\ Ids = 1..Len(engines)
           /\ \A r \in Runs : r \in Nat \ {0} /\ r \in 0..MaxRuns /\ registry[r] \in Nat
                              /\ (registry[r] # 0 => registry[r] \in Ids)
<1>1. Len(engines) \in Nat /\ Ids = 1..Len(engines)
  BY Entries DEF TypeOK
<1>2. MaxRuns \in Nat /\ MaxLaunches \in Nat /\ MaxRestarts \in Nat
      /\ InitialBound \in Nat /\ TerminalLimit \in Nat /\ Bounds \subseteq Nat /\ minted \in Nat
  BY ServiceAssumption DEF TypeOK
<1>3. ASSUME NEW r \in Runs
      PROVE  r \in Nat \ {0} /\ r \in 0..MaxRuns /\ registry[r] \in Nat
             /\ (registry[r] # 0 => registry[r] \in Ids)
  <2>1. r \in Nat \ {0} /\ r \in 0..MaxRuns
    BY <1>2 DEF Runs
  <2>2. registry[r] \in 0..Len(engines)
    BY DEF TypeOK
  <2> QED BY <1>1, <2>1, <2>2
<1> QED BY <1>1, <1>2, <1>3

\* The launch of a run by a new engine.
LEMMA RegisterType ==
    ASSUME TypeOK, NEW r \in Runs, NEW x \in Engines, Register(r, x)
    PROVE  /\ engines' \in Seq(Engines) /\ Len(engines') = Len(engines) + 1
           /\ registry' \in [Runs -> 0..Len(engines')]
           /\ Ids \subseteq Ids'
<1>1. engines' \in Seq(Engines) /\ Len(engines') = Len(engines) + 1 /\ Ids \subseteq Ids'
  BY Added DEF TypeOK, Register
<1>2. registry \in [Runs -> 0..Len(engines)] /\ Len(engines) \in Nat
  BY Numbers DEF TypeOK
<1>3. registry' = [registry EXCEPT ![r] = Len(engines) + 1]
  BY DEF Register
<1> QED BY <1>1, <1>2, <1>3

LEMMA LaunchNewType ==
    ASSUME TypeOK, NEW r \in Runs, NEW from \in 0..MaxRuns, LaunchNew(r, from)
    PROVE  /\ rows' \in [Runs -> RowStates]
           /\ engines' \in Seq(Engines) /\ registry' \in [Runs -> 0..Len(engines')]
           /\ Ids \subseteq Ids'
<1>1. NewEngine(r, {}, InitialBound) \in Engines
  BY Launched, ServiceAssumption DEF TypeOK
<1>2. [status |-> "running", by |-> 0, from |-> from, filled |-> {}, bound |-> InitialBound]
          \in RowStates
  BY ServiceAssumption DEF RowStates, Statuses
<1> QED BY <1>1, <1>2, RegisterType DEF LaunchNew, TypeOK

LEMMA LaunchAgainType ==
    ASSUME TypeOK, NEW r \in Runs, NEW record \in RowStates, LaunchAgain(r, record)
    PROVE  /\ rows' \in [Runs -> RowStates]
           /\ engines' \in Seq(Engines) /\ registry' \in [Runs -> 0..Len(engines')]
           /\ Ids \subseteq Ids'
<1> DEFINE x == NewEngine(r, record.filled, record.bound)
<1>1. x \in Engines
  BY Launched DEF TypeOK, RowStates
<1>2. [x EXCEPT !.phase = "settled"] \in Engines
  BY <1>1 DEF Engines, Phases
<1>3. Register(r, x) \/ Register(r, [x EXCEPT !.phase = "settled"])
  BY DEF LaunchAgain
<1>4. rows' \in [Runs -> RowStates]
  <2>1. rows' = rows \/ rows' = [rows EXCEPT ![r].status = "running", ![r].by = 0]
    BY DEF LaunchAgain
  <2>2. [rows[r] EXCEPT !.status = "running", !.by = 0] \in RowStates
    <3>1. rows[r] \in RowStates /\ 0 \in 0..MaxRuns /\ "running" \in Statuses
      BY ServiceAssumption DEF TypeOK, Statuses
    <3> QED BY <3>1 DEF RowStates
  <2> QED BY <2>1, <2>2 DEF TypeOK
<1> HIDE DEF x
<1> QED BY <1>1, <1>2, <1>3, <1>4, RegisterType

LEMMA SettleType ==
    ASSUME TypeOK, NEW E \in SUBSET Ids, NEW status \in Terminal, NEW by \in 0..MaxRuns,
           SettleAll(E, status, by)
    PROVE  /\ rows' \in [Runs -> RowStates]
           /\ engines' \in Seq(Engines) /\ Len(engines') = Len(engines) /\ Ids' = Ids
           /\ \A e \in Ids :
                 engines'[e] = IF e \in E /\ IsLive(e)
                               THEN [engines[e] EXCEPT !.phase = "settled", !.parked = {}]
                               ELSE engines[e]
           /\ \A r \in Runs :
                 rows'[r] = IF \E e \in E : EngineOf(e, r)
                            THEN [rows[r] EXCEPT !.status = status, !.by = by]
                            ELSE rows[r]
<1>1. engines' = [e \in Ids |-> IF e \in E /\ IsLive(e)
                                THEN [engines[e] EXCEPT !.phase = "settled", !.parked = {}]
                                ELSE engines[e]]
  BY DEF SettleAll
<1>2. Len(engines) \in Nat /\ Ids = 1..Len(engines) /\ \A e \in Ids : engines[e] \in Engines
  BY Entries DEF TypeOK
<1>3. \A e \in Ids : [engines[e] EXCEPT !.phase = "settled", !.parked = {}] \in Engines
  BY <1>2, Settlement
<1>4. engines' \in [1..Len(engines) -> Engines]
  BY <1>1, <1>2, <1>3
<1>5. engines' \in Seq(Engines) /\ Len(engines') = Len(engines)
  BY <1>2, <1>4, AFunctionIsASeq
<1>6. \A r \in Runs :
         (\E e \in E : EngineOf(e, r)) <=> r \in {engines[e].run : e \in {x \in E : IsLive(x)}}
  BY DEF EngineOf
<1>7. rows' = [r \in Runs |-> IF \E e \in E : EngineOf(e, r)
                              THEN [rows[r] EXCEPT !.status = status, !.by = by]
                              ELSE rows[r]]
  BY <1>6 DEF SettleAll
<1>8. \A r \in Runs : [rows[r] EXCEPT !.status = status, !.by = by] \in RowStates
  BY DEF TypeOK, RowStates, Statuses, Terminal
<1>9. rows' \in [Runs -> RowStates]
  BY <1>7, <1>8 DEF TypeOK
<1>10. Ids' = Ids
  BY <1>5 DEF Ids
<1> QED BY <1>1, <1>5, <1>7, <1>9, <1>10

LEMMA AcceptType ==
    ASSUME TypeOK, NEW r \in Runs, NEW e \in Ids, NEW h \in Holes, NEW text \in SUBSET Holes,
           Accept(r, e, h, text)
    PROVE  /\ rows' \in [Runs -> RowStates]
           /\ engines' \in Seq(Engines) /\ Len(engines') = Len(engines) /\ Ids' = Ids
           /\ engines'[e] = Filled(engines[e], h, text)
           /\ \A y \in Ids : y # e => engines'[y] = engines[y]
           /\ rows'[r] = [rows[r] EXCEPT !.filled = text]
           /\ \A q \in Runs : q # r => rows'[q] = rows[q]
<1>1. engines[e] \in Engines /\ engines \in [Ids -> Engines] /\ engines \in Seq(Engines)
  BY Entries DEF TypeOK
<1>2. engines' = [engines EXCEPT ![e] = Filled(engines[e], h, text)]
  BY <1>1 DEF Accept, Filled
<1>3. Filled(engines[e], h, text) \in Engines
  BY <1>1, Filling
<1>4. rows' = [rows EXCEPT ![r] = [rows[r] EXCEPT !.filled = text]]
  BY DEF Accept
<1>5. [rows[r] EXCEPT !.filled = text] \in RowStates
  BY DEF TypeOK, RowStates
<1>6. /\ rows' \in [Runs -> RowStates] /\ rows'[r] = [rows[r] EXCEPT !.filled = text]
      /\ \A q \in Runs : q # r => rows'[q] = rows[q]
  BY <1>4, <1>5 DEF TypeOK
<1> QED BY <1>1, <1>2, <1>3, <1>6, Replaced

\* What a fill's turn does.
LEMMA FillTurnEffect ==
    ASSUME TypeOK, NEW r \in Runs, NEW h \in Holes, FillTurn(r, h)
    PROVE  LET e == registry[r]
               text == engines[e].script \cup {h}
               fill(at) == [at |-> at, entry |-> e, hole |-> h, text |-> text]
           IN  /\ e \in Ids /\ engines[e] \in Engines /\ text \in SUBSET Holes
               /\ filling[r] = {} /\ h \notin engines[e].script
               /\ \/ /\ Waiting(e, h) /\ Accept(r, e, h, text)
                     /\ filling' = [filling EXCEPT ![r] = {fill("draft")}]
                     /\ fill("draft") \in Fills
                  \/ /\ filling' = [filling EXCEPT ![r] = {fill("mint")}]
                     /\ fill("mint") \in Fills
                     /\ UNCHANGED <<rows, engines>>
<1> DEFINE e == registry[r]
           text == engines[e].script \cup {h}
           fill(at) == [at |-> at, entry |-> e, hole |-> h, text |-> text]
<1>1. e \in Ids
  BY Numbers DEF FillTurn, FillTurns, InFlight
<1>2. engines[e] \in Engines /\ e \in Nat
  BY <1>1, Entries DEF TypeOK
<1>3. text \in SUBSET Holes
  BY <1>2 DEF Engines
<1>4. \A at \in {"mint", "draft"} : fill(at) \in Fills
  BY <1>2, <1>3 DEF Fills
<1>5. filling[r] = {} /\ h \notin engines[e].script
  BY DEF FillTurn, FillTurns
<1>6. \/ /\ Waiting(e, h) /\ Accept(r, e, h, text)
         /\ filling' = [filling EXCEPT ![r] = {fill("draft")}]
      \/ /\ filling' = [filling EXCEPT ![r] = {fill("mint")}]
         /\ UNCHANGED <<rows, engines>>
  BY <1>5 DEF FillTurn, FillTurns
<1> QED BY <1>1, <1>2, <1>3, <1>4, <1>5, <1>6

LEMMA CallTypes ==
    ASSUME IInv, NEW r \in Runs,
           \/ AmendCall(r) \/ ResumeOriginal(r) \/ ResumeCall(r) \/ Cancel(r)
           \/ \E b \in Bounds : Retune(r, b)
           \/ \E h \in Holes : FillTurn(r, h)
    PROVE  TypeOK'
<1>1. TypeOK /\ Len(engines) \in Nat /\ MaxRuns \in Nat /\ MaxLaunches \in Nat
  BY Numbers DEF IInv
<1>2. \A E \in SUBSET Runs : {registry[q] : q \in E} \ {0} \subseteq Ids
  BY <1>1, Numbers
<1>3. CASE AmendCall(r)
  <2>1. minted' \in 0..MaxRuns /\ calls' \in 0..MaxLaunches /\ minted' = minted + 1
        /\ minted + 1 \in Runs
    BY <1>1, <1>3 DEF AmendCall, Spend, TypeOK, Runs
  <2>2. UNCHANGED <<serviceVars, resuming, filling, drafts, restarts, raced>>
    BY <1>3 DEF AmendCall
  <2>3. CASE InFlight(r)
    <3>1. SettleAll({registry[r]}, "superseded", minted + 1)
          /\ amending' = [amending EXCEPT ![minted + 1] =
                    [at |-> "settlement", pred |-> r, entry |-> registry[r]]]
      BY <1>3, <2>3 DEF AmendCall
    <3>2. registry[r] \in Ids /\ registry[r] \in Nat /\ r \in 0..MaxRuns
          /\ minted + 1 \in 0..MaxRuns
      BY <1>1, <2>1, <2>3, Numbers DEF InFlight
    <3>3. /\ rows' \in [Runs -> RowStates] /\ engines' \in Seq(Engines)
          /\ Len(engines') = Len(engines) /\ Ids' = Ids
      BY <1>1, <3>1, <3>2, SettleType DEF Terminal
    <3>4. [at |-> "settlement", pred |-> r, entry |-> registry[r]] \in Amendments
      BY <3>2 DEF Amendments
    <3>5. amending' \in [Runs -> Amendments]
      BY <1>1, <3>1, <3>4 DEF TypeOK
    <3> QED BY <1>1, <2>1, <2>2, <3>3, <3>5 DEF TypeOK, serviceVars
  <2>4. CASE ~InFlight(r)
    <3>1. /\ UNCHANGED <<rows, engines>>
          /\ amending' = [amending EXCEPT ![minted + 1] =
                    [at |-> "quiet", pred |-> r, entry |-> 0]]
      BY <1>3, <2>4 DEF AmendCall
    <3>2. [at |-> "quiet", pred |-> r, entry |-> 0] \in Amendments
      BY <1>1, Numbers DEF Amendments
    <3>3. amending' \in [Runs -> Amendments]
      BY <1>1, <3>1, <3>2 DEF TypeOK
    <3> QED BY <1>1, <2>1, <2>2, <3>1, <3>3 DEF TypeOK, serviceVars, Ids
  <2> QED BY <2>3, <2>4
<1>4. CASE ResumeOriginal(r)
  <2>1. /\ UNCHANGED <<drafts, terminalOrder, closed, closing, callVars, minted, restarts, raced>>
        /\ calls' \in 0..MaxLaunches /\ LaunchAgain(r, rows[r]) /\ rows[r] \in RowStates
    BY <1>1, <1>4 DEF ResumeOriginal, Spend, TypeOK
  <2>2. /\ rows' \in [Runs -> RowStates] /\ engines' \in Seq(Engines)
        /\ registry' \in [Runs -> 0..Len(engines')] /\ Ids \subseteq Ids'
    BY <1>1, <2>1, LaunchAgainType
  <2> QED BY <1>1, <2>1, <2>2 DEF TypeOK, callVars
<1>5. CASE ResumeCall(r)
  <2>1. /\ UNCHANGED <<rows, engines, drafts, serviceVars, amending, filling, minted, restarts>>
        /\ calls' \in 0..MaxLaunches /\ resuming' = [resuming EXCEPT ![r] = Append(@, rows[r])]
        /\ raced' \subseteq Runs
    BY <1>1, <1>5 DEF ResumeCall, Spend, TypeOK
  <2>2. Append(resuming[r], rows[r]) \in Seq(RowStates)
    BY <1>1, AppendProperties DEF TypeOK
  <2>3. resuming' \in [Runs -> Seq(RowStates)]
    BY <1>1, <2>1, <2>2 DEF TypeOK
  <2> QED BY <1>1, <2>1, <2>3 DEF TypeOK, serviceVars, Ids
<1>6. CASE Cancel(r)
  <2>1. SettleAll({registry[r]}, "stopped", 0) /\ registry[r] \in Ids /\ 0 \in 0..MaxRuns
        /\ UNCHANGED <<drafts, serviceVars, callVars, bookVars>>
    BY <1>1, <1>6, Numbers DEF Cancel, InFlight
  <2>2. /\ rows' \in [Runs -> RowStates] /\ engines' \in Seq(Engines)
        /\ Len(engines') = Len(engines) /\ Ids' = Ids
    BY <1>1, <2>1, SettleType DEF Terminal
  <2> QED BY <1>1, <2>1, <2>2 DEF TypeOK, serviceVars, callVars, bookVars
<1>7. ASSUME NEW b \in Bounds, Retune(r, b)
      PROVE  TypeOK'
  <2>1. registry[r] \in Ids /\ b \in Nat /\ engines \in Seq(Engines)
        /\ engines \in [Ids -> Engines]
    <3>1. registry[r] \in Ids /\ b \in Nat
      BY <1>1, <1>7, Numbers DEF Retune, InFlight
    <3>2. engines \in Seq(Engines)
      BY <1>1 DEF TypeOK
    <3> QED BY <3>1, <3>2, Entries
  <2>2. /\ engines' = [engines EXCEPT ![registry[r]] = [engines[registry[r]] EXCEPT !.bound = b]]
        /\ rows' = [rows EXCEPT ![r] = [rows[r] EXCEPT !.bound = b]]
        /\ UNCHANGED <<drafts, serviceVars, callVars, bookVars>>
    BY <1>7 DEF Retune
  <2>3. [engines[registry[r]] EXCEPT !.bound = b] \in Engines
    BY <2>1 DEF Engines
  <2>4. engines' \in Seq(Engines) /\ Len(engines') = Len(engines) /\ Ids' = Ids
    BY <2>1, <2>2, <2>3, Replaced
  <2>5. [rows[r] EXCEPT !.bound = b] \in RowStates
    <3>1. rows[r] \in RowStates
      BY <1>1 DEF TypeOK
    <3> QED BY <2>1, <3>1 DEF RowStates
  <2>6. rows' \in [Runs -> RowStates]
    BY <1>1, <2>2, <2>5 DEF TypeOK
  <2> QED BY <1>1, <2>2, <2>4, <2>6 DEF TypeOK, serviceVars, callVars, bookVars
<1>8. ASSUME NEW h \in Holes, FillTurn(r, h)
      PROVE  TypeOK'
  <2> DEFINE e == registry[r]
             text == engines[e].script \cup {h}
  <2>1. UNCHANGED <<drafts, serviceVars, amending, resuming, bookVars>>
    BY <1>8 DEF FillTurn, FillTurns
  <2>2. filling' \in [Runs -> SUBSET Fills]
    <3>1. PICK f \in Fills : filling' = [filling EXCEPT ![r] = {f}]
      BY <1>1, <1>8, FillTurnEffect
    <3> QED BY <1>1, <3>1 DEF TypeOK
  <2>3. e \in Ids /\ text \in SUBSET Holes
    BY <1>1, <1>8, FillTurnEffect
  <2>4. Accept(r, e, h, text) \/ UNCHANGED <<rows, engines>>
    BY <1>1, <1>8, FillTurnEffect
  <2> HIDE DEF e, text
  <2>5. /\ rows' \in [Runs -> RowStates] /\ engines' \in Seq(Engines)
        /\ Len(engines') = Len(engines) /\ Ids' = Ids
    <3>1. CASE Accept(r, e, h, text)
      BY <1>1, <2>3, <3>1, AcceptType
    <3>2. CASE UNCHANGED <<rows, engines>>
      BY <1>1, <3>2 DEF TypeOK, Ids
    <3> QED BY <2>4, <3>1, <3>2
  <2> QED BY <1>1, <2>1, <2>2, <2>5 DEF TypeOK, serviceVars, bookVars
<1> QED BY <1>3, <1>4, <1>5, <1>6, <1>7, <1>8

\* A minted draft finds the engine of its fill waiting, or not.
LEMMA FillMintedEffect ==
    ASSUME IInv, NEW r \in Runs, FillMinted(r)
    PROVE  \E f \in Fills :
             /\ f.at = "mint" /\ filling[r] = {f} /\ filling' = [filling EXCEPT ![r] = {}]
             /\ f.entry \in Ids /\ engines[f.entry].run = r
             /\ f.text \in SUBSET Holes /\ f.hole \in Holes
             /\ IsLive(f.entry) => f.text = engines[f.entry].script \cup {f.hole}
             /\ \/ /\ Waiting(f.entry, f.hole) /\ Accept(r, f.entry, f.hole, f.text)
                   /\ drafts' = [drafts EXCEPT ![r] = [written |-> TRUE, text |-> f.text]]
                \/ UNCHANGED <<rows, engines, drafts>>
<1>1. PICK f \in filling[r] :
        /\ f.at = "mint" /\ filling' = [filling EXCEPT ![r] = @ \ {f}]
        /\ IF Waiting(f.entry, f.hole)
           THEN /\ Accept(r, f.entry, f.hole, f.text)
                /\ drafts' = [drafts EXCEPT ![r] = [written |-> TRUE, text |-> f.text]]
           ELSE UNCHANGED <<rows, engines, drafts>>
  BY DEF FillMinted
<1>2. /\ \A g \in filling[r] : g = f
      /\ f.entry \in Ids /\ engines[f.entry].run = r
      /\ IsLive(f.entry) => f.text = engines[f.entry].script \cup {f.hole}
  BY <1>1 DEF IInv, FillsWait, FillsOf
<1>3. f \in Fills
  BY <1>1 DEF IInv, TypeOK
<1>4. f.text \in SUBSET Holes /\ f.hole \in Holes
  BY <1>3 DEF Fills
<1>5. filling[r] = {f} /\ filling[r] \ {f} = {}
  BY <1>1, <1>2
<1> QED BY <1>1, <1>2, <1>3, <1>4, <1>5

\* The draft of a body that was accepted is written.
LEMMA FillDraftedEffect ==
    ASSUME IInv, NEW r \in Runs, FillDrafted(r)
    PROVE  \E f \in Fills :
             /\ f.at = "draft" /\ filling[r] = {f} /\ filling' = [filling EXCEPT ![r] = {}]
             /\ f.text \in SUBSET Holes /\ (r \notin raced => f.text = rows[r].filled)
             /\ drafts' = [drafts EXCEPT ![r] = [drafts[r] EXCEPT !.text = f.text]]
<1>1. PICK f \in filling[r] :
        /\ f.at = "draft" /\ filling' = [filling EXCEPT ![r] = @ \ {f}]
        /\ drafts' = [drafts EXCEPT ![r].text = f.text]
  BY DEF FillDrafted
<1>2. /\ \A g \in filling[r] : g = f
      /\ r \notin raced => f.text = rows[r].filled
  BY <1>1 DEF IInv, FillsWait, FillsOf
<1>3. f \in Fills
  BY <1>1 DEF IInv, TypeOK
<1>4. f.text \in SUBSET Holes
  BY <1>3 DEF Fills
<1>5. filling[r] = {f} /\ filling[r] \ {f} = {}
  BY <1>1, <1>2
<1> QED BY <1>1, <1>2, <1>3, <1>4, <1>5

\* A resume that awaited the cache takes itself out of the list.
LEMMA ResumeLaunchEffect ==
    ASSUME TypeOK, NEW r \in Runs, ResumeLaunches(r)
    PROVE  /\ resuming' \in [Runs -> Seq(RowStates)]
           /\ resuming[r] # <<>>
           /\ \A q \in Runs : q # r => resuming'[q] = resuming[q]
           /\ \E k \in 1..Len(resuming[r]) :
                 /\ resuming[r][k] \in RowStates /\ LaunchAgain(r, resuming[r][k])
                 /\ Len(resuming[r]) = 1 => k = 1 /\ resuming'[r] = <<>>
<1>1. PICK k \in 1..Len(resuming[r]) :
        /\ LaunchAgain(r, resuming[r][k])
        /\ resuming' = [resuming EXCEPT ![r] = SubSeq(@, 1, k - 1) \o SubSeq(@, k + 1, Len(@))]
  BY DEF ResumeLaunches
<1> DEFINE s == resuming[r]
           left == SubSeq(s, 1, k - 1)
           right == SubSeq(s, k + 1, Len(s))
<1>2. s \in Seq(RowStates) /\ Len(s) \in Nat /\ k \in Nat /\ Len(s) >= 1
  <2>1. s \in Seq(RowStates)
    BY DEF TypeOK
  <2>2. Len(s) \in Nat
    BY <2>1, LenProperties
  <2> QED BY <2>1, <2>2
<1> HIDE DEF s
<1>3. \A i \in 1..Len(s) : s[i] \in RowStates
  BY <1>2, ElementOfSeq
<1>4. k \in 1..Len(s)
  BY DEF s
<1>5. left \in Seq(RowStates) /\ (k = 1 => Len(left) = 0)
  <2>1. \A i \in 1..(k - 1) : s[i] \in RowStates
    BY <1>2, <1>3, <1>4
  <2> QED BY <1>2, <2>1, SubSeqProperties
<1>6. right \in Seq(RowStates) /\ (k = Len(s) => Len(right) = 0)
  <2>1. \A i \in (k + 1)..Len(s) : s[i] \in RowStates
    BY <1>2, <1>3, <1>4
  <2> QED BY <1>2, <2>1, SubSeqProperties
<1> HIDE DEF left, right
<1>7. left \o right \in Seq(RowStates) /\ Len(left \o right) = Len(left) + Len(right)
  BY <1>5, <1>6, ConcatProperties
<1>8. resuming' = [resuming EXCEPT ![r] = left \o right]
  BY <1>1 DEF left, right, s
<1>9. /\ resuming' \in [Runs -> Seq(RowStates)] /\ resuming'[r] = left \o right
      /\ \A q \in Runs : q # r => resuming'[q] = resuming[q]
  BY <1>7, <1>8 DEF TypeOK
<1>10. Len(s) = 1 => k = 1 /\ left \o right = <<>>
  <2>1. ASSUME Len(s) = 1 PROVE k = 1 /\ Len(left \o right) = 0
    BY <1>2, <1>4, <1>5, <1>6, <1>7, <2>1
  <2>2. Len(left \o right) = 0 => left \o right = <<>>
    BY <1>7, EmptySeq
  <2> QED BY <2>1, <2>2
<1>11. s # <<>>
  BY <1>2, EmptySeq
<1> QED BY <1>1, <1>3, <1>4, <1>9, <1>10, <1>11 DEF s

LEMMA ContinuationTypes ==
    ASSUME IInv, NEW r \in Runs, AmendContinues(r) \/ ResumeLaunches(r) \/ FillContinues(r)
    PROVE  TypeOK'
<1>1. TypeOK /\ Len(engines) \in Nat /\ amending[r] \in Amendments
  BY Numbers DEF IInv, TypeOK
<1>2. CASE AmendAwaits(r)
  <2>1. [amending[r] EXCEPT !.at = "quiet"] \in Amendments
    BY <1>1 DEF Amendments
  <2>2. /\ amending' = [amending EXCEPT ![r] = [amending[r] EXCEPT !.at = "quiet"]]
        /\ UNCHANGED <<rows, engines, drafts, serviceVars, resuming, filling, bookVars>>
    BY <1>2 DEF AmendAwaits
  <2>3. amending' \in [Runs -> Amendments]
    BY <1>1, <2>1, <2>2 DEF TypeOK
  <2> QED BY <1>1, <2>2, <2>3 DEF TypeOK, serviceVars, bookVars, Ids
<1>3. CASE AmendImports(r)
  <2>1. [amending[r] EXCEPT !.at = "import"] \in Amendments /\ NotAmending \in Amendments
    BY <1>1, ServiceAssumption DEF Amendments, NotAmending
  <2>2. UNCHANGED <<rows, engines, drafts, serviceVars, resuming, filling, bookVars>>
    BY <1>3 DEF AmendImports
  <2>3. \/ amending' = [amending EXCEPT ![r] = [amending[r] EXCEPT !.at = "import"]]
        \/ amending' = [amending EXCEPT ![r] = NotAmending]
    BY <1>3 DEF AmendImports
  <2>4. amending' \in [Runs -> Amendments]
    BY <1>1, <2>1, <2>3 DEF TypeOK
  <2> QED BY <1>1, <2>2, <2>4 DEF TypeOK, serviceVars, bookVars, Ids
<1>4. CASE AmendLaunches(r)
  <2>1. LaunchNew(r, amending[r].pred) /\ amending[r].pred \in 0..MaxRuns
    BY <1>1, <1>4 DEF AmendLaunches, Amendments
  <2>2. /\ rows' \in [Runs -> RowStates] /\ engines' \in Seq(Engines)
        /\ registry' \in [Runs -> 0..Len(engines')] /\ Ids \subseteq Ids'
    BY <1>1, <2>1, LaunchNewType
  <2>3. /\ amending' = [amending EXCEPT ![r] = NotAmending]
        /\ UNCHANGED <<drafts, terminalOrder, closed, closing, resuming, filling, bookVars>>
    BY <1>4 DEF AmendLaunches
  <2>4. NotAmending \in Amendments
    BY ServiceAssumption DEF Amendments, NotAmending
  <2>5. amending' \in [Runs -> Amendments]
    BY <1>1, <2>3, <2>4 DEF TypeOK
  <2> QED BY <1>1, <2>2, <2>3, <2>5 DEF TypeOK, bookVars
<1>5. CASE ResumeLaunches(r)
  <2>1. PICK k \in 1..Len(resuming[r]) :
          resuming[r][k] \in RowStates /\ LaunchAgain(r, resuming[r][k])
    BY <1>1, <1>5, ResumeLaunchEffect
  <2>2. /\ rows' \in [Runs -> RowStates] /\ engines' \in Seq(Engines)
        /\ registry' \in [Runs -> 0..Len(engines')] /\ Ids \subseteq Ids'
    BY <1>1, <2>1, LaunchAgainType
  <2>3. UNCHANGED <<drafts, terminalOrder, closed, closing, amending, filling, bookVars>>
    BY <1>5 DEF ResumeLaunches
  <2>4. resuming' \in [Runs -> Seq(RowStates)]
    BY <1>1, <1>5, ResumeLaunchEffect
  <2> QED BY <1>1, <2>2, <2>3, <2>4 DEF TypeOK, bookVars
<1>6. CASE FillMinted(r)
  <2>1. PICK f \in Fills :
          /\ filling' = [filling EXCEPT ![r] = {}]
          /\ f.entry \in Ids /\ f.text \in SUBSET Holes /\ f.hole \in Holes
          /\ \/ /\ Accept(r, f.entry, f.hole, f.text)
                /\ drafts' = [drafts EXCEPT ![r] = [written |-> TRUE, text |-> f.text]]
             \/ UNCHANGED <<rows, engines, drafts>>
    BY <1>6, FillMintedEffect
  <2>2. UNCHANGED <<serviceVars, amending, resuming, bookVars>>
    BY <1>6 DEF FillMinted
  <2>3. [written |-> TRUE, text |-> f.text] \in Drafts
    BY <2>1 DEF Drafts
  <2>4. drafts' \in [Runs -> Drafts] /\ filling' \in [Runs -> SUBSET Fills]
    BY <1>1, <2>1, <2>3 DEF TypeOK
  <2>5. /\ rows' \in [Runs -> RowStates] /\ engines' \in Seq(Engines)
        /\ Len(engines') = Len(engines) /\ Ids' = Ids
    <3>1. CASE Accept(r, f.entry, f.hole, f.text)
      BY <1>1, <2>1, <3>1, AcceptType
    <3>2. CASE UNCHANGED <<rows, engines>>
      BY <1>1, <3>2 DEF TypeOK, Ids
    <3> QED BY <2>1, <3>1, <3>2
  <2> QED BY <1>1, <2>2, <2>4, <2>5 DEF TypeOK, serviceVars, bookVars
<1>7. CASE FillDrafted(r)
  <2>1. PICK f \in Fills :
          /\ filling' = [filling EXCEPT ![r] = {}] /\ f.text \in SUBSET Holes
          /\ drafts' = [drafts EXCEPT ![r] = [drafts[r] EXCEPT !.text = f.text]]
    BY <1>7, FillDraftedEffect
  <2>2. UNCHANGED <<rows, engines, serviceVars, amending, resuming, bookVars>>
    BY <1>7 DEF FillDrafted
  <2>3. [drafts[r] EXCEPT !.text = f.text] \in Drafts
    BY <1>1, <2>1 DEF TypeOK, Drafts
  <2>4. drafts' \in [Runs -> Drafts] /\ filling' \in [Runs -> SUBSET Fills]
    BY <1>1, <2>1, <2>3 DEF TypeOK
  <2> QED BY <1>1, <2>2, <2>4 DEF TypeOK, serviceVars, bookVars, Ids
<1> QED BY <1>2, <1>3, <1>4, <1>5, <1>6, <1>7 DEF AmendContinues, FillContinues

LEMMA EngineTypes ==
    ASSUME IInv, NEW e \in Ids, Engaged(e)
    PROVE  TypeOK'
<1>1. TypeOK /\ Len(engines) \in Nat /\ engines[e] \in Engines
      /\ engines \in Seq(Engines) /\ engines \in [Ids -> Engines]
  BY Numbers, Entries DEF IInv, TypeOK
<1>2. ASSUME NEW h \in Holes, ReachHole(e, h)
      PROVE  TypeOK'
  <2>1. /\ engines' = [engines EXCEPT ![e] = [engines[e] EXCEPT !.parked = @ \cup {h}]]
        /\ UNCHANGED <<rows, drafts, serviceVars, callVars, bookVars>>
    BY <1>2 DEF ReachHole
  <2>2. [engines[e] EXCEPT !.parked = @ \cup {h}] \in Engines
    BY <1>1 DEF Engines
  <2>3. engines' \in Seq(Engines) /\ Len(engines') = Len(engines) /\ Ids' = Ids
    BY <1>1, <2>1, <2>2, Replaced
  <2> QED BY <1>1, <2>1, <2>3 DEF TypeOK, serviceVars, callVars, bookVars
<1>3. ASSUME NEW status \in {"finished", "stopped"}, EngineEnds(e, status)
      PROVE  TypeOK'
  <2>1. SettleAll({e}, status, 0) /\ 0 \in 0..MaxRuns /\ status \in Terminal
        /\ UNCHANGED <<drafts, serviceVars, callVars, bookVars>>
    BY <1>3, ServiceAssumption DEF EngineEnds, Terminal
  <2>2. /\ rows' \in [Runs -> RowStates] /\ engines' \in Seq(Engines)
        /\ Len(engines') = Len(engines) /\ Ids' = Ids
    BY <1>1, <2>1, SettleType
  <2> QED BY <1>1, <2>1, <2>2 DEF TypeOK, serviceVars, callVars, bookVars
<1>4. CASE SettlementNoted(e)
  <2> DEFINE order == Append(terminalOrder, engines[e].run)
             oldest == Head(order)
  <2>1. /\ engines' = [engines EXCEPT ![e] = Dismissed(engines[e], "noted")]
        /\ UNCHANGED <<rows, drafts, closed, closing, callVars, bookVars>>
    BY <1>4 DEF SettlementNoted
  <2>2. engines' \in Seq(Engines) /\ Len(engines') = Len(engines) /\ Ids' = Ids
    BY <1>1, <2>1, Dismissal, Replaced DEF Phases
  <2>3. order \in Seq(Runs) /\ order # <<>>
    <3>1. engines[e].run \in Runs
      BY <1>1 DEF Engines
    <3>2. terminalOrder \in Seq(Runs)
      BY <1>1 DEF TypeOK
    <3> QED BY <3>1, <3>2, AppendProperties
  <2>4. Tail(order) \in Seq(Runs) /\ oldest \in Runs
    BY <2>3, HeadTailProperties
  <2>5. \/ terminalOrder' = Tail(order)
           /\ (registry' = [registry EXCEPT ![oldest] = 0] \/ UNCHANGED registry)
        \/ terminalOrder' = order /\ UNCHANGED registry
    BY <1>4 DEF SettlementNoted
  <2> HIDE DEF order, oldest
  <2>6. terminalOrder' \in Seq(Runs)
    BY <2>3, <2>4, <2>5
  <2>7. registry' \in [Runs -> 0..Len(engines)]
    <3>1. registry \in [Runs -> 0..Len(engines)] /\ 0 \in 0..Len(engines)
      BY <1>1 DEF TypeOK
    <3>2. registry' = [registry EXCEPT ![oldest] = 0] \/ registry' = registry
      BY <2>5
    <3> QED BY <2>4, <3>1, <3>2
  <2> QED BY <1>1, <2>1, <2>2, <2>6, <2>7 DEF TypeOK, callVars, bookVars
<1> QED BY <1>2, <1>3, <1>4 DEF Engaged

\* Who is in flight has an entry.
LEMMA InFlightHasEntry ==
    ASSUME TypeOK, NEW r \in Runs, InFlight(r)
    PROVE  registry[r] \in Ids
BY Numbers DEF InFlight

LEMMA ServiceTypes ==
    ASSUME IInv, Submit \/ Close \/ CloseEnds \/ Restart
    PROVE  TypeOK'
<1>1. TypeOK /\ Len(engines) \in Nat /\ engines \in Seq(Engines) /\ minted \in Nat
      /\ Ids = 1..Len(engines) /\ MaxRuns \in Nat
  BY Numbers DEF IInv, TypeOK
<1>2. CASE Submit
  <2>1. /\ minted' \in 0..MaxRuns /\ calls' \in 0..MaxLaunches /\ minted + 1 \in Runs
        /\ LaunchNew(minted + 1, 0) /\ 0 \in 0..MaxRuns
        /\ UNCHANGED <<terminalOrder, closed, closing, callVars, drafts, restarts, raced>>
    BY <1>1, <1>2, ServiceAssumption DEF Submit, Spend, TypeOK, Runs
  <2>2. /\ rows' \in [Runs -> RowStates] /\ engines' \in Seq(Engines)
        /\ registry' \in [Runs -> 0..Len(engines')] /\ Ids \subseteq Ids'
    BY <1>1, <2>1, LaunchNewType
  <2> QED BY <1>1, <2>1, <2>2 DEF TypeOK, callVars
<1>3. CASE Close
  <2> DEFINE owned == {registry[r] : r \in {x \in Runs : InFlight(x)}}
  <2>1. owned \in SUBSET Ids
    BY <1>1, InFlightHasEntry
  <2>2. /\ SettleAll(owned, "stopped", 0) /\ closed' = "closing" /\ closing' = owned
        /\ UNCHANGED <<drafts, registry, terminalOrder, callVars, bookVars>>
    BY <1>3 DEF Close
  <2>3. 0 \in 0..MaxRuns /\ "stopped" \in Terminal
    BY <1>1 DEF Terminal
  <2> HIDE DEF owned
  <2>4. /\ rows' \in [Runs -> RowStates] /\ engines' \in Seq(Engines)
        /\ Len(engines') = Len(engines) /\ Ids' = Ids
    BY <1>1, <2>1, <2>2, <2>3, SettleType
  <2> QED BY <1>1, <2>1, <2>2, <2>4 DEF TypeOK, callVars, bookVars
<1>4. CASE CloseEnds
  BY <1>1, <1>4 DEF CloseEnds, TypeOK, callVars, bookVars, Ids
<1>5. CASE Restart
  <2>1. /\ restarts' \in 0..MaxRestarts
        /\ terminalOrder' = <<>> /\ closed' = "open" /\ closing' = {}
        /\ UNCHANGED <<drafts, minted, calls, raced>>
    <3>1. /\ restarts < MaxRestarts /\ restarts' = restarts + 1
          /\ terminalOrder' = <<>> /\ closed' = "open" /\ closing' = {}
          /\ UNCHANGED <<drafts, minted, calls, raced>>
      BY <1>5 DEF Restart
    <3>2. restarts \in 0..MaxRestarts /\ MaxRestarts \in Nat
      BY <1>1, ServiceAssumption DEF TypeOK
    <3> QED BY <3>1, <3>2
  <2>2. \A r \in Runs : [rows[r] EXCEPT !.status = "stopped", !.by = 0] \in RowStates
    <3> SUFFICES ASSUME NEW r \in Runs
                 PROVE  [rows[r] EXCEPT !.status = "stopped", !.by = 0] \in RowStates
      OBVIOUS
    <3>1. rows[r] \in RowStates /\ 0 \in 0..MaxRuns /\ "stopped" \in Statuses
      BY <1>1 DEF TypeOK, Statuses
    <3> QED BY <3>1 DEF RowStates
  <2>3. rows' \in [Runs -> RowStates]
    BY <1>1, <1>5, <2>2 DEF Restart, TypeOK
  <2>4. engines' = [e \in Ids |-> Dismissed(engines[e], "gone")]
    BY <1>5 DEF Restart
  <2>5. engines' \in [1..Len(engines) -> Engines]
    BY <1>1, <2>4, Entries, Dismissal DEF Phases
  <2>6. engines' \in Seq(Engines) /\ Len(engines') = Len(engines)
    BY <1>1, <2>5, AFunctionIsASeq
  <2>7. NotAmending \in Amendments
    BY <1>1 DEF Amendments, NotAmending
  <2>8. /\ registry' \in [Runs -> 0..Len(engines')]
        /\ amending' \in [Runs -> Amendments]
        /\ resuming' \in [Runs -> Seq(RowStates)]
        /\ filling' \in [Runs -> SUBSET Fills]
    <3>1. /\ registry' = [r \in Runs |-> 0] /\ amending' = [r \in Runs |-> NotAmending]
          /\ resuming' = [r \in Runs |-> <<>>] /\ filling' = [r \in Runs |-> {}]
      BY <1>5 DEF Restart
    <3>2. 0 \in 0..Len(engines')
      BY <1>1, <2>6
    <3>3. <<>> \in Seq(RowStates)
      BY EmptySeq
    <3> QED BY <2>7, <3>1, <3>2, <3>3
  <2>9. terminalOrder' \in Seq(Runs)
    BY <2>1, EmptySeq
  <2> QED BY <1>1, <2>1, <2>3, <2>6, <2>8, <2>9 DEF TypeOK
<1> QED BY <1>2, <1>3, <1>4, <1>5

-----------------------------------------------------------------------------
(* Every step keeps the rest of the invariant. A launch. *)

LEMMA LaunchStep ==
    ASSUME IInv, TypeOK', NEW r \in Runs, NEW x \in Engines, Register(r, x), x.run = r,
           UNCHANGED <<closed, drafts, filling, restarts, raced>>,
           \A q \in Runs : q # r => /\ rows'[q] = rows[q] /\ resuming'[q] = resuming[q]
                                    /\ amending'[q] = amending[q],
           minted <= minted', r <= minted', amending'[r].at = "idle",
           r \notin raced =>
               /\ \A e \in Ids : ~EngineOf(e, r)
               /\ x.phase = "live" /\ x.parked = {} /\ x.answered = {} /\ x.inlined = x.script
               /\ rows[r].status \in {"none", "stopped"} /\ rows'[r].status = "running"
               /\ rows'[r].filled = x.script /\ rows'[r].bound = x.bound
               /\ rows'[r].filled = rows[r].filled
               /\ resuming'[r] = <<>>
               /\ closed # "open" => x.late /\ rows'[r].from # 0
    PROVE  IInv' /\ LegalStep
<1> DEFINE n == Len(engines) + 1
<1>1. /\ TypeOK /\ Fresh /\ RegistryIsRight /\ EnginesAreRegistered /\ RowsFollowEngines
      /\ ResumesWait /\ FillsWait /\ DraftFollowsScript /\ ClosingLeavesAmendments
  BY DEF IInv
<1>2. /\ Ids' = Ids \cup {n} /\ n \notin Ids /\ engines'[n] = x
      /\ \A e \in Ids : engines'[e] = engines[e]
  BY <1>1, Added DEF TypeOK, Register
<1>3. registry'[r] = n /\ (\A q \in Runs : q # r => registry'[q] = registry[q]) /\ n # 0
  BY <1>1, Numbers DEF TypeOK, Register
<1>4. minted \in Nat /\ minted' \in Nat
      /\ \A q \in Runs : q \in Nat /\ (registry[q] # 0 => registry[q] \in Ids)
  <2>1. minted' \in 0..MaxRuns
    BY DEF TypeOK
  <2> QED BY <1>1, <2>1, Numbers
<1>5. \A e \in Ids : engines[e].run \in Runs
  BY <1>1, Entries DEF TypeOK, Engines
<1> HIDE DEF n
<1>6. Fresh'
  <2>1. ASSUME NEW q \in Runs, q > minted' \/ amending'[q].at # "idle"
        PROVE  q # r /\ (q > minted \/ amending[q].at # "idle")
    BY <1>4, <2>1
  <2>2. ASSUME NEW q \in Runs, q > minted' \/ amending'[q].at # "idle"
        PROVE  /\ rows'[q] = NoRow /\ drafts'[q] = NoDraft
               /\ resuming'[q] = <<>> /\ filling'[q] = {}
               /\ \A e \in Ids' : engines'[e].run # q
    BY <1>1, <1>2, <2>1, <2>2 DEF Fresh
  <2>3. ASSUME NEW q \in Runs, amending'[q].at # "idle"
        PROVE  q <= minted' /\ amending'[q].pred # 0
    <3>1. amending'[q] = amending[q]
      BY <2>3
    <3>2. q <= minted /\ amending[q].pred # 0
      BY <1>1, <2>3, <3>1 DEF Fresh
    <3> QED BY <1>4, <3>1, <3>2
  <2> QED BY <2>2, <2>3 DEF Fresh
<1>7. RegistryIsRight'
  BY <1>1, <1>2, <1>3, <1>4 DEF RegistryIsRight
<1>8. EnginesAreRegistered'
  <2>1. ASSUME NEW e \in Ids, IsLive(e), engines[e].run \notin raced
        PROVE  registry'[engines[e].run] = e
    <3>1. registry[engines[e].run] = e /\ engines[e].run # r
      BY <1>1, <2>1 DEF EnginesAreRegistered, EngineOf
    <3> QED BY <1>3, <1>5, <3>1
  <2> QED BY <1>2, <1>3, <2>1 DEF EnginesAreRegistered, IsLive
<1>9. RowsFollowEngines'
  <2>1. ASSUME NEW q \in Runs \ raced', q # r
        PROVE  /\ rows'[q].status = "running" => \E e \in Ids' : IsLive(e)' /\ engines'[e].run = q
               /\ \A e \in Ids' : IsLive(e)' /\ engines'[e].run = q =>
                     /\ rows'[q].status = "running"
                     /\ rows'[q].bound = engines'[e].bound
                     /\ rows'[q].filled = engines'[e].script
                     /\ engines'[e].script = engines'[e].inlined \cup engines'[e].answered
                     /\ engines'[e].parked \cap engines'[e].script = {}
    BY <1>1, <1>2, <2>1 DEF RowsFollowEngines, IsLive
  <2>2. ASSUME r \notin raced'
        PROVE  /\ \E e \in Ids' : IsLive(e)' /\ engines'[e].run = r
               /\ \A e \in Ids' : IsLive(e)' /\ engines'[e].run = r =>
                     /\ rows'[r].status = "running"
                     /\ rows'[r].bound = engines'[e].bound
                     /\ rows'[r].filled = engines'[e].script
                     /\ engines'[e].script = engines'[e].inlined \cup engines'[e].answered
                     /\ engines'[e].parked \cap engines'[e].script = {}
    <3>1. \A e \in Ids' : IsLive(e)' /\ engines'[e].run = r => e = n
      BY <1>2, <2>2 DEF IsLive, EngineOf
    <3>2. x.script = x.inlined \cup x.answered /\ x.parked \cap x.script = {}
      BY <2>2
    <3>3. n \in Ids' /\ engines'[n].phase = "live" /\ engines'[n].run = r
      BY <1>2, <2>2
    <3>4. rows'[r].status = "running" /\ rows'[r].bound = x.bound /\ rows'[r].filled = x.script
      BY <2>2
    <3> QED BY <1>2, <3>1, <3>2, <3>3, <3>4 DEF IsLive
  <2> QED BY <2>1, <2>2 DEF RowsFollowEngines
<1>10. ResumesWait'
  BY <1>1, <1>2 DEF ResumesWait, EngineOf, IsLive
<1>11. FillsWait'
  <2>1. ASSUME NEW q \in Runs, NEW f \in filling[q]
        PROVE  /\ \A g \in filling[q] : g = f
               /\ f.entry \in Ids' /\ engines'[f.entry].run = q
               /\ f.at = "mint" /\ IsLive(f.entry)' => f.text = engines'[f.entry].script \cup {f.hole}
    BY <1>1, <1>2 DEF FillsWait, FillsOf, IsLive
  <2>2. ASSUME NEW q \in Runs, NEW f \in filling[q], f.at = "draft", q \notin raced
        PROVE  f.text = rows'[q].filled
    <3>1. f.text = rows[q].filled
      BY <1>1, <2>2 DEF FillsWait, FillsOf
    <3> QED BY <2>2, <3>1
  <2> QED BY <2>1, <2>2 DEF FillsWait, FillsOf
<1>12. DraftFollowsScript'
  BY <1>1 DEF DraftFollowsScript
<1>13. ClosingLeavesAmendments'
  <2>1. ASSUME closed # "open", NEW e \in Ids, IsLive(e), engines[e].run \notin raced
        PROVE  engines[e].late /\ rows'[engines[e].run].from # 0
    <3>1. engines[e].late /\ rows[engines[e].run].from # 0 /\ engines[e].run # r
      BY <1>1, <2>1 DEF ClosingLeavesAmendments, EngineOf
    <3> QED BY <1>5, <3>1
  <2> QED BY <1>2, <2>1 DEF ClosingLeavesAmendments, IsLive
<1>14. LegalStep
  BY DEF LegalStep
<1> QED BY <1>6, <1>7, <1>8, <1>9, <1>10, <1>11, <1>12, <1>13, <1>14 DEF IInv

\* Every run is left as it was, or its engine and its row end together.
RunsEndTogether ==
    /\ Ids' = Ids
    /\ \A e \in Ids : /\ engines'[e].run = engines[e].run
                      /\ engines'[e].phase = "live" => engines'[e] = engines[e]
    /\ \A q \in Runs :
          /\ rows'[q].filled = rows[q].filled /\ rows'[q].from = rows[q].from
          /\ rows'[q].bound = rows[q].bound
          /\ rows[q] = NoRow /\ (\A e \in Ids : engines[e].run # q) => rows'[q] = NoRow
    /\ \A q \in Runs \ raced :
          \/ rows'[q] = rows[q] /\ \A e \in Ids : EngineOf(e, q) => engines'[e] = engines[e]
          \/ /\ rows[q].status = "running" /\ rows'[q].status \in Terminal
             /\ \A e \in Ids : ~EngineOf(e, q)'

\* A step that launches nothing and takes no body.
LEMMA QuietStep ==
    ASSUME IInv, TypeOK', UNCHANGED <<drafts, raced>>, RunsEndTogether,
           \A q \in Runs :
               /\ \/ registry'[q] = registry[q]
                  \/ registry'[q] = 0 /\ (q \in raced \/ \A e \in Ids : ~EngineOf(e, q)')
               /\ resuming'[q] = resuming[q] \/ resuming'[q] = <<>>
               /\ filling'[q] \subseteq filling[q]
               /\ amending'[q].at # "idle" => q <= minted' /\ amending'[q].pred # 0
               /\ q > minted' \/ amending'[q].at # "idle" => q > minted \/ amending[q].at # "idle",
           restarts' = 0 => restarts = 0 /\ filling' = filling,
           closed' # "open" =>
               closed # "open" \/ \A e \in Ids : engines'[e].phase # "live" \/ engines[e].run \in raced
    PROVE  IInv' /\ LegalStep
<1>0. /\ Ids' = Ids
      /\ \A e \in Ids : /\ engines'[e].run = engines[e].run
                        /\ engines'[e].phase = "live" => engines'[e] = engines[e]
      /\ \A q \in Runs :
            /\ rows'[q].filled = rows[q].filled /\ rows'[q].from = rows[q].from
            /\ rows'[q].bound = rows[q].bound
            /\ rows[q] = NoRow /\ (\A e \in Ids : engines[e].run # q) => rows'[q] = NoRow
      /\ \A q \in Runs \ raced :
            \/ rows'[q] = rows[q] /\ \A e \in Ids : EngineOf(e, q) => engines'[e] = engines[e]
            \/ /\ rows[q].status = "running" /\ rows'[q].status \in Terminal
               /\ \A e \in Ids : ~EngineOf(e, q)'
  BY DEF RunsEndTogether
<1> USE <1>0
<1>1. /\ TypeOK /\ Fresh /\ RegistryIsRight /\ EnginesAreRegistered /\ RowsFollowEngines
      /\ ResumesWait /\ FillsWait /\ DraftFollowsScript /\ ClosingLeavesAmendments
  BY DEF IInv
<1>2. \A q \in Runs : registry[q] # 0 => registry[q] \in Ids
  BY <1>1, Numbers
<1>3. \A e \in Ids : IsLive(e)' => IsLive(e) /\ engines'[e] = engines[e]
  BY DEF IsLive
<1>4. \A e \in Ids : engines[e].run \in Runs
  BY <1>1, Entries DEF TypeOK, Engines
<1>5. Fresh'
  <2>1. ASSUME NEW q \in Runs, q > minted' \/ amending'[q].at # "idle"
        PROVE  /\ rows'[q] = NoRow /\ drafts'[q] = NoDraft
               /\ resuming'[q] = <<>> /\ filling'[q] = {}
               /\ \A e \in Ids' : engines'[e].run # q
    <3>1. q > minted \/ amending[q].at # "idle"
      BY <2>1
    <3>2. /\ rows[q] = NoRow /\ drafts[q] = NoDraft /\ resuming[q] = <<>> /\ filling[q] = {}
          /\ \A e \in Ids : engines[e].run # q
      BY <1>1, <3>1 DEF Fresh
    <3>3. resuming'[q] = <<>> /\ filling'[q] = {} /\ rows'[q] = NoRow
      BY <3>2
    <3> QED BY <3>2, <3>3
  <2> QED BY <2>1 DEF Fresh
<1>6. RegistryIsRight'
  BY <1>1, <1>2 DEF RegistryIsRight
<1>7. EnginesAreRegistered'
  <2>1. ASSUME NEW e \in Ids, IsLive(e)', engines[e].run \notin raced
        PROVE  registry'[engines[e].run] = e
    <3>1. registry[engines[e].run] = e
      BY <1>1, <1>3, <2>1 DEF EnginesAreRegistered
    <3>2. EngineOf(e, engines[e].run)'
      BY <2>1 DEF EngineOf
    <3> QED BY <1>4, <2>1, <3>1, <3>2 DEF EngineOf
  <2> QED BY <1>3, <2>1 DEF EnginesAreRegistered
<1>8. RowsFollowEngines'
  <2> SUFFICES ASSUME NEW q \in Runs \ raced
               PROVE  /\ rows'[q].status = "running" =>
                            \E e \in Ids : IsLive(e)' /\ engines'[e].run = q
                      /\ \A e \in Ids : IsLive(e)' /\ engines'[e].run = q =>
                            /\ rows'[q].status = "running"
                            /\ rows'[q].bound = engines'[e].bound
                            /\ rows'[q].filled = engines'[e].script
                            /\ engines'[e].script = engines'[e].inlined \cup engines'[e].answered
                            /\ engines'[e].parked \cap engines'[e].script = {}
    BY DEF RowsFollowEngines
  <2>1. CASE rows'[q] = rows[q] /\ \A e \in Ids : EngineOf(e, q) => engines'[e] = engines[e]
    BY <1>1, <1>3, <2>1 DEF RowsFollowEngines, EngineOf, IsLive
  <2>2. CASE rows'[q].status \in Terminal /\ \A e \in Ids : ~EngineOf(e, q)'
    BY <2>2 DEF EngineOf, Terminal
  <2> QED BY <2>1, <2>2
<1>9. ResumesWait'
  <2>1. ASSUME NEW q \in Runs \ raced, resuming'[q] # <<>>
        PROVE  /\ resuming'[q] = <<rows'[q]>>
               /\ rows'[q].status = "stopped" /\ rows'[q].from # 0
               /\ \A e \in Ids : ~EngineOf(e, q)'
    <3>1. /\ resuming'[q] = resuming[q]
          /\ resuming[q] = <<rows[q]>> /\ rows[q].status = "stopped" /\ rows[q].from # 0
          /\ \A e \in Ids : ~EngineOf(e, q)
      BY <1>1, <2>1 DEF ResumesWait
    <3>2. rows'[q] = rows[q]
      BY <3>1
    <3> QED BY <1>3, <3>1, <3>2 DEF EngineOf
  <2> QED BY <2>1 DEF ResumesWait
<1>10. FillsWait'
  <2>1. ASSUME NEW q \in Runs, NEW f \in filling'[q]
        PROVE  /\ \A g \in filling'[q] : g = f
               /\ f.entry \in Ids /\ engines'[f.entry].run = q
               /\ f.at = "mint" /\ IsLive(f.entry)' => f.text = engines'[f.entry].script \cup {f.hole}
               /\ f.at = "draft" /\ q \notin raced => f.text = rows'[q].filled
    <3>1. /\ \A g \in filling'[q] : g = f
          /\ f.entry \in Ids /\ engines[f.entry].run = q
          /\ f.at = "mint" /\ IsLive(f.entry) => f.text = engines[f.entry].script \cup {f.hole}
          /\ f.at = "draft" /\ q \notin raced => f.text = rows[q].filled
      BY <1>1, <2>1 DEF FillsWait, FillsOf
    <3> QED BY <1>3, <3>1
  <2> QED BY <2>1 DEF FillsWait, FillsOf
<1>11. DraftFollowsScript'
  BY <1>1 DEF DraftFollowsScript
<1>12. ClosingLeavesAmendments'
  <2>1. ASSUME closed' # "open", NEW e \in Ids, IsLive(e)', engines'[e].run \notin raced
        PROVE  engines'[e].late /\ rows'[engines'[e].run].from # 0
    <3>1. closed # "open"
      BY <2>1 DEF IsLive
    <3>2. engines[e].late /\ rows[engines[e].run].from # 0
      BY <1>1, <1>3, <2>1, <3>1 DEF ClosingLeavesAmendments
    <3> QED BY <1>3, <1>4, <2>1, <3>2
  <2> QED BY <2>1 DEF ClosingLeavesAmendments
<1>13. LegalStep
  <2>1. ASSUME NEW q \in Runs \ raced, rows'[q].status # rows[q].status
        PROVE  <<rows[q].status, rows'[q].status>> \in {"running"} \X Terminal
    BY <2>1
  <2> QED BY <2>1 DEF LegalStep
<1> QED BY <1>5, <1>6, <1>7, <1>8, <1>9, <1>10, <1>11, <1>12, <1>13 DEF IInv

\* A settlement of registered engines.
LEMMA SettleEffect ==
    ASSUME IInv, NEW E \in SUBSET Ids, NEW status \in Terminal, NEW by \in 0..MaxRuns,
           SettleAll(E, status, by)
    PROVE  RunsEndTogether /\ \A e \in E : engines'[e].phase # "live"
<1>1. TypeOK /\ EnginesAreRegistered /\ RowsFollowEngines
  BY DEF IInv
<1>2. /\ Ids' = Ids
      /\ \A e \in Ids :
            engines'[e] = IF e \in E /\ IsLive(e)
                          THEN [engines[e] EXCEPT !.phase = "settled", !.parked = {}]
                          ELSE engines[e]
      /\ \A r \in Runs :
            rows'[r] = IF \E e \in E : EngineOf(e, r)
                       THEN [rows[r] EXCEPT !.status = status, !.by = by]
                       ELSE rows[r]
  BY <1>1, SettleType
<1>3. \A e \in Ids : engines[e] \in Engines /\ engines[e].run \in Runs
  BY <1>1, Entries DEF TypeOK, Engines
<1>4. ASSUME NEW e \in Ids
      PROVE  /\ engines'[e].run = engines[e].run
             /\ engines'[e].phase = "live" => engines'[e] = engines[e] /\ ~(e \in E /\ IsLive(e))
             /\ ~(e \in E /\ IsLive(e)) => engines'[e] = engines[e]
             /\ e \in E => engines'[e].phase # "live"
  BY <1>2, <1>3, Settlement DEF IsLive
<1>5. ASSUME NEW q \in Runs
      PROVE  /\ rows'[q].filled = rows[q].filled /\ rows'[q].from = rows[q].from
             /\ rows'[q].bound = rows[q].bound
             /\ (\E e \in E : EngineOf(e, q)) => rows'[q].status = status
             /\ ~(\E e \in E : EngineOf(e, q)) => rows'[q] = rows[q]
  <2>1. rows[q] \in RowStates
    BY <1>1 DEF TypeOK
  <2> QED BY <1>2, <2>1 DEF RowStates
<1>6. ASSUME NEW q \in Runs, \A e \in Ids : engines[e].run # q
      PROVE  rows'[q] = rows[q]
  BY <1>5, <1>6 DEF EngineOf
<1>7. ASSUME NEW q \in Runs \ raced
      PROVE  \/ rows'[q] = rows[q] /\ \A e \in Ids : EngineOf(e, q) => engines'[e] = engines[e]
             \/ /\ rows[q].status = "running" /\ rows'[q].status \in Terminal
                /\ \A e \in Ids : ~EngineOf(e, q)'
  <2>1. CASE \E e \in E : EngineOf(e, q)
    <3>1. PICK e \in E : EngineOf(e, q)
      BY <2>1
    <3>2. rows[q].status = "running" /\ registry[q] = e
      BY <1>1, <3>1 DEF RowsFollowEngines, EnginesAreRegistered, EngineOf
    <3>3. ASSUME NEW y \in Ids, EngineOf(y, q)'
          PROVE  FALSE
      <4>1. EngineOf(y, q) /\ y \notin E
        BY <1>4, <3>3 DEF EngineOf, IsLive
      <4>2. registry[q] = y
        BY <1>1, <4>1 DEF EnginesAreRegistered, EngineOf
      <4> QED BY <3>1, <3>2, <4>1, <4>2
    <3> QED BY <1>5, <2>1, <3>2, <3>3
  <2>2. CASE ~ \E e \in E : EngineOf(e, q)
    BY <1>4, <1>5, <2>2 DEF EngineOf
  <2> QED BY <2>1, <2>2
<1>8. \A q \in Runs :
         /\ rows'[q].filled = rows[q].filled /\ rows'[q].from = rows[q].from
         /\ rows'[q].bound = rows[q].bound
         /\ rows[q] = NoRow /\ (\A e \in Ids : engines[e].run # q) => rows'[q] = NoRow
  BY <1>5, <1>6
<1> QED BY <1>2, <1>4, <1>7, <1>8 DEF RunsEndTogether

\* Nothing ends when neither a row nor an engine changes.
LEMMA NothingEnds ==
    ASSUME UNCHANGED <<rows, engines>>
    PROVE  RunsEndTogether
BY DEF RunsEndTogether, Ids

\* What QuietStep asks of the calls that are waiting, when none of them moves.
LEMMA CallsAsTheyWere ==
    ASSUME IInv, UNCHANGED callVars, UNCHANGED <<minted, restarts>>
    PROVE  /\ \A q \in Runs :
                 /\ resuming'[q] = resuming[q] /\ filling'[q] \subseteq filling[q]
                 /\ amending'[q].at # "idle" => q <= minted' /\ amending'[q].pred # 0
                 /\ q > minted' \/ amending'[q].at # "idle" => q > minted \/ amending[q].at # "idle"
           /\ restarts' = 0 => restarts = 0 /\ filling' = filling
BY DEF IInv, Fresh, callVars

LEMMA CancelKeeps ==
    ASSUME IInv, TypeOK', NEW r \in Runs, Cancel(r)
    PROVE  IInv' /\ LegalStep
<1>1. registry[r] \in Ids /\ 0 \in 0..MaxRuns /\ "stopped" \in Terminal
  BY InFlightHasEntry, ServiceAssumption DEF IInv, Cancel, Terminal
<1>2. SettleAll({registry[r]}, "stopped", 0) /\ UNCHANGED <<drafts, serviceVars, callVars, bookVars>>
  BY DEF Cancel
<1>3. RunsEndTogether
  BY <1>1, <1>2, SettleEffect
<1>4. /\ UNCHANGED <<registry, closed>> /\ UNCHANGED <<drafts, raced>>
      /\ UNCHANGED callVars /\ UNCHANGED <<minted, restarts>>
  BY <1>2 DEF serviceVars, bookVars
<1> QED BY <1>3, <1>4, CallsAsTheyWere, QuietStep

LEMMA EngineEndsKeeps ==
    ASSUME IInv, TypeOK', NEW e \in Ids, NEW status \in {"finished", "stopped"},
           EngineEnds(e, status)
    PROVE  IInv' /\ LegalStep
<1>1. 0 \in 0..MaxRuns /\ status \in Terminal /\ {e} \in SUBSET Ids
  BY ServiceAssumption DEF Terminal
<1>2. SettleAll({e}, status, 0) /\ UNCHANGED <<drafts, serviceVars, callVars, bookVars>>
  BY DEF EngineEnds
<1>3. RunsEndTogether
  BY <1>1, <1>2, SettleEffect
<1>4. /\ UNCHANGED <<registry, closed>> /\ UNCHANGED <<drafts, raced>>
      /\ UNCHANGED callVars /\ UNCHANGED <<minted, restarts>>
  BY <1>2 DEF serviceVars, bookVars
<1> QED BY <1>3, <1>4, CallsAsTheyWere, QuietStep

LEMMA CloseKeeps ==
    ASSUME IInv, TypeOK', Close
    PROVE  IInv' /\ LegalStep
<1> DEFINE owned == {registry[r] : r \in {x \in Runs : InFlight(x)}}
<1>1. owned \in SUBSET Ids /\ 0 \in 0..MaxRuns /\ "stopped" \in Terminal
  BY InFlightHasEntry, ServiceAssumption DEF IInv, Terminal
<1>2. SettleAll(owned, "stopped", 0)
      /\ UNCHANGED <<drafts, registry, terminalOrder, callVars, bookVars>>
  BY DEF Close
<1>3. \A e \in Ids : IsLive(e) /\ engines[e].run \notin raced => e \in owned
  <2>1. ASSUME NEW e \in Ids, IsLive(e), engines[e].run \notin raced
        PROVE  e \in owned
    <3>1. registry[engines[e].run] = e /\ e # 0 /\ engines[e].run \in Runs
      BY <2>1, Entries DEF IInv, TypeOK, EnginesAreRegistered, Engines
    <3>2. InFlight(engines[e].run)
      BY <2>1, <3>1 DEF InFlight, IsLive
    <3> QED BY <3>1, <3>2
  <2> QED BY <2>1
<1> HIDE DEF owned
<1>4. RunsEndTogether /\ \A e \in owned : engines'[e].phase # "live"
  BY <1>1, <1>2, SettleEffect
<1>5. \A e \in Ids : engines'[e].phase # "live" \/ engines[e].run \in raced
  BY <1>3, <1>4 DEF RunsEndTogether, IsLive
<1>6. /\ UNCHANGED registry /\ UNCHANGED <<drafts, raced>>
      /\ UNCHANGED callVars /\ UNCHANGED <<minted, restarts>>
  BY <1>2 DEF bookVars
<1> QED BY <1>4, <1>5, <1>6, CallsAsTheyWere, QuietStep

LEMMA CloseEndsKeeps ==
    ASSUME IInv, TypeOK', CloseEnds
    PROVE  IInv' /\ LegalStep
<1>1. /\ UNCHANGED registry /\ UNCHANGED <<drafts, raced>> /\ UNCHANGED <<rows, engines>>
      /\ UNCHANGED callVars /\ UNCHANGED <<minted, restarts>> /\ closed # "open"
  BY DEF CloseEnds, bookVars
<1> QED BY <1>1, NothingEnds, CallsAsTheyWere, QuietStep

LEMMA AmendCallKeeps ==
    ASSUME IInv, TypeOK', NEW p \in Runs, AmendCall(p)
    PROVE  IInv' /\ LegalStep
<1>1. TypeOK /\ Fresh /\ minted \in Nat /\ MaxRuns \in Nat /\ p # 0
  BY Numbers DEF IInv
<1>2. minted' = minted + 1 /\ minted + 1 \in Runs /\ minted + 1 \in 0..MaxRuns
      /\ UNCHANGED <<serviceVars, resuming, filling, drafts, restarts, raced>>
  BY <1>1 DEF AmendCall, Runs
<1>3. RunsEndTogether
  <2>1. CASE InFlight(p)
    <3>1. registry[p] \in Ids /\ "superseded" \in Terminal
      BY <1>1, <2>1, InFlightHasEntry DEF Terminal
    <3>2. SettleAll({registry[p]}, "superseded", minted + 1)
      BY <2>1 DEF AmendCall
    <3> QED BY <1>2, <3>1, <3>2, SettleEffect
  <2>2. CASE ~InFlight(p)
    BY <2>2, NothingEnds DEF AmendCall
  <2> QED BY <2>1, <2>2
<1>4. /\ amending'[minted + 1].pred # 0
      /\ \A q \in Runs : q # minted + 1 => amending'[q] = amending[q]
  <2>1. \E a : amending' = [amending EXCEPT ![minted + 1] = a] /\ a.pred = p
    BY DEF AmendCall
  <2> QED BY <1>1, <1>2, <2>1 DEF TypeOK
<1>5. ASSUME NEW q \in Runs
      PROVE  /\ amending'[q].at # "idle" => q <= minted' /\ amending'[q].pred # 0
             /\ q > minted' \/ amending'[q].at # "idle" => q > minted \/ amending[q].at # "idle"
  <2>1. q \in Nat
    BY <1>1, Numbers
  <2>2. CASE q = minted + 1
    BY <1>1, <1>2, <1>4, <2>2
  <2>3. CASE q # minted + 1
    <3>1. amending'[q] = amending[q]
      BY <1>4, <2>3
    <3>2. amending[q].at # "idle" => q <= minted /\ amending[q].pred # 0
      BY <1>1 DEF Fresh
    <3> QED BY <1>1, <1>2, <2>1, <3>1, <3>2
  <2> QED BY <2>2, <2>3
<1>6. UNCHANGED <<registry, closed>> /\ UNCHANGED <<resuming, filling, restarts>>
      /\ UNCHANGED <<drafts, raced>>
  BY <1>2 DEF serviceVars
<1> QED BY <1>3, <1>5, <1>6, QuietStep

LEMMA AmendMovesKeep ==
    ASSUME IInv, TypeOK', NEW r \in Runs, AmendAwaits(r) \/ AmendImports(r)
    PROVE  IInv' /\ LegalStep
<1>1. TypeOK /\ Fresh /\ amending[r] \in Amendments
  BY DEF IInv, TypeOK
<1>2. /\ amending[r].at # "idle"
      /\ UNCHANGED <<rows, engines, drafts, serviceVars, resuming, filling, bookVars>>
      /\ \E a : /\ amending' = [amending EXCEPT ![r] = a]
                /\ a.at # "idle" => a.pred = amending[r].pred
  <2>1. CASE AmendAwaits(r)
    <3>1. amending' = [amending EXCEPT ![r] = [amending[r] EXCEPT !.at = "quiet"]]
          /\ amending[r].at = "settlement"
      BY <2>1 DEF AmendAwaits
    <3>2. [amending[r] EXCEPT !.at = "quiet"].pred = amending[r].pred
      BY <1>1 DEF Amendments
    <3> QED BY <2>1, <3>1, <3>2 DEF AmendAwaits
  <2>2. CASE AmendImports(r)
    <3>1. /\ \/ amending' = [amending EXCEPT ![r] = [amending[r] EXCEPT !.at = "import"]]
             \/ amending' = [amending EXCEPT ![r] = NotAmending]
          /\ amending[r].at = "quiet"
      BY <2>2 DEF AmendImports
    <3>2. [amending[r] EXCEPT !.at = "import"].pred = amending[r].pred
      BY <1>1 DEF Amendments
    <3>3. NotAmending.at = "idle"
      BY DEF NotAmending
    <3> QED BY <2>2, <3>1, <3>2, <3>3 DEF AmendImports
  <2> QED BY <2>1, <2>2
<1>3. /\ amending'[r].at # "idle" => amending'[r].pred = amending[r].pred
      /\ \A q \in Runs : q # r => amending'[q] = amending[q]
  BY <1>1, <1>2 DEF TypeOK
<1>4. UNCHANGED <<registry, closed>> /\ UNCHANGED <<resuming, filling, restarts, minted>>
      /\ UNCHANGED <<drafts, raced>> /\ UNCHANGED <<rows, engines>>
  BY <1>2 DEF serviceVars, bookVars
<1>5. ASSUME NEW q \in Runs
      PROVE  /\ amending'[q].at # "idle" => q <= minted' /\ amending'[q].pred # 0
             /\ q > minted' \/ amending'[q].at # "idle" => q > minted \/ amending[q].at # "idle"
  <2>1. amending'[q].at # "idle" => amending[q].at # "idle" /\ amending'[q].pred = amending[q].pred
    BY <1>2, <1>3
  <2>2. amending[q].at # "idle" => q <= minted /\ amending[q].pred # 0
    BY <1>1 DEF Fresh
  <2> QED BY <1>4, <2>1, <2>2
<1> QED BY <1>4, <1>5, NothingEnds, QuietStep

LEMMA SettlementNotedKeeps ==
    ASSUME IInv, TypeOK', NEW e \in Ids, SettlementNoted(e)
    PROVE  IInv' /\ LegalStep
<1>1. TypeOK /\ EnginesAreRegistered /\ engines[e] \in Engines /\ engines \in Seq(Engines)
      /\ \A y \in Ids : y # 0
  <2>1. TypeOK /\ EnginesAreRegistered
    BY DEF IInv
  <2>2. engines \in Seq(Engines)
    BY <2>1 DEF TypeOK
  <2> QED BY <2>1, <2>2, Entries
<1>2. /\ engines[e].phase = "settled"
      /\ engines' = [engines EXCEPT ![e] = Dismissed(engines[e], "noted")]
      /\ UNCHANGED <<rows, drafts, closed, closing, callVars, bookVars>>
  BY DEF SettlementNoted
<1>3. /\ Ids' = Ids
      /\ engines'[e].run = engines[e].run /\ engines'[e].phase = "noted"
      /\ \A y \in Ids : y # e => engines'[y] = engines[y]
  <2> DEFINE x == Dismissed(engines[e], "noted")
  <2>1. x \in Engines /\ x.run = engines[e].run /\ x.phase = "noted"
    BY <1>1, Dismissal DEF Phases
  <2>2. engines' = [engines EXCEPT ![e] = x]
    BY <1>2
  <2> HIDE DEF x
  <2> QED BY <1>1, <2>1, <2>2, Replaced
<1>4. RunsEndTogether
  <2>1. \A y \in Ids : /\ engines'[y].run = engines[y].run
                       /\ engines'[y].phase = "live" => engines'[y] = engines[y]
    BY <1>3
  <2>2. \A q \in Runs, y \in Ids : EngineOf(y, q) => engines'[y] = engines[y]
    BY <1>2, <1>3 DEF EngineOf, IsLive
  <2> QED BY <1>2, <1>3, <2>1, <2>2 DEF RunsEndTogether
<1>5. ASSUME NEW q \in Runs
      PROVE  \/ registry'[q] = registry[q]
             \/ registry'[q] = 0 /\ (q \in raced \/ \A y \in Ids : ~EngineOf(y, q)')
  <2>1. \/ registry' = registry
        \/ \E oldest : /\ registry' = [registry EXCEPT ![oldest] = 0]
                       /\ registry[oldest] # 0 /\ engines'[registry[oldest]].phase = "noted"
    BY DEF SettlementNoted
  <2>2. CASE registry' = registry
    BY <2>2
  <2>3. ASSUME NEW oldest, registry' = [registry EXCEPT ![oldest] = 0],
               registry[oldest] # 0, engines'[registry[oldest]].phase = "noted"
        PROVE  \/ registry'[q] = registry[q]
               \/ registry'[q] = 0 /\ (q \in raced \/ \A y \in Ids : ~EngineOf(y, q)')
    <3>1. CASE q # oldest
      BY <1>1, <2>3, <3>1 DEF TypeOK
    <3>2. CASE q = oldest
      <4>1. registry'[q] = 0
        BY <1>1, <2>3, <3>2 DEF TypeOK
      <4>2. ASSUME q \notin raced, NEW y \in Ids, EngineOf(y, q)'
            PROVE  FALSE
        <5>1. engines[y].phase = "live" /\ engines[y].run = q
          BY <1>3, <4>2 DEF EngineOf, IsLive
        <5>2. registry[q] = y
          BY <1>1, <4>2, <5>1 DEF EnginesAreRegistered, IsLive
        <5> QED BY <2>3, <3>2, <4>2, <5>2 DEF EngineOf, IsLive
      <4> QED BY <4>1, <4>2
    <3> QED BY <3>1, <3>2
  <2> QED BY <2>1, <2>2, <2>3
<1>6. UNCHANGED closed /\ UNCHANGED <<drafts, raced>>
      /\ UNCHANGED callVars /\ UNCHANGED <<minted, restarts>>
  BY <1>2 DEF bookVars
<1> QED BY <1>4, <1>5, <1>6, CallsAsTheyWere, QuietStep

LEMMA RestartKeeps ==
    ASSUME IInv, TypeOK', Restart
    PROVE  IInv' /\ LegalStep
<1>1. TypeOK /\ Fresh /\ Len(engines) \in Nat /\ Ids = 1..Len(engines)
      /\ \A e \in Ids : engines[e] \in Engines
  BY Numbers, Entries DEF IInv, TypeOK
<1>2. /\ restarts' = restarts + 1 /\ closed' = "open"
      /\ rows' = [r \in Runs |-> IF rows[r].status = "running"
                                 THEN [rows[r] EXCEPT !.status = "stopped", !.by = 0]
                                 ELSE rows[r]]
      /\ engines' = [e \in Ids |-> Dismissed(engines[e], "gone")]
      /\ registry' = [r \in Runs |-> 0]
      /\ amending' = [r \in Runs |-> NotAmending]
      /\ resuming' = [r \in Runs |-> <<>>]
      /\ filling' = [r \in Runs |-> {}]
      /\ UNCHANGED <<drafts, minted, calls, raced>>
  BY DEF Restart
<1>3. ASSUME NEW e \in Ids
      PROVE  engines'[e].run = engines[e].run /\ engines'[e].phase = "gone"
  BY <1>1, <1>2, Dismissal DEF Phases
<1>4. Ids' = Ids
  <2>1. engines' \in [1..Len(engines) -> Engines]
    BY <1>1, <1>2, Dismissal DEF Phases
  <2> QED BY <1>1, <2>1, AFunctionIsASeq DEF Ids
<1>5. \A e \in Ids, q \in Runs : ~EngineOf(e, q)'
  BY <1>3 DEF EngineOf, IsLive
<1>6. ASSUME NEW q \in Runs
      PROVE  /\ rows'[q].filled = rows[q].filled /\ rows'[q].from = rows[q].from
             /\ rows'[q].bound = rows[q].bound
             /\ rows[q].status = "running" => rows'[q].status = "stopped"
             /\ rows[q].status # "running" => rows'[q] = rows[q]
  <2>1. rows[q] \in RowStates
    BY <1>1 DEF TypeOK
  <2> QED BY <1>2, <2>1 DEF RowStates
<1>7. ASSUME NEW q \in Runs \ raced
      PROVE  \/ rows'[q] = rows[q] /\ \A e \in Ids : EngineOf(e, q) => engines'[e] = engines[e]
             \/ /\ rows[q].status = "running" /\ rows'[q].status \in Terminal
                /\ \A e \in Ids : ~EngineOf(e, q)'
  <2>1. CASE rows[q].status = "running"
    BY <1>5, <1>6, <2>1 DEF Terminal
  <2>2. CASE rows[q].status # "running"
    <3>1. \A e \in Ids : ~EngineOf(e, q)
      BY <2>2 DEF IInv, RowsFollowEngines, EngineOf
    <3> QED BY <1>6, <2>2, <3>1
  <2> QED BY <2>1, <2>2
<1>8. RunsEndTogether
  <2>1. \A q \in Runs : rows[q] = NoRow => rows'[q] = NoRow
    BY <1>6 DEF NoRow
  <2> QED BY <1>3, <1>4, <1>6, <1>7, <2>1 DEF RunsEndTogether
<1>9. restarts' # 0
  <2>1. restarts \in 0..MaxRestarts /\ MaxRestarts \in Nat
    BY <1>1, ServiceAssumption DEF TypeOK
  <2>2. restarts' = restarts + 1
    BY <1>2
  <2> QED BY <2>1, <2>2
<1>10. ASSUME NEW q \in Runs
       PROVE  /\ registry'[q] = 0 /\ resuming'[q] = <<>> /\ filling'[q] = {}
              /\ amending'[q].at = "idle"
              /\ q > minted' => q > minted
  BY <1>2 DEF NotAmending
<1> QED BY <1>2, <1>5, <1>8, <1>9, <1>10, QuietStep

\* What a launch does, of a run without a row and of a run with one.
LEMMA LaunchNewEffect ==
    ASSUME TypeOK, NEW r \in Runs, NEW from \in 0..MaxRuns, LaunchNew(r, from)
    PROVE  \E x \in Engines :
             /\ Register(r, x) /\ x.run = r
             /\ x.phase = "live" /\ x.parked = {} /\ x.answered = {} /\ x.inlined = x.script
             /\ (closed # "open" => x.late)
             /\ rows'[r].status = "running" /\ rows'[r].from = from
             /\ rows'[r].filled = {} /\ x.script = {} /\ rows'[r].bound = x.bound
             /\ \A q \in Runs : q # r => rows'[q] = rows[q]
<1> DEFINE x == NewEngine(r, {}, InitialBound)
<1>1. /\ x \in Engines /\ x.run = r /\ x.phase = "live" /\ x.parked = {} /\ x.answered = {}
      /\ x.inlined = {} /\ x.script = {} /\ x.bound = InitialBound /\ (closed # "open" => x.late)
  <2>1. drafts \in [Runs -> Drafts] /\ InitialBound \in Nat /\ {} \in SUBSET Holes
    BY ServiceAssumption DEF TypeOK
  <2>2. x \in Engines
    BY <2>1, Launched
  <2> QED BY <2>2 DEF NewEngine
<1>2. Register(r, x)
      /\ rows' = [rows EXCEPT ![r] = [status |-> "running", by |-> 0, from |-> from,
                                      filled |-> {}, bound |-> InitialBound]]
  BY DEF LaunchNew
<1>3. rows \in [Runs -> RowStates]
  BY DEF TypeOK
<1> HIDE DEF x
<1>4. rows'[r] = [status |-> "running", by |-> 0, from |-> from,
                  filled |-> {}, bound |-> InitialBound]
      /\ \A q \in Runs : q # r => rows'[q] = rows[q]
  BY <1>2, <1>3
<1>5. rows'[r].status = "running" /\ rows'[r].from = from
      /\ rows'[r].filled = {} /\ rows'[r].bound = x.bound
  BY <1>1, <1>4
<1> QED BY <1>1, <1>2, <1>4, <1>5

LEMMA LaunchAgainEffect ==
    ASSUME TypeOK, NEW r \in Runs, NEW record \in RowStates, LaunchAgain(r, record)
    PROVE  \E x \in Engines :
             /\ Register(r, x) /\ x.run = r
             /\ \A q \in Runs : q # r => rows'[q] = rows[q]
             /\ rows[r].filled = record.filled =>
                   /\ x.phase = "live" /\ x.parked = {} /\ x.answered = {}
                   /\ x.inlined = x.script /\ (closed # "open" => x.late)
                   /\ rows'[r].status = "running" /\ rows'[r].from = rows[r].from
                   /\ rows'[r].filled = rows[r].filled /\ x.script = record.filled
                   /\ rows'[r].bound = rows[r].bound /\ x.bound = record.bound
<1> DEFINE x == NewEngine(r, record.filled, record.bound)
           y == [x EXCEPT !.phase = "settled"]
<1>1. /\ x \in Engines /\ x.run = r /\ x.phase = "live" /\ x.parked = {} /\ x.answered = {}
      /\ x.inlined = record.filled /\ x.script = record.filled /\ x.bound = record.bound
      /\ (closed # "open" => x.late)
  <2>1. drafts \in [Runs -> Drafts] /\ record.filled \in SUBSET Holes /\ record.bound \in Nat
    BY DEF TypeOK, RowStates
  <2>2. x \in Engines
    BY <2>1, Launched
  <2> QED BY <2>2 DEF NewEngine
<1> HIDE DEF x
<1>2. y \in Engines /\ y.run = r
  BY <1>1 DEF Engines, Phases
<1>3. rows[r] \in RowStates /\ rows \in [Runs -> RowStates]
  BY DEF TypeOK
<1>4. CASE rows[r].filled = record.filled
  <2>1. Register(r, x) /\ rows' = [rows EXCEPT ![r] = [rows[r] EXCEPT !.status = "running", !.by = 0]]
    BY <1>3, <1>4 DEF LaunchAgain, x
  <2>2. rows'[r] = [rows[r] EXCEPT !.status = "running", !.by = 0]
        /\ \A q \in Runs : q # r => rows'[q] = rows[q]
    BY <1>3, <2>1
  <2>3. rows'[r].status = "running" /\ rows'[r].from = rows[r].from
        /\ rows'[r].filled = rows[r].filled /\ rows'[r].bound = rows[r].bound
    BY <1>3, <2>2 DEF RowStates
  <2> QED BY <1>1, <2>1, <2>2, <2>3
<1>5. CASE rows[r].filled # record.filled
  <2>1. Register(r, y) /\ rows' = rows
    BY <1>5 DEF LaunchAgain, x
  <2> HIDE DEF y
  <2> QED BY <1>2, <1>5, <2>1
<1> QED BY <1>4, <1>5

LEMMA SubmitKeeps ==
    ASSUME IInv, TypeOK', Submit
    PROVE  IInv' /\ LegalStep
<1>1. TypeOK /\ Fresh /\ minted \in Nat /\ MaxRuns \in Nat
  BY Numbers DEF IInv
<1> DEFINE r == minted + 1
<1>2. /\ r \in Runs /\ r \in Nat /\ r > minted /\ minted' = r /\ 0 \in 0..MaxRuns
      /\ LaunchNew(r, 0) /\ closed = "open"
      /\ UNCHANGED <<terminalOrder, closed, closing, callVars, drafts, restarts, raced>>
  BY <1>1 DEF Submit, Runs, IsOpen
<1> HIDE DEF r
<1>3. PICK x \in Engines :
        /\ Register(r, x) /\ x.run = r
        /\ x.phase = "live" /\ x.parked = {} /\ x.answered = {} /\ x.inlined = x.script
        /\ rows'[r].status = "running" /\ rows'[r].filled = {} /\ x.script = {}
        /\ rows'[r].bound = x.bound
        /\ \A q \in Runs : q # r => rows'[q] = rows[q]
  BY <1>1, <1>2, LaunchNewEffect
<1>4. /\ rows[r].status = "none" /\ rows[r].filled = {} /\ resuming[r] = <<>>
      /\ amending[r].at = "idle" /\ \A e \in Ids : ~EngineOf(e, r)
  <2>1. r \in Nat /\ ~(r <= minted)
    BY <1>1, <1>2, Numbers
  <2> QED BY <1>1, <1>2, <2>1 DEF Fresh, NoRow, EngineOf
<1>5. UNCHANGED callVars => amending' = amending /\ resuming' = resuming /\ filling' = filling
  BY DEF callVars
<1>6. minted <= minted' /\ r <= minted'
  BY <1>1, <1>2
<1>7. UNCHANGED <<closed, drafts, filling, restarts, raced>>
      /\ resuming' = resuming /\ amending' = amending
  BY <1>2, <1>5
<1> QED BY <1>2, <1>3, <1>4, <1>6, <1>7, LaunchStep

LEMMA AmendLaunchesKeeps ==
    ASSUME IInv, TypeOK', NEW r \in Runs, AmendLaunches(r)
    PROVE  IInv' /\ LegalStep
<1>1. TypeOK /\ Fresh /\ minted \in Nat /\ amending[r] \in Amendments
  BY Numbers DEF IInv, TypeOK
<1>2. /\ amending[r].at = "import" /\ LaunchNew(r, amending[r].pred)
      /\ amending' = [amending EXCEPT ![r] = NotAmending]
      /\ UNCHANGED <<drafts, terminalOrder, closed, closing, resuming, filling, bookVars>>
  BY DEF AmendLaunches
<1>3. amending[r].pred \in 0..MaxRuns
  BY <1>1 DEF Amendments
<1>4. /\ rows[r].status = "none" /\ rows[r].filled = {} /\ resuming[r] = <<>>
      /\ r <= minted /\ amending[r].pred # 0 /\ \A e \in Ids : ~EngineOf(e, r)
  BY <1>1, <1>2 DEF Fresh, NoRow, EngineOf
<1>5. PICK x \in Engines :
        /\ Register(r, x) /\ x.run = r
        /\ x.phase = "live" /\ x.parked = {} /\ x.answered = {} /\ x.inlined = x.script
        /\ (closed # "open" => x.late)
        /\ rows'[r].status = "running" /\ rows'[r].from = amending[r].pred
        /\ rows'[r].filled = {} /\ x.script = {} /\ rows'[r].bound = x.bound
        /\ \A q \in Runs : q # r => rows'[q] = rows[q]
  BY <1>1, <1>2, <1>3, LaunchNewEffect
<1>6. amending'[r].at = "idle" /\ \A q \in Runs : q # r => amending'[q] = amending[q]
  BY <1>1, <1>2 DEF TypeOK, NotAmending
<1>7. UNCHANGED <<closed, drafts, filling, restarts, raced>>
      /\ resuming' = resuming /\ minted' = minted
  BY <1>2 DEF bookVars
<1>8. minted <= minted' /\ r <= minted'
  BY <1>1, <1>4, <1>7
<1>9. closed # "open" => x.late /\ rows'[r].from # 0
  BY <1>4, <1>5
<1> QED BY <1>4, <1>5, <1>6, <1>7, <1>8, <1>9, LaunchStep

\* A run that has a row, or a resume that waits, was minted and is not being amended into.
LEMMA NotFresh ==
    ASSUME IInv, NEW r \in Runs, rows[r].status # "none" \/ resuming[r] # <<>>
    PROVE  minted \in Nat /\ r <= minted /\ amending[r].at = "idle"
<1>1. rows[r] # NoRow \/ resuming[r] # <<>>
  BY DEF NoRow
<1>2. r \in Nat /\ minted \in Nat
  BY Numbers DEF IInv
<1>3. ~(r > minted) /\ amending[r].at = "idle"
  BY <1>1 DEF IInv, Fresh
<1> QED BY <1>2, <1>3

LEMMA ResumeOriginalKeeps ==
    ASSUME IInv, TypeOK', NEW r \in Runs, ResumeOriginal(r)
    PROVE  IInv' /\ LegalStep
<1>1. TypeOK /\ EnginesAreRegistered /\ ResumesWait /\ rows[r] \in RowStates
  BY DEF IInv, TypeOK
<1>2. /\ closed = "open" /\ ~InFlight(r) /\ rows[r].status = "stopped" /\ rows[r].from = 0
      /\ LaunchAgain(r, rows[r])
      /\ UNCHANGED <<drafts, terminalOrder, closed, closing, callVars, minted, restarts, raced>>
  BY DEF ResumeOriginal, Resumable, IsOpen
<1>3. PICK x \in Engines :
        /\ Register(r, x) /\ x.run = r
        /\ x.phase = "live" /\ x.parked = {} /\ x.answered = {} /\ x.inlined = x.script
        /\ rows'[r].status = "running" /\ rows'[r].filled = rows[r].filled
        /\ x.script = rows[r].filled /\ rows'[r].bound = rows[r].bound /\ x.bound = rows[r].bound
        /\ \A q \in Runs : q # r => rows'[q] = rows[q]
  BY <1>1, <1>2, LaunchAgainEffect
<1>4. minted \in Nat /\ r <= minted /\ amending[r].at = "idle"
  BY <1>2, NotFresh
<1>5. r \notin raced => \A e \in Ids : ~EngineOf(e, r)
  <2>1. ASSUME r \notin raced, NEW e \in Ids, EngineOf(e, r)
        PROVE  FALSE
    <3>1. registry[r] = e /\ e # 0 /\ engines[e].phase = "live"
      BY <1>1, <2>1, Entries DEF TypeOK, EnginesAreRegistered, EngineOf, IsLive
    <3> QED BY <1>2, <3>1 DEF InFlight
  <2> QED BY <2>1
<1>6. r \notin raced => resuming[r] = <<>>
  BY <1>1, <1>2 DEF ResumesWait
<1>7. UNCHANGED <<closed, drafts, filling, restarts, raced>>
      /\ resuming' = resuming /\ amending' = amending /\ minted' = minted
  BY <1>2 DEF callVars
<1>8. minted <= minted' /\ r <= minted'
  BY <1>4, <1>7
<1> QED BY <1>2, <1>3, <1>4, <1>5, <1>6, <1>7, <1>8, LaunchStep

LEMMA ResumeLaunchesKeeps ==
    ASSUME IInv, TypeOK', NEW r \in Runs, ResumeLaunches(r)
    PROVE  IInv' /\ LegalStep
<1>1. TypeOK /\ ResumesWait
  BY DEF IInv
<1>2. /\ resuming[r] # <<>>
      /\ \A q \in Runs : q # r => resuming'[q] = resuming[q]
      /\ \E k \in 1..Len(resuming[r]) :
            /\ resuming[r][k] \in RowStates /\ LaunchAgain(r, resuming[r][k])
            /\ Len(resuming[r]) = 1 => k = 1 /\ resuming'[r] = <<>>
  BY <1>1, ResumeLaunchEffect
<1>3. PICK k \in 1..Len(resuming[r]) :
         /\ resuming[r][k] \in RowStates /\ LaunchAgain(r, resuming[r][k])
         /\ Len(resuming[r]) = 1 => k = 1 /\ resuming'[r] = <<>>
  BY <1>2
<1> DEFINE record == resuming[r][k]
<1>4. r \notin raced =>
        /\ record = rows[r] /\ resuming'[r] = <<>>
        /\ rows[r].status = "stopped" /\ rows[r].from # 0
        /\ \A e \in Ids : ~EngineOf(e, r)
  <2>1. ASSUME r \notin raced
        PROVE  /\ record = rows[r] /\ resuming'[r] = <<>>
               /\ rows[r].status = "stopped" /\ rows[r].from # 0
               /\ \A e \in Ids : ~EngineOf(e, r)
    <3>1. /\ resuming[r] = <<rows[r]>> /\ rows[r].status = "stopped" /\ rows[r].from # 0
          /\ \A e \in Ids : ~EngineOf(e, r)
      BY <1>1, <1>2, <2>1 DEF ResumesWait
    <3>2. Len(<<rows[r]>>) = 1 /\ <<rows[r]>>[1] = rows[r]
      OBVIOUS
    <3> QED BY <1>3, <3>1, <3>2
  <2> QED BY <2>1
<1>5. record \in RowStates /\ LaunchAgain(r, record)
  BY <1>3
<1> HIDE DEF record
<1>6. PICK x \in Engines :
        /\ Register(r, x) /\ x.run = r
        /\ \A q \in Runs : q # r => rows'[q] = rows[q]
        /\ rows[r].filled = record.filled =>
              /\ x.phase = "live" /\ x.parked = {} /\ x.answered = {}
              /\ x.inlined = x.script /\ (closed # "open" => x.late)
              /\ rows'[r].status = "running" /\ rows'[r].from = rows[r].from
              /\ rows'[r].filled = rows[r].filled /\ x.script = record.filled
              /\ rows'[r].bound = rows[r].bound /\ x.bound = record.bound
  BY <1>1, <1>5, LaunchAgainEffect
<1>7. minted \in Nat /\ r <= minted /\ amending[r].at = "idle"
  BY <1>2, NotFresh
<1>8. UNCHANGED <<closed, drafts, filling, restarts, raced>>
      /\ amending' = amending /\ minted' = minted
  BY DEF ResumeLaunches, bookVars
<1>9. minted <= minted' /\ r <= minted'
  BY <1>7, <1>8
<1>10. r \notin raced =>
        /\ \A e \in Ids : ~EngineOf(e, r)
        /\ x.phase = "live" /\ x.parked = {} /\ x.answered = {} /\ x.inlined = x.script
        /\ rows[r].status \in {"none", "stopped"} /\ rows'[r].status = "running"
        /\ rows'[r].filled = x.script /\ rows'[r].bound = x.bound
        /\ rows'[r].filled = rows[r].filled
        /\ resuming'[r] = <<>>
        /\ closed # "open" => x.late /\ rows'[r].from # 0
  BY <1>4, <1>6
<1> QED BY <1>2, <1>6, <1>7, <1>8, <1>9, <1>10, LaunchStep

\* A step of one live engine, of its row and of the fills of its run.
LEMMA EngineStep ==
    ASSUME IInv, TypeOK', NEW r \in Runs, NEW e \in Ids, IsLive(e), engines[e].run = r,
           NEW y \in Engines, Ids' = Ids, engines'[e] = y,
           \A z \in Ids : z # e => engines'[z] = engines[z],
           y.run = r, y.phase = "live", y.late = engines[e].late,
           UNCHANGED <<registry, amending, resuming, closed>>, UNCHANGED <<minted, restarts, raced>>,
           \A q \in Runs : q # r => /\ rows'[q] = rows[q] /\ filling'[q] = filling[q]
                                    /\ drafts'[q] = drafts[q],
           rows'[r].status = rows[r].status, rows'[r].from = rows[r].from,
           r \notin raced =>
               /\ rows'[r].bound = y.bound /\ rows'[r].filled = y.script
               /\ y.script = y.inlined \cup y.answered /\ y.parked \cap y.script = {}
               /\ rows[r].filled \subseteq rows'[r].filled
               /\ drafts'[r].written /\ restarts = 0 /\ (\A f \in filling'[r] : f.at # "draft") =>
                      drafts'[r].text = rows'[r].filled,
           FillsOf(r)'
    PROVE  IInv' /\ LegalStep
<1>1. /\ TypeOK /\ Fresh /\ RegistryIsRight /\ EnginesAreRegistered /\ RowsFollowEngines
      /\ ResumesWait /\ FillsWait /\ DraftFollowsScript /\ ClosingLeavesAmendments
  BY DEF IInv
<1>2. \A q \in Runs : registry[q] # 0 => registry[q] \in Ids
  BY <1>1, Numbers
<1>3. \A z \in Ids : /\ engines'[z].run = engines[z].run /\ engines'[z].phase = engines[z].phase
                     /\ engines'[z].late = engines[z].late /\ engines[z].run \in Runs
  BY <1>1, Entries DEF TypeOK, Engines, IsLive
<1>4. Fresh'
  <2>1. ASSUME NEW q \in Runs, q > minted \/ amending[q].at # "idle"
        PROVE  /\ rows'[q] = NoRow /\ drafts'[q] = NoDraft
               /\ resuming'[q] = <<>> /\ filling'[q] = {}
               /\ \A z \in Ids' : engines'[z].run # q
    <3>1. /\ rows[q] = NoRow /\ drafts[q] = NoDraft /\ resuming[q] = <<>> /\ filling[q] = {}
          /\ \A z \in Ids : engines[z].run # q
      BY <1>1, <2>1 DEF Fresh
    <3> QED BY <1>3, <3>1
  <2> QED BY <1>1, <2>1 DEF Fresh
<1>5. RegistryIsRight'
  BY <1>1, <1>2, <1>3 DEF RegistryIsRight
<1>6. EnginesAreRegistered'
  BY <1>1, <1>3 DEF EnginesAreRegistered, IsLive
<1>7. RowsFollowEngines'
  <2>1. ASSUME NEW q \in Runs \ raced
        PROVE  /\ rows'[q].status = "running" => \E z \in Ids : IsLive(z)' /\ engines'[z].run = q
               /\ \A z \in Ids : IsLive(z)' /\ engines'[z].run = q => rows'[q].status = "running"
    <3>1. rows'[q].status = rows[q].status
      OBVIOUS
    <3> QED BY <1>1, <1>3, <3>1 DEF RowsFollowEngines, IsLive
  <2>2. ASSUME NEW q \in Runs \ raced, NEW z \in Ids, IsLive(z)', engines'[z].run = q
        PROVE  /\ rows'[q].bound = engines'[z].bound
               /\ rows'[q].filled = engines'[z].script
               /\ engines'[z].script = engines'[z].inlined \cup engines'[z].answered
               /\ engines'[z].parked \cap engines'[z].script = {}
    <3>1. IsLive(z) /\ engines[z].run = q
      BY <1>3, <2>2 DEF IsLive
    <3>2. CASE q = r
      <4>1. z = e
        BY <1>1, <2>2, <3>1, <3>2 DEF EnginesAreRegistered
      <4> QED BY <2>2, <3>2, <4>1
    <3>3. CASE q # r
      <4>1. engines'[z] = engines[z] /\ rows'[q] = rows[q]
        BY <3>1, <3>3
      <4> QED BY <1>1, <2>2, <3>1, <4>1 DEF RowsFollowEngines
    <3> QED BY <3>2, <3>3
  <2> QED BY <2>1, <2>2 DEF RowsFollowEngines
<1>8. ResumesWait'
  <2>1. ASSUME NEW q \in Runs \ raced, resuming[q] # <<>>
        PROVE  /\ resuming[q] = <<rows'[q]>>
               /\ rows'[q].status = "stopped" /\ rows'[q].from # 0
               /\ \A z \in Ids : ~EngineOf(z, q)'
    <3>1. /\ resuming[q] = <<rows[q]>> /\ rows[q].status = "stopped" /\ rows[q].from # 0
          /\ \A z \in Ids : ~EngineOf(z, q)
      BY <1>1, <2>1 DEF ResumesWait
    <3>2. q # r
      BY <3>1 DEF EngineOf
    <3> QED BY <1>3, <3>1, <3>2 DEF EngineOf, IsLive
  <2> QED BY <2>1 DEF ResumesWait
<1>9. FillsWait'
  <2>1. ASSUME NEW q \in Runs, q # r, NEW f \in filling'[q]
        PROVE  /\ \A g \in filling'[q] : g = f
               /\ f.entry \in Ids /\ engines'[f.entry].run = q
               /\ f.at = "mint" /\ IsLive(f.entry)' => f.text = engines'[f.entry].script \cup {f.hole}
               /\ f.at = "draft" /\ q \notin raced => f.text = rows'[q].filled
    <3>1. /\ \A g \in filling[q] : g = f
          /\ f.entry \in Ids /\ engines[f.entry].run = q
          /\ f.at = "mint" /\ IsLive(f.entry) => f.text = engines[f.entry].script \cup {f.hole}
          /\ f.at = "draft" /\ q \notin raced => f.text = rows[q].filled
      BY <1>1, <2>1 DEF FillsWait, FillsOf
    <3>2. engines'[f.entry] = engines[f.entry]
      BY <2>1, <3>1
    <3> QED BY <2>1, <3>1, <3>2 DEF IsLive
  <2> QED BY <2>1 DEF FillsWait, FillsOf
<1>10. DraftFollowsScript'
  <2>1. ASSUME NEW q \in Runs \ raced, q # r, drafts'[q].written, restarts = 0,
               \A f \in filling'[q] : f.at # "draft"
        PROVE  drafts'[q].text = rows'[q].filled
    BY <1>1, <2>1 DEF DraftFollowsScript
  <2> QED BY <2>1 DEF DraftFollowsScript
<1>11. ClosingLeavesAmendments'
  <2>1. \A q \in Runs : rows'[q].from = rows[q].from
    OBVIOUS
  <2> QED BY <1>1, <1>3, <2>1 DEF ClosingLeavesAmendments, IsLive
<1>12. LegalStep
  <2>1. \A q \in Runs \ raced :
          rows[q].filled \subseteq rows'[q].filled /\ rows'[q].status = rows[q].status
    OBVIOUS
  <2> QED BY <2>1 DEF LegalStep
<1> QED BY <1>4, <1>5, <1>6, <1>7, <1>8, <1>9, <1>10, <1>11, <1>12 DEF IInv

\* A run that has an engine or a fill was launched.
LEMMA LaunchedBefore ==
    ASSUME IInv, NEW r \in Runs, filling[r] # {} \/ \E e \in Ids : engines[e].run = r
    PROVE  ~(r > minted) /\ amending[r].at = "idle"
BY DEF IInv, Fresh

\* The fills of the run of a live engine, when that engine keeps its script.
LEMMA FillsStand ==
    ASSUME IInv, NEW r \in Runs, NEW e \in Ids, NEW y \in Engines, engines'[e] = y,
           \A z \in Ids : z # e => engines'[z] = engines[z],
           y.run = engines[e].run, y.script = engines[e].script, y.phase = engines[e].phase,
           rows'[r].filled = rows[r].filled, filling' = filling, Ids' = Ids, raced' = raced
    PROVE  FillsOf(r)'
<1> SUFFICES ASSUME NEW f \in filling[r]
             PROVE  /\ \A g \in filling[r] : g = f
                    /\ f.entry \in Ids /\ engines'[f.entry].run = r
                    /\ f.at = "mint" /\ IsLive(f.entry)' =>
                           f.text = engines'[f.entry].script \cup {f.hole}
                    /\ f.at = "draft" /\ r \notin raced => f.text = rows'[r].filled
  BY DEF FillsOf
<1>1. /\ \A g \in filling[r] : g = f
      /\ f.entry \in Ids /\ engines[f.entry].run = r
      /\ f.at = "mint" /\ IsLive(f.entry) => f.text = engines[f.entry].script \cup {f.hole}
      /\ f.at = "draft" /\ r \notin raced => f.text = rows[r].filled
  BY DEF IInv, FillsWait, FillsOf
<1>2. /\ engines'[f.entry].run = r /\ engines'[f.entry].phase = engines[f.entry].phase
      /\ engines'[f.entry].script = engines[f.entry].script
  BY <1>1
<1> QED BY <1>1, <1>2 DEF IsLive

LEMMA RetuneKeeps ==
    ASSUME IInv, TypeOK', NEW r \in Runs, NEW b \in Bounds, Retune(r, b)
    PROVE  IInv' /\ LegalStep
<1> DEFINE e == registry[r]
           y == [engines[e] EXCEPT !.bound = b]
<1>1. /\ TypeOK /\ e \in Ids /\ IsLive(e) /\ engines \in Seq(Engines) /\ engines[e] \in Engines
      /\ b \in Nat /\ rows[r] \in RowStates
  <2>1. TypeOK /\ InFlight(r) /\ IsLive(e)
    BY DEF IInv, Retune
  <2>2. e \in Ids
    BY <2>1, InFlightHasEntry
  <2> QED BY <2>1, <2>2, Entries, ServiceAssumption DEF TypeOK
<1>2. engines[e].run = r
  BY <1>1, Entries DEF IInv, TypeOK, RegistryIsRight
<1>3. /\ engines' = [engines EXCEPT ![e] = y]
      /\ rows' = [rows EXCEPT ![r] = [rows[r] EXCEPT !.bound = b]]
      /\ UNCHANGED <<drafts, serviceVars, callVars, bookVars>>
  BY DEF Retune
<1>4. /\ y \in Engines /\ y.run = engines[e].run /\ y.phase = engines[e].phase
      /\ y.late = engines[e].late /\ y.script = engines[e].script
      /\ y.inlined = engines[e].inlined /\ y.answered = engines[e].answered
      /\ y.parked = engines[e].parked /\ y.bound = b
  BY <1>1 DEF Engines
<1>5. /\ rows'[r].bound = b /\ rows'[r].filled = rows[r].filled
      /\ rows'[r].status = rows[r].status /\ rows'[r].from = rows[r].from
      /\ \A q \in Runs : q # r => rows'[q] = rows[q]
  BY <1>1, <1>3 DEF RowStates, TypeOK
<1> HIDE DEF e, y
<1>6. Ids' = Ids /\ engines'[e] = y /\ \A z \in Ids : z # e => engines'[z] = engines[z]
  BY <1>1, <1>3, <1>4, Replaced
<1>7. /\ UNCHANGED <<registry, amending, resuming, closed>> /\ UNCHANGED <<minted, restarts, raced>>
      /\ filling' = filling /\ drafts' = drafts
  BY <1>3 DEF serviceVars, callVars, bookVars
<1>8. r \notin raced =>
        /\ rows'[r].bound = y.bound /\ rows'[r].filled = y.script
        /\ y.script = y.inlined \cup y.answered /\ y.parked \cap y.script = {}
        /\ drafts'[r].written /\ restarts = 0 /\ (\A f \in filling'[r] : f.at # "draft") =>
               drafts'[r].text = rows'[r].filled
  BY <1>1, <1>2, <1>4, <1>5, <1>7 DEF IInv, RowsFollowEngines, DraftFollowsScript
<1>9. FillsOf(r)'
  BY <1>1, <1>4, <1>5, <1>6, <1>7, FillsStand
<1>10. y.run = r /\ y.phase = "live"
  BY <1>1, <1>2, <1>4 DEF IsLive
<1> QED BY <1>1, <1>2, <1>4, <1>5, <1>6, <1>7, <1>8, <1>9, <1>10, EngineStep

LEMMA ReachHoleKeeps ==
    ASSUME IInv, TypeOK', NEW e \in Ids, NEW h \in Holes, ReachHole(e, h)
    PROVE  IInv' /\ LegalStep
<1> DEFINE y == [engines[e] EXCEPT !.parked = @ \cup {h}]
<1>1. TypeOK /\ IsLive(e) /\ engines \in Seq(Engines) /\ engines[e] \in Engines
  BY Entries DEF IInv, TypeOK, ReachHole
<1>2. PICK r \in Runs : r = engines[e].run
  BY <1>1 DEF Engines
<1>3. /\ engines' = [engines EXCEPT ![e] = y]
      /\ h \notin engines[e].inlined \cup engines[e].answered
      /\ UNCHANGED <<rows, drafts, serviceVars, callVars, bookVars>>
  BY DEF ReachHole
<1>4. /\ y \in Engines /\ y.run = r /\ y.phase = engines[e].phase
      /\ y.late = engines[e].late /\ y.script = engines[e].script
      /\ y.inlined = engines[e].inlined /\ y.answered = engines[e].answered
      /\ y.parked = engines[e].parked \cup {h} /\ y.bound = engines[e].bound
  BY <1>1, <1>2 DEF Engines
<1> HIDE DEF y
<1>5. Ids' = Ids /\ engines'[e] = y /\ \A z \in Ids : z # e => engines'[z] = engines[z]
  BY <1>1, <1>3, <1>4, Replaced
<1>6. /\ UNCHANGED <<registry, amending, resuming, closed>> /\ UNCHANGED <<minted, restarts, raced>>
      /\ filling' = filling /\ drafts' = drafts /\ rows' = rows
  BY <1>3 DEF serviceVars, callVars, bookVars
<1>7. r \notin raced =>
        /\ rows[r].bound = y.bound /\ rows[r].filled = y.script
        /\ y.script = y.inlined \cup y.answered /\ y.parked \cap y.script = {}
        /\ drafts[r].written /\ restarts = 0 /\ (\A f \in filling[r] : f.at # "draft") =>
               drafts[r].text = rows[r].filled
  BY <1>1, <1>3, <1>4, <1>2 DEF IInv, RowsFollowEngines, DraftFollowsScript
<1>8. FillsOf(r)'
  BY <1>1, <1>4, <1>2, <1>5, <1>6, FillsStand
<1>9. y.phase = "live"
  BY <1>1, <1>4 DEF IsLive
<1> QED BY <1>1, <1>4, <1>2, <1>5, <1>6, <1>7, <1>8, <1>9, EngineStep

\* A live engine takes the body of a fill.
LEMMA AcceptKeeps ==
    ASSUME IInv, TypeOK', NEW r \in Runs, NEW e \in Ids, NEW h \in Holes, NEW text \in SUBSET Holes,
           IsLive(e), engines[e].run = r, text = engines[e].script \cup {h},
           Accept(r, e, h, text),
           UNCHANGED <<serviceVars, amending, resuming, bookVars>>,
           \A q \in Runs : q # r => filling'[q] = filling[q] /\ drafts'[q] = drafts[q],
           \A f \in filling'[r] : /\ \A g \in filling'[r] : g = f
                                  /\ f.at = "draft" /\ f.entry = e /\ f.text = text,
           filling'[r] = {} => drafts'[r].text = text
    PROVE  IInv' /\ LegalStep
<1>1. TypeOK /\ RowsFollowEngines /\ engines[e] \in Engines /\ rows[r] \in RowStates
  BY Entries DEF IInv, TypeOK
<1> DEFINE y == Filled(engines[e], h, text)
<1>2. /\ Ids' = Ids /\ engines'[e] = y
      /\ \A z \in Ids : z # e => engines'[z] = engines[z]
      /\ rows'[r] = [rows[r] EXCEPT !.filled = text]
      /\ \A q \in Runs : q # r => rows'[q] = rows[q]
  <2>1. TypeOK /\ Accept(r, e, h, text)
    BY <1>1
  <2> QED BY ONLY <2>1, AcceptType, r \in Runs, e \in Ids, h \in Holes, text \in SUBSET Holes
<1>3. /\ y \in Engines /\ y.run = r /\ y.phase = "live"
      /\ y.parked = engines[e].parked \ {h} /\ y.answered = engines[e].answered \cup {h}
      /\ y.inlined = engines[e].inlined /\ y.script = text /\ y.bound = engines[e].bound
      /\ y.late = engines[e].late
  BY <1>1, Filling DEF IsLive
<1> HIDE DEF y
<1>4. /\ rows'[r].filled = text /\ rows'[r].status = rows[r].status
      /\ rows'[r].from = rows[r].from /\ rows'[r].bound = rows[r].bound
  BY <1>1, <1>2 DEF RowStates
<1>5. UNCHANGED <<registry, amending, resuming, closed>> /\ UNCHANGED <<minted, restarts, raced>>
  BY DEF serviceVars, bookVars
<1>6. ASSUME r \notin raced
      PROVE  /\ rows'[r].bound = y.bound /\ rows'[r].filled = y.script
             /\ y.script = y.inlined \cup y.answered /\ y.parked \cap y.script = {}
             /\ rows[r].filled \subseteq rows'[r].filled
             /\ drafts'[r].written /\ restarts = 0 /\ (\A f \in filling'[r] : f.at # "draft") =>
                    drafts'[r].text = rows'[r].filled
  <2>1. /\ rows[r].bound = engines[e].bound /\ rows[r].filled = engines[e].script
        /\ engines[e].script = engines[e].inlined \cup engines[e].answered
        /\ engines[e].parked \cap engines[e].script = {}
    BY <1>1, <1>6 DEF RowsFollowEngines
  <2>2. y.script = y.inlined \cup y.answered
    BY <1>3, <2>1
  <2>3. y.parked \cap y.script = {}
    BY <1>3, <2>1
  <2>4. (\A f \in filling'[r] : f.at # "draft") => drafts'[r].text = rows'[r].filled
    BY <1>4
  <2> QED BY <1>3, <1>4, <2>1, <2>2, <2>3, <2>4
<1>7. FillsOf(r)'
  <2>1. \A f \in filling'[r] : f.entry = e /\ f.at = "draft" /\ f.text = rows'[r].filled
    BY <1>4
  <2> QED BY <1>2, <1>3, <2>1 DEF FillsOf
<1>8. \A q \in Runs : q # r => /\ rows'[q] = rows[q] /\ filling'[q] = filling[q]
                                /\ drafts'[q] = drafts[q]
  BY <1>2
<1>9. IInv /\ TypeOK' /\ IsLive(e) /\ engines[e].run = r
  OBVIOUS
<1>10. r \notin raced =>
        /\ rows'[r].bound = y.bound /\ rows'[r].filled = y.script
        /\ y.script = y.inlined \cup y.answered /\ y.parked \cap y.script = {}
        /\ rows[r].filled \subseteq rows'[r].filled
        /\ drafts'[r].written /\ restarts = 0 /\ (\A f \in filling'[r] : f.at # "draft") =>
               drafts'[r].text = rows'[r].filled
  BY <1>6
<1>11. rows'[r].status = rows[r].status /\ rows'[r].from = rows[r].from
  BY <1>4
<1>12. /\ y \in Engines /\ y.run = r /\ y.phase = "live" /\ y.late = engines[e].late
       /\ Ids' = Ids /\ engines'[e] = y
       /\ \A z \in Ids : z # e => engines'[z] = engines[z]
  BY <1>2, <1>3
<1> QED BY ONLY <1>5, <1>7, <1>8, <1>9, <1>10, <1>11, <1>12, EngineStep,
                r \in Runs, e \in Ids

\* A step of a fill that the engine has no part in.
LEMMA FillAloneKeeps ==
    ASSUME IInv, TypeOK', NEW r \in Runs, UNCHANGED <<rows, engines>>,
           UNCHANGED <<serviceVars, amending, resuming, bookVars>>,
           \A q \in Runs : q # r => filling'[q] = filling[q] /\ drafts'[q] = drafts[q],
           filling[r] # {} \/ \E e \in Ids : engines[e].run = r,
           \A f \in filling'[r] :
               /\ \A g \in filling'[r] : g = f
               /\ f.at = "mint" /\ f.entry \in Ids /\ engines[f.entry].run = r
               /\ f.text = engines[f.entry].script \cup {f.hole},
           \/ drafts'[r] = drafts[r] /\ (\A f \in filling[r] : f.at # "draft")
           \/ r \notin raced => drafts'[r].text = rows[r].filled
    PROVE  IInv' /\ LegalStep
<1>1. /\ TypeOK /\ Fresh /\ RegistryIsRight /\ EnginesAreRegistered /\ RowsFollowEngines
      /\ ResumesWait /\ FillsWait /\ DraftFollowsScript /\ ClosingLeavesAmendments
  BY DEF IInv
<1>2. /\ UNCHANGED <<registry, amending, resuming, closed>> /\ UNCHANGED <<minted, restarts, raced>>
      /\ Ids' = Ids /\ rows' = rows /\ engines' = engines
  BY DEF serviceVars, bookVars, Ids
<1>3. Fresh'
  <2>1. ~(r > minted) /\ amending[r].at = "idle"
    BY LaunchedBefore
  <2>2. \A q \in Runs : q > minted \/ amending[q].at # "idle" =>
          filling'[q] = filling[q] /\ drafts'[q] = drafts[q]
    BY <2>1
  <2> QED BY <1>1, <1>2, <2>2 DEF Fresh
<1>4. RegistryIsRight' /\ EnginesAreRegistered' /\ RowsFollowEngines' /\ ClosingLeavesAmendments'
  BY <1>1, <1>2 DEF RegistryIsRight, EnginesAreRegistered, RowsFollowEngines,
                    ClosingLeavesAmendments, IsLive
<1>5. ResumesWait'
  BY <1>1, <1>2 DEF ResumesWait, EngineOf, IsLive
<1>6. FillsWait'
  <2>1. ASSUME NEW q \in Runs, q # r, NEW f \in filling'[q]
        PROVE  /\ \A g \in filling'[q] : g = f
               /\ f.entry \in Ids /\ engines[f.entry].run = q
               /\ f.at = "mint" /\ IsLive(f.entry) => f.text = engines[f.entry].script \cup {f.hole}
               /\ f.at = "draft" /\ q \notin raced => f.text = rows[q].filled
    BY <1>1, <2>1 DEF FillsWait, FillsOf
  <2> QED BY <1>2, <2>1 DEF FillsWait, FillsOf, IsLive
<1>7. DraftFollowsScript'
  BY <1>1, <1>2 DEF DraftFollowsScript
<1>8. LegalStep
  BY DEF LegalStep
<1> QED BY <1>3, <1>4, <1>5, <1>6, <1>7, <1>8 DEF IInv

LEMMA FillTurnKeeps ==
    ASSUME IInv, TypeOK', NEW r \in Runs, NEW h \in Holes, FillTurn(r, h)
    PROVE  IInv' /\ LegalStep
<1> DEFINE e == registry[r]
           text == engines[e].script \cup {h}
           fill(at) == [at |-> at, entry |-> e, hole |-> h, text |-> text]
<1>1. TypeOK /\ filling \in [Runs -> SUBSET Fills]
  BY DEF IInv, TypeOK
<1>2. /\ e \in Ids /\ text \in SUBSET Holes /\ filling[r] = {}
      /\ \/ /\ Waiting(e, h) /\ Accept(r, e, h, text)
            /\ filling' = [filling EXCEPT ![r] = {fill("draft")}]
         \/ /\ filling' = [filling EXCEPT ![r] = {fill("mint")}]
            /\ UNCHANGED <<rows, engines>>
  BY <1>1, FillTurnEffect
<1>3. e # 0
  BY <1>1, <1>2, Entries DEF TypeOK
<1>4. engines[e].run = r
  BY <1>3 DEF IInv, RegistryIsRight
<1>5. UNCHANGED <<drafts, serviceVars, amending, resuming, bookVars>>
  BY DEF FillTurn, FillTurns
<1>6. CASE /\ Waiting(e, h) /\ Accept(r, e, h, text)
           /\ filling' = [filling EXCEPT ![r] = {fill("draft")}]
  <2>1. filling'[r] = {fill("draft")} /\ \A q \in Runs : q # r => filling'[q] = filling[q]
    BY <1>1, <1>6
  <2>2. IsLive(e) /\ text = engines[e].script \cup {h} /\ Accept(r, e, h, text)
    BY <1>6 DEF Waiting
  <2>3. /\ \A f \in filling'[r] : /\ \A g \in filling'[r] : g = f
                                  /\ f.at = "draft" /\ f.entry = e /\ f.text = text
        /\ filling'[r] # {}
    BY <2>1
  <2> HIDE DEF e, text, fill
  <2> QED BY <1>2, <1>4, <1>5, <2>1, <2>2, <2>3, AcceptKeeps
<1>7. CASE /\ filling' = [filling EXCEPT ![r] = {fill("mint")}]
           /\ UNCHANGED <<rows, engines>>
  <2>1. filling'[r] = {fill("mint")} /\ \A q \in Runs : q # r => filling'[q] = filling[q]
    BY <1>1, <1>7
  <2>2. \A f \in filling'[r] :
          /\ \A g \in filling'[r] : g = f
          /\ f.at = "mint" /\ f.entry \in Ids /\ engines[f.entry].run = r
          /\ f.text = engines[f.entry].script \cup {f.hole}
    BY <1>2, <1>4, <2>1
  <2>3. UNCHANGED <<serviceVars, amending, resuming, bookVars>> /\ drafts' = drafts
    BY <1>5
  <2> HIDE DEF e, text, fill
  <2> QED BY <1>2, <1>4, <1>7, <2>1, <2>2, <2>3, FillAloneKeeps
<1> HIDE DEF e, text, fill
<1> QED BY <1>2, <1>6, <1>7

LEMMA FillMintedKeeps ==
    ASSUME IInv, TypeOK', NEW r \in Runs, FillMinted(r)
    PROVE  IInv' /\ LegalStep
<1>1. TypeOK /\ filling \in [Runs -> SUBSET Fills] /\ drafts \in [Runs -> Drafts]
  BY DEF IInv, TypeOK
<1>2. PICK f \in Fills :
        /\ f.at = "mint" /\ filling[r] = {f} /\ filling' = [filling EXCEPT ![r] = {}]
        /\ f.entry \in Ids /\ engines[f.entry].run = r
        /\ f.text \in SUBSET Holes /\ f.hole \in Holes
        /\ IsLive(f.entry) => f.text = engines[f.entry].script \cup {f.hole}
        /\ \/ /\ Waiting(f.entry, f.hole) /\ Accept(r, f.entry, f.hole, f.text)
              /\ drafts' = [drafts EXCEPT ![r] = [written |-> TRUE, text |-> f.text]]
           \/ UNCHANGED <<rows, engines, drafts>>
  BY FillMintedEffect
<1>3. UNCHANGED <<serviceVars, amending, resuming, bookVars>>
  BY DEF FillMinted
<1>4. filling'[r] = {} /\ \A q \in Runs : q # r => filling'[q] = filling[q]
  BY <1>1, <1>2
<1>5. CASE /\ Waiting(f.entry, f.hole) /\ Accept(r, f.entry, f.hole, f.text)
           /\ drafts' = [drafts EXCEPT ![r] = [written |-> TRUE, text |-> f.text]]
  <2>1. drafts'[r].text = f.text /\ \A q \in Runs : q # r => drafts'[q] = drafts[q]
    BY <1>1, <1>5
  <2>2. IsLive(f.entry) /\ f.text = engines[f.entry].script \cup {f.hole}
    BY <1>2, <1>5 DEF Waiting
  <2> QED BY <1>2, <1>3, <1>4, <1>5, <2>1, <2>2, AcceptKeeps
<1>6. CASE UNCHANGED <<rows, engines, drafts>>
  <2>1. UNCHANGED <<rows, engines>> /\ drafts' = drafts
    BY <1>6
  <2>2. filling[r] # {} /\ \A g \in filling[r] : g.at # "draft"
    BY <1>2
  <2> QED BY <1>3, <1>4, <2>1, <2>2, FillAloneKeeps
<1> QED BY <1>2, <1>5, <1>6

LEMMA FillDraftedKeeps ==
    ASSUME IInv, TypeOK', NEW r \in Runs, FillDrafted(r)
    PROVE  IInv' /\ LegalStep
<1>1. TypeOK /\ filling \in [Runs -> SUBSET Fills] /\ drafts \in [Runs -> Drafts]
  BY DEF IInv, TypeOK
<1>2. PICK f \in Fills :
        /\ f.at = "draft" /\ filling[r] = {f} /\ filling' = [filling EXCEPT ![r] = {}]
        /\ f.text \in SUBSET Holes /\ (r \notin raced => f.text = rows[r].filled)
        /\ drafts' = [drafts EXCEPT ![r] = [drafts[r] EXCEPT !.text = f.text]]
  BY FillDraftedEffect
<1>3. UNCHANGED <<serviceVars, amending, resuming, bookVars>> /\ UNCHANGED <<rows, engines>>
  BY DEF FillDrafted
<1>4. /\ filling'[r] = {} /\ \A q \in Runs : q # r => filling'[q] = filling[q]
      /\ \A q \in Runs : q # r => drafts'[q] = drafts[q]
  BY <1>1, <1>2
<1>5. drafts'[r].text = f.text
  BY <1>1, <1>2 DEF Drafts
<1>6. filling[r] # {}
  BY <1>2
<1> QED BY <1>2, <1>3, <1>4, <1>5, <1>6, FillAloneKeeps

LEMMA ResumeCallKeeps ==
    ASSUME IInv, TypeOK', NEW r \in Runs, ResumeCall(r)
    PROVE  IInv' /\ LegalStep
<1>1. /\ TypeOK /\ Fresh /\ RegistryIsRight /\ EnginesAreRegistered /\ RowsFollowEngines
      /\ ResumesWait /\ FillsWait /\ DraftFollowsScript /\ ClosingLeavesAmendments
  BY DEF IInv
<1>2. /\ ~InFlight(r) /\ rows[r].status = "stopped" /\ rows[r].from # 0
      /\ resuming' = [resuming EXCEPT ![r] = Append(@, rows[r])]
      /\ raced' = IF resuming[r] = <<>> THEN raced ELSE raced \cup {r}
      /\ UNCHANGED <<rows, engines, drafts, serviceVars, amending, filling, minted, restarts>>
  BY DEF ResumeCall, Resumable
<1>3. /\ UNCHANGED <<rows, engines, drafts, registry, closed, amending, filling, minted, restarts>>
      /\ Ids' = Ids /\ raced \subseteq raced'
  BY <1>2 DEF serviceVars, Ids
<1>4. ~(r > minted) /\ amending[r].at = "idle"
  <2>1. minted \in Nat /\ r <= minted /\ amending[r].at = "idle"
    BY <1>2, NotFresh
  <2>2. r \in Nat
    BY <1>1, Numbers
  <2> QED BY <2>1, <2>2
<1>5. /\ \A q \in Runs : q # r => resuming'[q] = resuming[q]
      /\ resuming'[r] = Append(resuming[r], rows[r])
  BY <1>1, <1>2 DEF TypeOK
<1>6. Fresh'
  <2>1. \A q \in Runs : q > minted \/ amending[q].at # "idle" => resuming'[q] = resuming[q]
    BY <1>4, <1>5
  <2> QED BY <1>1, <1>3, <2>1 DEF Fresh
<1>7. RegistryIsRight' /\ EnginesAreRegistered' /\ RowsFollowEngines' /\ ClosingLeavesAmendments'
  BY <1>1, <1>3 DEF RegistryIsRight, EnginesAreRegistered, RowsFollowEngines,
                    ClosingLeavesAmendments, IsLive
<1>8. ResumesWait'
  <2>1. ASSUME NEW q \in Runs \ raced', resuming'[q] # <<>>
        PROVE  /\ resuming'[q] = <<rows[q]>>
               /\ rows[q].status = "stopped" /\ rows[q].from # 0
               /\ \A e \in Ids : ~EngineOf(e, q)
    <3>1. CASE q # r
      BY <1>1, <1>3, <1>5, <2>1, <3>1 DEF ResumesWait
    <3>2. CASE q = r
      <4>1. resuming[r] = <<>> /\ r \notin raced
        BY <1>2, <1>3, <2>1, <3>2
      <4>2. resuming'[r] = <<rows[r]>>
        BY <1>5, <4>1
      <4>3. ASSUME NEW e \in Ids, EngineOf(e, r)
            PROVE  FALSE
        <5>1. registry[r] = e /\ e # 0 /\ engines[e].phase = "live"
          BY <1>1, <4>1, <4>3, Entries DEF TypeOK, EnginesAreRegistered, EngineOf, IsLive
        <5> QED BY <1>2, <5>1 DEF InFlight
      <4> QED BY <1>2, <3>2, <4>2, <4>3
    <3> QED BY <3>1, <3>2
  <2> QED BY <1>3, <2>1 DEF ResumesWait, EngineOf, IsLive
<1>9. FillsWait'
  BY <1>1, <1>3 DEF FillsWait, FillsOf, IsLive
<1>10. DraftFollowsScript'
  BY <1>1, <1>3 DEF DraftFollowsScript
<1>11. LegalStep
  BY <1>3 DEF LegalStep
<1> QED BY <1>6, <1>7, <1>8, <1>9, <1>10, <1>11 DEF IInv

-----------------------------------------------------------------------------
(* The theorems. *)

LEMMA InitInv ==
    ASSUME Init
    PROVE  IInv
<1>1. Ids = {} /\ Len(engines) = 0
  BY DEF Init, Ids
<1>2. TypeOK
  <2>1. NoRow \in RowStates
    BY ServiceAssumption DEF NoRow, RowStates, Statuses
  <2>2. NotAmending \in Amendments
    BY ServiceAssumption DEF NotAmending, Amendments
  <2>3. NoDraft \in Drafts
    BY DEF NoDraft, Drafts
  <2>4. <<>> \in Seq(RowStates) /\ <<>> \in Seq(Engines) /\ <<>> \in Seq(Runs)
    BY EmptySeq
  <2> QED BY <1>1, <2>1, <2>2, <2>3, <2>4, ServiceAssumption DEF Init, TypeOK
<1>3. Fresh /\ RegistryIsRight /\ EnginesAreRegistered /\ ResumesWait /\ FillsWait
  BY <1>1 DEF Init, Fresh, RegistryIsRight, EnginesAreRegistered, ResumesWait, FillsWait, FillsOf,
              NotAmending, NoRow, NoDraft
<1>4. RowsFollowEngines /\ DraftFollowsScript /\ ClosingLeavesAmendments
  BY <1>1 DEF Init, RowsFollowEngines, DraftFollowsScript, ClosingLeavesAmendments, NoRow, NoDraft
<1> QED BY <1>2, <1>3, <1>4 DEF IInv

LEMMA NextKeeps ==
    ASSUME IInv, Next
    PROVE  IInv' /\ LegalStep
<1>1. CASE Submit \/ Close \/ CloseEnds \/ Restart
  <2>1. TypeOK'
    BY <1>1, ServiceTypes
  <2> QED BY <1>1, <2>1, SubmitKeeps, CloseKeeps, CloseEndsKeeps, RestartKeeps
<1>2. ASSUME NEW r \in Runs, Calls(r)
      PROVE  IInv' /\ LegalStep
  <2>1. TypeOK'
    BY <1>2, CallTypes DEF Calls
  <2>2. CASE AmendCall(r) \/ ResumeOriginal(r) \/ ResumeCall(r) \/ Cancel(r)
    BY <2>1, <2>2, AmendCallKeeps, ResumeOriginalKeeps, ResumeCallKeeps, CancelKeeps
  <2>3. ASSUME NEW b \in Bounds, Retune(r, b)
        PROVE  IInv' /\ LegalStep
    BY <2>1, <2>3, RetuneKeeps
  <2>4. ASSUME NEW h \in Holes, FillTurn(r, h)
        PROVE  IInv' /\ LegalStep
    BY <2>1, <2>4, FillTurnKeeps
  <2> QED BY <1>2, <2>2, <2>3, <2>4 DEF Calls
<1>3. ASSUME NEW r \in Runs, AmendContinues(r) \/ ResumeLaunches(r) \/ FillContinues(r)
      PROVE  IInv' /\ LegalStep
  <2>1. TypeOK'
    BY <1>3, ContinuationTypes
  <2>2. CASE AmendContinues(r)
    BY <2>1, <2>2, AmendMovesKeep, AmendLaunchesKeeps DEF AmendContinues
  <2>3. CASE ResumeLaunches(r)
    BY <2>1, <2>3, ResumeLaunchesKeeps
  <2>4. CASE FillContinues(r)
    BY <2>1, <2>4, FillMintedKeeps, FillDraftedKeeps DEF FillContinues
  <2> QED BY <1>3, <2>2, <2>3, <2>4
<1>4. ASSUME NEW e \in Ids, Engaged(e)
      PROVE  IInv' /\ LegalStep
  <2>1. TypeOK'
    BY <1>4, EngineTypes
  <2>2. ASSUME NEW h \in Holes, ReachHole(e, h)
        PROVE  IInv' /\ LegalStep
    BY <2>1, <2>2, ReachHoleKeeps
  <2>3. ASSUME NEW status \in {"finished", "stopped"}, EngineEnds(e, status)
        PROVE  IInv' /\ LegalStep
    BY <2>1, <2>3, EngineEndsKeeps
  <2>4. CASE SettlementNoted(e)
    BY <2>1, <2>4, SettlementNotedKeeps
  <2> QED BY <1>4, <2>2, <2>3, <2>4 DEF Engaged
<1> QED BY <1>1, <1>2, <1>3, <1>4 DEF Next

\* A step that changes nothing keeps the invariant.
LEMMA StutterKeeps ==
    ASSUME IInv, UNCHANGED vars
    PROVE  IInv' /\ LegalStep
<1>1. /\ UNCHANGED <<rows, engines, drafts, registry, terminalOrder, closed, closing>>
      /\ UNCHANGED <<amending, resuming, filling, minted, calls, restarts, raced>>
  BY DEF vars, serviceVars, callVars, bookVars
<1>2. TypeOK' /\ Fresh' /\ RegistryIsRight'
  BY <1>1 DEF IInv, TypeOK, Fresh, RegistryIsRight, Ids
<1>3. EnginesAreRegistered' /\ RowsFollowEngines' /\ ResumesWait'
  BY <1>1 DEF IInv, EnginesAreRegistered, RowsFollowEngines, ResumesWait, EngineOf, IsLive, Ids
<1>4. FillsWait' /\ DraftFollowsScript' /\ ClosingLeavesAmendments'
  BY <1>1 DEF IInv, FillsWait, FillsOf, DraftFollowsScript, ClosingLeavesAmendments, IsLive, Ids
<1>5. LegalStep
  BY <1>1 DEF LegalStep
<1> QED BY <1>2, <1>3, <1>4, <1>5 DEF IInv

\* All that the runs check of a state of the service, with what it rests on.
THEOREM SafetyInvariant == Spec => []IInv
<1>1. Init => IInv
  BY InitInv
<1>2. IInv /\ [Next]_vars => IInv'
  BY NextKeeps, StutterKeeps
<1> QED BY <1>1, <1>2, PTL DEF Spec

\* Every variable keeps its type whatever the number of runs, launches and restarts.
THEOREM TypeCorrect == Spec => []TypeOK
<1>1. IInv => TypeOK
  BY DEF IInv
<1> QED BY <1>1, SafetyInvariant, PTL

\* cancel, retune, fill, amend and close find every live engine of a run through its entry.
THEOREM EveryEngineIsRegistered == Spec => []EnginesAreRegistered
<1>1. IInv => EnginesAreRegistered
  BY DEF IInv
<1> QED BY <1>1, SafetyInvariant, PTL

\* A row says "running", holds a bound and a script exactly as the live engine has them.
THEOREM RowsAgree == Spec => []RowsFollowEngines
<1>1. IInv => RowsFollowEngines
  BY DEF IInv
<1> QED BY <1>1, SafetyInvariant, PTL

\* The draft file of a run holds the script of its row whenever no fill is at work on it.
THEOREM DraftsAgree == Spec => []DraftFollowsScript
<1>1. IInv => DraftFollowsScript
  BY DEF IInv
<1> QED BY <1>1, SafetyInvariant, PTL

\* After close() only engines that an amendment or its resume launched late are alive.
THEOREM OnlyAmendmentsOutlive == Spec => []OnlyAmendmentsOutliveClose
<1>1. IInv => OnlyAmendmentsOutliveClose
  BY DEF IInv, ClosingLeavesAmendments, OnlyAmendmentsOutliveClose
<1> QED BY <1>1, SafetyInvariant, PTL

\* No step of the service loses a body that the row of a run holds.
THEOREM NoBodyIsLost == Spec => FillsAreKept
<1> DEFINE Kept == \A r \in Runs \ raced' : rows[r].filled \subseteq rows'[r].filled
<1>1. IInv /\ [Next]_vars => Kept
  BY NextKeeps, StutterKeeps DEF LegalStep
<1>2. IInv /\ [Next]_vars => [Kept]_vars
  BY <1>1
<1> QED BY <1>2, SafetyInvariant, PTL DEF Spec, FillsAreKept

\* Rows take legal turns: no step revives a finished or a superseded run.
THEOREM RowsTurnLegally == Spec => RowsTakeLegalTurns
<1> DEFINE Legal == \A r \in Runs \ raced' : rows'[r].status # rows[r].status =>
                        <<rows[r].status, rows'[r].status>> \in
                            {<<"none", "running">>, <<"stopped", "running">>}
                                \cup ({"running"} \X Terminal)
<1>1. IInv /\ [Next]_vars => Legal
  BY NextKeeps, StutterKeeps DEF LegalStep
<1>2. IInv /\ [Next]_vars => [Legal]_vars
  BY <1>1
<1> QED BY <1>2, SafetyInvariant, PTL DEF Spec, RowsTakeLegalTurns
=============================================================================
