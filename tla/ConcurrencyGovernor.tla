-------------------------- MODULE ConcurrencyGovernor --------------------------
(***************************************************************************)
(* One bucket of the process-wide governor: every attempt of every model    *)
(* request of every run passes it (bootstrap/src/app/workflow-concurrency-   *)
(* governor.ts), as does every request of the main agent, which never waits. *)
(*                                                                         *)
(* Each exported function and each callback (abort, timer, ticket) runs to   *)
(* completion, so each is one action, the drain at its end included.  A      *)
(* request that missed the fast path is queued in a later event-loop turn,   *)
(* after the runner has reported it as waiting.  Listeners of cap changes    *)
(* and inFlightByRun, which only selects among them, are left out.           *)
(***************************************************************************)
EXTENDS ConcurrencyController, Sequences, SequencesExt

CONSTANTS
    Requests,       \* the requesters: each has at most one attempt at a time
    Runs,           \* workflow runs that share the key
    Observer,       \* OBSERVER_RUN_ID, the main agent
    RunOf,          \* the run a requester belongs to
    Bounds,         \* the bounds a run registers
    GrowthFactor,   \* WORKFLOW_CONCURRENCY_AUTO_GROWTH_FACTOR
    RetryAfters,    \* the Retry-After of a refusal, in ticks; 0 is none
    MayAbort        \* waiting requests may be aborted

ASSUME GovernorAssumption ==
    /\ IsFiniteSet(Requests) /\ IsFiniteSet(Runs) /\ Observer \notin Runs
    /\ RunOf \in [Requests -> Runs \cup {Observer}]
    /\ Bounds \subseteq Nat \ {0} /\ GrowthFactor \in Nat \ {0}
    /\ RetryAfters \subseteq Nat /\ MayAbort \in BOOLEAN

NoRun == "none"

VARIABLES
    bucket,     \* the bucket of the key: ctl, queues, last, used, wake
    bounds,     \* runBounds: what each run registered, 0 for nothing
    stage       \* where each requester is

vars == <<bucket, bounds, stage>>

\* queues is a Map: its entries are in insertion order and none is empty.
Waiting(b) == UNION {ToSet(b.queues[n].waiting) : n \in DOMAIN b.queues}

Buckets == [ctl : Controllers(Requests),
            queues : Seq([run : Runs, waiting : Seq(Requests)]),
            last : Runs \cup {Observer, NoRun},
            used : SUBSET Runs,
            wake : Nat \cup {Never}]

Stages == {"idle", "missed", "queued", "open", "settled"}

--------------------------------------------------------------------------------
(* Admission. *)

BaseLimit == GrowthFactor * D

\* refreshGrowthLimit(): the largest bound among the runs that used the key moves the
\* growth limit and, if it can, the cap.
Refresh_LimitOnly(b, reg) ==
    LET own   == {reg[run] : run \in b.used} \ {0}
        limit == Max({BaseLimit} \cup own)
    IN  [b EXCEPT !.ctl.growthLimit = limit]
Refresh(b, reg) ==
    LET own   == {reg[run] : run \in b.used} \ {0}
        limit == Max({BaseLimit} \cup own)
        moved == IF limit = b.ctl.growthLimit THEN b.ctl ELSE SetGrowthLimit(b.ctl, limit)
    IN  [b EXCEPT !.ctl = IF own = {} THEN moved ELSE Seed(moved, Max(own))]

NoteRunUsed(b, run) ==
    IF run \in b.used THEN b
    ELSE LET noted == [b EXCEPT !.used = @ \cup {run}]
         IN  IF bounds[run] = 0 THEN noted ELSE Refresh(noted, bounds)

Grant(b, r) == [b EXCEPT !.ctl = Admitted(Observe(@), r), !.last = RunOf[r]]

\* nextRunWithWaiters(): the entry behind the one granted last; the first one if that
\* run has no entry any more.
NextEntry_First(b) == 1
NextEntry(b) ==
    LET place == Max({0} \cup {n \in DOMAIN b.queues : b.queues[n].run = b.last})
    IN  (place % Len(b.queues)) + 1

\* The waiter in place i of entry n leaves; an entry is deleted with its last waiter.
Leave(b, n, i) ==
    LET q == b.queues
    IN  [b EXCEPT !.queues = IF Len(q[n].waiting) = 1 THEN RemoveAt(q, n)
                             ELSE [q EXCEPT ![n].waiting = RemoveAt(@, i)]]

GrantNext(b) ==
    LET n == NextEntry(b)
    IN  Grant(Leave(b, n, 1), Head(b.queues[n].waiting))

\* admit(): behind its run's other requests, in a new entry if there are none.
Enqueue(b, r) ==
    LET q    == b.queues
        mine == {n \in DOMAIN q : q[n].run = RunOf[r]}
    IN  [b EXCEPT !.queues =
            IF mine = {} THEN Append(q, [run |-> RunOf[r], waiting |-> <<r>>])
            ELSE [q EXCEPT ![Max(mine)].waiting = Append(@, r)]]

Dequeue(b, r) ==
    LET n == CHOOSE m \in DOMAIN b.queues : r \in ToSet(b.queues[m].waiting)
        i == CHOOSE j \in DOMAIN b.queues[n].waiting : b.queues[n].waiting[j] = r
    IN  Leave(b, n, i)

\* armCooldownWake(): the old timer is cancelled; a new one is set for the end of the
\* cooldown, at once if that has passed, provided that somebody waits.
Armed(b) == [b EXCEPT !.wake = IF Waiting(b) = {} THEN Never ELSE b.ctl.cooldown]

Counted(b) == [b EXCEPT !.ctl = Waiters(@, Cardinality(Waiting(b)))]

\* drain(): let through as many as the gate allows, run after run.
GrantOne(b) ==
    IF CanAdmit(b.ctl) /\ b.queues # <<>> THEN Counted(GrantNext(b)) ELSE b
Drain_Unarmed(b) ==
    LET after[n \in 0..Cardinality(Requests)] ==
            IF n = 0 THEN Counted([b EXCEPT !.ctl = Observe(@)]) ELSE GrantOne(after[n - 1])
    IN  after[Cardinality(Requests)]
Drain(b) ==
    LET after[n \in 0..Cardinality(Requests)] ==
            IF n = 0 THEN Counted([b EXCEPT !.ctl = Observe(@)]) ELSE GrantOne(after[n - 1])
    IN  Armed(after[Cardinality(Requests)])

\* The bucket becomes what draining b leaves; those let through have their ticket, the
\* others are where the handler put them.
DrainTo(b, place) ==
    LET d       == Drain(b)
        granted == Waiting(b) \ Waiting(d)
    IN  /\ bucket' = d
        /\ stage' = [q \in Requests |-> IF q \in granted THEN "open" ELSE place[q]]

--------------------------------------------------------------------------------
(* What the runner does for one attempt. *)

IsObserver(r) == RunOf[r] = Observer

\* Somebody waits, or the gate is shut: the fast path is not taken.
MustQueue_EvenIfOpen(b) == ~CanAdmit(b.ctl)
MustQueue(b) == Waiting(b) # {} \/ ~CanAdmit(b.ctl)

TryAdmit(r) ==
    /\ stage[r] = "idle" /\ ~IsObserver(r)
    /\ LET seen == [NoteRunUsed(bucket, RunOf[r]) EXCEPT !.ctl = Observe(@)]
       IN  \/ /\ MustQueue(seen)
              /\ bucket' = seen
              /\ stage' = [stage EXCEPT ![r] = "missed"]
           \/ /\ ~MustQueue(seen)
              /\ bucket' = Grant(seen, r)
              /\ stage' = [stage EXCEPT ![r] = "open"]
    /\ UNCHANGED bounds

\* The main agent's requests are let through whatever the gate says.
ObserverRequest(r) ==
    /\ stage[r] = "idle" /\ IsObserver(r)
    /\ bucket' = Grant(bucket, r)
    /\ stage' = [stage EXCEPT ![r] = "open"]
    /\ UNCHANGED bounds

Admit(r) ==
    /\ stage[r] = "missed"
    /\ DrainTo(Enqueue(NoteRunUsed(bucket, RunOf[r]), r), [stage EXCEPT ![r] = "queued"])
    /\ UNCHANGED bounds

\* onAbort of a waiting request, which neither drains nor observes the bucket first.
Abort(r) ==
    /\ MayAbort /\ stage[r] = "queued"
    /\ bucket' = Armed(Counted(Dequeue(bucket, r)))
    /\ stage' = [stage EXCEPT ![r] = "idle"]
    /\ UNCHANGED bounds

\* The signal was aborted before the request was queued.
AbortEarly(r) ==
    /\ MayAbort /\ stage[r] = "missed"
    /\ stage' = [stage EXCEPT ![r] = "idle"]
    /\ UNCHANGED <<bucket, bounds>>

--------------------------------------------------------------------------------
(* What the ticket of an attempt is told: its first ending settles it. *)

Settle(r, ctl, place) ==
    /\ DrainTo([bucket EXCEPT !.ctl = ctl], [stage EXCEPT ![r] = place])
    /\ UNCHANGED bounds

Complete(r) == stage[r] = "open" /\ Settle(r, Succeeded(bucket.ctl, r), "settled")
\* A transient failure; or a retry that is no failure, or a permanent one.
Fail(r)     ==
    /\ stage[r] = "open"
    /\ \/ Settle(r, FailedTransient(bucket.ctl, r), "settled")
       \/ Settle(r, Ended(bucket.ctl, r), "settled")
Refuse(r)   ==
    /\ stage[r] = "open"
    /\ \E after \in RetryAfters : Settle(r, Throttled(bucket.ctl, r, after), "settled")

\* release(), after the ticket was settled or instead.
Release_Again(r) ==
    /\ stage[r] \in {"open", "settled"}
    /\ Settle(r, Ended(bucket.ctl, r), "idle")
Release(r) ==
    \/ /\ stage[r] = "open"
       /\ Settle(r, Ended(bucket.ctl, r), "idle")
    \/ /\ stage[r] = "settled"
       /\ stage' = [stage EXCEPT ![r] = "idle"]
       /\ UNCHANGED <<bucket, bounds>>

--------------------------------------------------------------------------------
(* Runs, and the clock. *)

\* At launch and on each retune.
SetRunBound(run, n) ==
    /\ bounds[run] # n
    /\ bounds' = [bounds EXCEPT ![run] = n]
    /\ bucket' = IF run \in bucket.used THEN Refresh(bucket, bounds') ELSE bucket
    /\ UNCHANGED stage

\* When the launch has settled.
ClearRunBound(run) ==
    /\ bounds[run] # 0
    /\ bounds' = [bounds EXCEPT ![run] = 0]
    /\ bucket' = IF run \in bucket.used
                 THEN Refresh([bucket EXCEPT !.used = @ \ {run}], bounds')
                 ELSE bucket
    /\ UNCHANGED stage

\* The timer of armCooldownWake fires.
Wake ==
    /\ bucket.wake = 0
    /\ DrainTo([bucket EXCEPT !.wake = Never], stage)
    /\ UNCHANGED bounds

Tick ==
    /\ bucket' = [bucket EXCEPT !.ctl = Aged(@), !.wake = Sooner(@)]
    /\ bucket' # bucket
    /\ UNCHANGED <<bounds, stage>>

Init ==
    /\ bucket = [ctl |-> NewController(BaseLimit), queues |-> <<>>, last |-> NoRun,
                 used |-> {}, wake |-> Never]
    /\ bounds = [run \in Runs |-> 0]
    /\ stage = [r \in Requests |-> "idle"]

Attempt(r) == TryAdmit(r) \/ ObserverRequest(r) \/ Admit(r) \/ Abort(r) \/ AbortEarly(r)
Ending(r)  == Complete(r) \/ Fail(r) \/ Refuse(r) \/ Release(r)
Run(run)   == ClearRunBound(run) \/ \E n \in Bounds : SetRunBound(run, n)

Next ==
    \/ \E r \in Requests : Attempt(r) \/ Ending(r)
    \/ \E run \in Runs : Run(run)
    \/ Wake \/ Tick

Spec == Init /\ [][Next]_vars

\* Every attempt ends and releases its ticket, what missed the fast path goes on to
\* queue, a due timer fires and time passes.  (An attempt moves on exactly by Ending,
\* Admit or AbortEarly; saying it of stage alone keeps ENABLED easy to evaluate.)
Moves(r, from) ==
    /\ stage[r] \in from
    /\ stage' \in {f \in [Requests -> Stages] : f[r] # stage[r]}
\* A due timer whose firing would change nothing need not fire.
WakeIsDue == bucket.wake = 0 /\ Drain([bucket EXCEPT !.wake = Never]) # bucket
Fairness ==
    /\ \A r \in Requests : WF_stage(Moves(r, {"open", "settled"})) /\ WF_stage(Moves(r, {"missed"}))
    /\ []<>~WakeIsDue \/ []<><<Wake>>_vars
    /\ WF_vars(Tick)

FairSpec == Spec /\ Fairness

--------------------------------------------------------------------------------
(* Properties. *)

\* Every variable keeps its type; in particular a cut, a fall to the proven level and a
\* lowered growth limit leave the cap at the floor or above, so that a probe can run.
TypeOK ==
    /\ bucket \in Buckets
    /\ bounds \in [Runs -> Bounds \cup {0}]
    /\ stage \in [Requests -> Stages]

Open == {r \in Requests : stage[r] = "open"}

\* However a ticket is settled, by its events, by release() or by both, the request is
\* counted out once, and the controller knows how many wait: the cap bounds the requests
\* that the provider really sees.
InFlightExact ==
    /\ bucket.ctl.inFlight = Cardinality(Open)
    /\ bucket.ctl.waiters = Cardinality(Waiting(bucket))

Before(b, r, s) ==
    \E n \in DOMAIN b.queues : \E i, j \in DOMAIN b.queues[n].waiting :
        i < j /\ b.queues[n].waiting[i] = r /\ b.queues[n].waiting[j] = s

\* While somebody goes on waiting, no request of a run is let through that had not queued,
\* and none before an older one of its own run.
NoOvertaking ==
    [][\A r \in Open' \ Open : \A s \in Waiting(bucket) \cap Waiting(bucket') :
          \/ IsObserver(r)
          \/ stage[r] # "idle" /\ (RunOf[r] = RunOf[s] => Before(bucket, r, s))]_vars

\* A burst of refusals counts once: when the cap has been lowered, by a refusal or with its
\* limit, the refusal of any request that was out already would not lower it again.
BurstCountsOnce ==
    [][bucket'.ctl.cap < bucket.ctl.cap =>
          \A r \in Open \cap Open' : Throttled(bucket'.ctl, r, 0).cap = bucket'.ctl.cap]_vars

\* Nothing drains the queues of its own accord: if somebody waits, a request is in flight
\* whose ending will drain them, or a timer is set that will.
WaitersAreWatched == Waiting(bucket) # {} => Open # {} \/ bucket.wake # Never

\* Through retunes, first uses and runs that end, the growth limit follows the bounds of
\* the runs that use the key, and the cap and the proven level stay within it.
CapWithinGrowth ==
    /\ bucket.ctl.cap \in Floor..bucket.ctl.growthLimit
    /\ bucket.ctl.lastGood <= bucket.ctl.growthLimit
    /\ bucket.ctl.growthLimit = Max({BaseLimit} \cup {bounds[run] : run \in bucket.used})

\* No run starves: a queued request is let through, whatever the other runs send and
\* however often the provider refuses.
WaitersAreServed ==
    \A r \in Requests : stage[r] = "queued" ~> stage[r] # "queued"

\* The timer fires once for a deadline: what it leaves behind is not due again at once.
WakeFiresOnce == [][Wake => bucket'.wake # 0]_vars
================================================================================
