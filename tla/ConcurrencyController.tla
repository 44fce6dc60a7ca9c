------------------------- MODULE ConcurrencyController -------------------------
(***************************************************************************)
(* The adaptive bound of one provider key (engine/concurrency.ts): additive *)
(* increase, multiplicative decrease, a proven level to fall back to, and   *)
(* an epoch that makes a burst of refusals count once.                      *)
(*                                                                         *)
(* The controller is a value; each signal is an operator on it.  Time is    *)
(* relative: a deadline is the ticks left, a moment is its age, which grows *)
(* to IdleAfter and no further, since older makes no difference.  An epoch   *)
(* is only ever compared with the present one, so it is represented by the   *)
(* requests in flight that were admitted in it.  lastBad is left out:        *)
(* nothing depends on it.                                                   *)
(***************************************************************************)
EXTENDS Integers, FiniteSets, FiniteSetsExt

CONSTANTS
    D,              \* the initial cap, to which an idle key returns
    IncreaseAfter,  \* CONCURRENCY_INCREASE_AFTER_SUCCESSES
    IdleAfter       \* CONCURRENCY_IDLE_RESET_MS, in ticks

ASSUME ControllerAssumption ==
    D \in Nat \ {0} /\ IncreaseAfter \in Nat \ {0} /\ IdleAfter \in Nat \ {0}

Floor_None == 0
Floor == 1      \* CONCURRENCY_FLOOR: one probe always runs
Never  == -1    \* a moment or a deadline that is undefined
NoCap  == 0     \* an undefined lastGood

Controllers(Requests) ==
    [cap : Nat \ {0}, growthLimit : Nat \ {0}, current : SUBSET Requests, inFlight : Nat,
     waiters : Nat, streak : 0..IncreaseAfter, cooldown : Nat \cup {Never},
     requestAge : 0..IdleAfter \cup {Never}, throttledAge : 0..IdleAfter \cup {Never},
     lastGood : Nat]

NewController(limit) ==
    [cap |-> D, growthLimit |-> Max({D, limit}), current |-> {}, inFlight |-> 0,
     waiters |-> 0, streak |-> 0, cooldown |-> Never, requestAge |-> Never,
     throttledAge |-> Never, lastGood |-> NoCap]

\* canAdmit(): a free slot, and no Retry-After to wait for.
CoolingDown(c) == c.cooldown > 0
CanAdmit(c) == c.inFlight < c.cap /\ ~CoolingDown(c)

\* idleReset(), with which every signal begins.
Observe(c) ==
    IF c.requestAge = IdleAfter /\ c.inFlight = 0
    THEN [c EXCEPT !.cap = D, !.streak = 0, !.cooldown = Never, !.throttledAge = Never,
                   !.lastGood = NoCap, !.current = {}]
    ELSE c

Admitted(c, r) ==
    [c EXCEPT !.requestAge = 0, !.inFlight = @ + 1, !.current = @ \cup {r}]

\* What the four endings of a request have in common; ended() is no more than that.
Ended(c, r) ==
    LET o == Observe(c)
    IN  [o EXCEPT !.inFlight = Max({0, @ - 1}), !.current = @ \ {r}]

FailedTransient(c, r) == [Ended(c, r) EXCEPT !.streak = 0]

\* succeeded(): only a success of the present epoch counts; a full streak proves the
\* cap, and raises it when somebody waits and there is room to grow.
Succeeded(c, r) ==
    LET o      == Ended(c, r)
        streak == Min({o.streak + 1, IncreaseAfter})
        proven == [o EXCEPT !.streak = streak, !.lastGood = Max({@, o.cap})]
    IN  IF r \notin c.current THEN o
        ELSE IF streak < IncreaseAfter THEN [o EXCEPT !.streak = streak]
        ELSE IF o.waiters = 0 \/ o.cap >= o.growthLimit THEN proven
        ELSE [proven EXCEPT !.streak = 0, !.cap = Min({o.growthLimit, @ + 1})]

\* throttled(): only a refusal of the present epoch judges the cap, and ends the epoch;
\* above the proven level the cap falls back to it, otherwise to three quarters.
Throttled_KeepsEpoch(c, r, retryAfter) ==
    LET o == [Ended(c, r) EXCEPT !.streak = 0, !.throttledAge = 0,
                                 !.cooldown = IF retryAfter > 0 THEN Max({@, retryAfter}) ELSE @]
    IN  IF r \notin c.current THEN o
        ELSE IF o.lastGood # NoCap /\ o.cap > o.lastGood
        THEN [o EXCEPT !.cap = o.lastGood]
        ELSE [o EXCEPT !.cap = Max({Floor, (@ * 3) \div 4}), !.lastGood = NoCap]
Throttled(c, r, retryAfter) ==
    LET o == [Ended(c, r) EXCEPT !.streak = 0, !.throttledAge = 0,
                                 !.cooldown = IF retryAfter > 0 THEN Max({@, retryAfter}) ELSE @]
    IN  IF r \notin c.current THEN o
        ELSE IF o.lastGood # NoCap /\ o.cap > o.lastGood
        THEN [o EXCEPT !.current = {}, !.cap = o.lastGood]
        ELSE [o EXCEPT !.current = {}, !.cap = Max({Floor, (@ * 3) \div 4}), !.lastGood = NoCap]

Waiters(c, count) == [Observe(c) EXCEPT !.waiters = count]

\* setGrowthLimit(): a limit below the cap pulls it down and ends the epoch.
SetGrowthLimit(c, limit) ==
    LET o    == Observe(c)
        most == Max({D, limit})
    IN  IF o.cap <= most THEN [o EXCEPT !.growthLimit = most]
        ELSE [o EXCEPT !.growthLimit = most, !.cap = most, !.lastGood = Min({@, most}),
                       !.streak = 0, !.current = {}]

\* seed(): jump up to the target, unless a refusal is not yet IdleAfter old.
Seed(c, target) ==
    LET o    == Observe(c)
        next == Min({o.growthLimit, target})
    IN  IF next <= o.cap \/ o.throttledAge \in 0..(IdleAfter - 1) THEN o
        ELSE [o EXCEPT !.cap = next, !.lastGood = NoCap, !.streak = 0, !.current = {}]

\* One tick later.
Older(age) == IF age \in {Never, IdleAfter} THEN age ELSE age + 1
Sooner(left) == IF left > 0 THEN left - 1 ELSE left
Aged(c) == [c EXCEPT !.cooldown = Sooner(@), !.requestAge = Older(@), !.throttledAge = Older(@)]
================================================================================
