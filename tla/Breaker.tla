------------------------------ MODULE Breaker ------------------------------
(***************************************************************************)
(* internal/circuitbreaker/breaker.go under concurrent use.  Every         *)
(* goroutine repeatedly runs Do(fn): Allow, then fn, then RecordSuccess or *)
(* RecordFailure.  The breaker has no lock around these: each atomic load, *)
(* store and add of the code is a step of its own, so the goroutines       *)
(* interleave between the load a decision is based on and the store that   *)
(* carries it out.                                                         *)
(***************************************************************************)
EXTENDS BreakerOps

CONSTANT Goroutines

VARIABLES
    state, failures, successes, lastFailure,  \* the atomics of the Breaker struct
    seen,    \* the state last reported through onStateChange
    up,      \* whether the protected function succeeds (environment)
    pc,      \* where each goroutine is in Do
    target,  \* newState of the toState call a goroutine is in
    old      \* oldState it has loaded there

shared == <<state, failures, successes, lastFailure>>
vars == <<shared, seen, up, pc, target, old>>

Labels == {"idle", "timeoutCheck", "maxCheck", "recheck", "fn", "success", "failure",
           "resetFailures", "addSuccess", "resetSuccesses",
           "addFailure", "stampTrip", "stampOnly", "load", "store", "notify"}

Init ==
    /\ state = "closed" /\ failures = 0 /\ successes = 0 /\ lastFailure = "zero"
    /\ seen = "closed"
    /\ up = TRUE
    /\ pc = [g \in Goroutines |-> "idle"]
    /\ target = [g \in Goroutines |-> "closed"]
    /\ old = [g \in Goroutines |-> "closed"]

Goto(g, label) == pc' = [pc EXCEPT ![g] = label]

\* Enter toState(s).
GotoToState(g, s) ==
    /\ Goto(g, "load")
    /\ target' = [target EXCEPT ![g] = s]

-----------------------------------------------------------------------------
(* Allow *)

\* Allow loads the state and picks the branch of its switch.
AllowLoad(g) ==
    /\ pc[g] = "idle"
    /\ Goto(g, CASE state = "closed" -> "fn"
                 [] state = "open" -> "timeoutCheck"
                 [] state = "halfOpen" -> "maxCheck")
    /\ UNCHANGED <<shared, seen, up, target, old>>

\* Faulty variant: the comparison with the timeout is the wrong way round.
AllowTimeoutCheckInverted(g) ==
    /\ pc[g] = "timeoutCheck"
    /\ IF lastFailure # "fresh"
         THEN Goto(g, "idle") /\ UNCHANGED target
         ELSE GotoToState(g, "halfOpen")
    /\ UNCHANGED <<shared, seen, up, old>>

\* StateOpen: reject within the timeout, else move to half-open.
AllowTimeoutCheck(g) ==
    /\ pc[g] = "timeoutCheck"
    /\ IF lastFailure = "fresh"
         THEN Goto(g, "idle") /\ UNCHANGED target
         ELSE GotoToState(g, "halfOpen")
    /\ UNCHANGED <<shared, seen, up, old>>

\* After toState(StateHalfOpen): another goroutine may have changed the state.
AllowRecheck(g) ==
    /\ pc[g] = "recheck"
    /\ Goto(g, IF state = "halfOpen" THEN "fn" ELSE "idle")
    /\ UNCHANGED <<shared, seen, up, target, old>>

\* StateHalfOpen: admit while successes < halfOpenMax.
AllowMaxCheck(g) ==
    /\ pc[g] = "maxCheck"
    /\ Goto(g, IF successes < HalfOpenMax THEN "fn" ELSE "idle")
    /\ UNCHANGED <<shared, seen, up, target, old>>

\* The protected function returns.
Fn(g) ==
    /\ pc[g] = "fn"
    /\ Goto(g, IF up THEN "success" ELSE "failure")
    /\ UNCHANGED <<shared, seen, up, target, old>>

-----------------------------------------------------------------------------
(* RecordSuccess *)

SuccessLoad(g) ==
    /\ pc[g] = "success"
    /\ Goto(g, CASE state = "closed" -> "resetFailures"
                 [] state = "halfOpen" -> "addSuccess"
                 [] state = "open" -> "idle")
    /\ UNCHANGED <<shared, seen, up, target, old>>

ResetFailures(g) ==
    /\ pc[g] = "resetFailures"
    /\ failures' = 0
    /\ Goto(g, "idle")
    /\ UNCHANGED <<state, successes, lastFailure, seen, up, target, old>>

\* Faulty variant: > for >=.
AddSuccessOffByOne(g) ==
    /\ pc[g] = "addSuccess"
    /\ successes' = successes + 1
    /\ Goto(g, IF successes' > SuccessThreshold THEN "resetSuccesses" ELSE "idle")
    /\ UNCHANGED <<state, failures, lastFailure, seen, up, target, old>>

AddSuccess(g) ==
    /\ pc[g] = "addSuccess"
    /\ successes' = successes + 1
    /\ Goto(g, IF successes' >= SuccessThreshold THEN "resetSuccesses" ELSE "idle")
    /\ UNCHANGED <<state, failures, lastFailure, seen, up, target, old>>

\* Faulty variant: closes without resetting the count.
ResetSuccessesForgotten(g) ==
    /\ pc[g] = "resetSuccesses"
    /\ GotoToState(g, "closed")
    /\ UNCHANGED <<shared, seen, up, old>>

ResetSuccesses(g) ==
    /\ pc[g] = "resetSuccesses"
    /\ successes' = 0
    /\ GotoToState(g, "closed")
    /\ UNCHANGED <<state, failures, lastFailure, seen, up, old>>

-----------------------------------------------------------------------------
(* RecordFailure *)

FailureLoad(g) ==
    /\ pc[g] = "failure"
    /\ Goto(g, CASE state = "closed" -> "addFailure"
                 [] state = "halfOpen" -> "stampTrip"
                 [] state = "open" -> "stampOnly")
    /\ UNCHANGED <<shared, seen, up, target, old>>

AddFailure(g) ==
    /\ pc[g] = "addFailure"
    /\ failures' = Bump(failures)
    /\ Goto(g, IF failures' >= FailureThreshold THEN "stampTrip" ELSE "idle")
    /\ UNCHANGED <<state, successes, lastFailure, seen, up, target, old>>

\* Faulty variant: trips without storing lastFailureTime first.
StampTripForgotten(g) ==
    /\ pc[g] = "stampTrip"
    /\ GotoToState(g, "open")
    /\ UNCHANGED <<shared, seen, up, old>>

\* lastFailureTime := now, then toState(StateOpen).
StampTrip(g) ==
    /\ pc[g] = "stampTrip"
    /\ lastFailure' = "fresh"
    /\ GotoToState(g, "open")
    /\ UNCHANGED <<state, failures, successes, seen, up, old>>

\* A failure recorded while already open only renews lastFailureTime.
StampOnly(g) ==
    /\ pc[g] = "stampOnly"
    /\ lastFailure' = "fresh"
    /\ Goto(g, "idle")
    /\ UNCHANGED <<state, failures, successes, seen, up, target, old>>

-----------------------------------------------------------------------------
(* toState *)

\* toState returns and its locals go out of scope.  Only Allow goes on after
\* it, to re-check the state.
Return(g) ==
    /\ Goto(g, IF target[g] = "halfOpen" THEN "recheck" ELSE "idle")
    /\ target' = [target EXCEPT ![g] = "closed"]
    /\ old' = [old EXCEPT ![g] = "closed"]

ToStateLoad(g) ==
    /\ pc[g] = "load"
    /\ old' = [old EXCEPT ![g] = state]
    /\ Goto(g, "store")
    /\ UNCHANGED <<shared, seen, up, target>>

\* Faulty variant: the handler is not called.
ToStateStoreSilent(g) ==
    /\ pc[g] = "store"
    /\ state' = target[g]
    /\ Return(g)
    /\ UNCHANGED <<failures, successes, lastFailure, seen, up>>

ToStateStore(g) ==
    /\ pc[g] = "store"
    /\ state' = target[g]
    /\ IF old[g] # target[g]
         THEN Goto(g, "notify") /\ UNCHANGED <<target, old>>
         ELSE Return(g)
    /\ UNCHANGED <<failures, successes, lastFailure, seen, up>>

\* onStateChangeUnsafe: the registered handler learns of the new state.
Notify(g) ==
    /\ pc[g] = "notify"
    /\ seen' = target[g]
    /\ Return(g)
    /\ UNCHANGED <<shared, up>>

-----------------------------------------------------------------------------
(* Environment: time passes, the dependency goes down and comes back. *)

Tick ==
    /\ lastFailure = "fresh"
    /\ lastFailure' = "stale"
    /\ UNCHANGED <<state, failures, successes, seen, up, pc, target, old>>

Flip ==
    /\ up' = ~up
    /\ UNCHANGED <<shared, seen, pc, target, old>>

Step(g) ==
    \/ AllowLoad(g) \/ AllowTimeoutCheck(g) \/ AllowRecheck(g) \/ AllowMaxCheck(g)
    \/ Fn(g)
    \/ SuccessLoad(g) \/ ResetFailures(g) \/ AddSuccess(g) \/ ResetSuccesses(g)
    \/ FailureLoad(g) \/ AddFailure(g) \/ StampTrip(g) \/ StampOnly(g)
    \/ ToStateLoad(g) \/ ToStateStore(g) \/ Notify(g)

Next == (\E g \in Goroutines : Step(g)) \/ Tick \/ Flip

Spec == Init /\ [][Next]_vars

\* Goroutines keep running and keep being given work, and time passes.
FairSpec == Spec /\ WF_vars(Tick) /\ \A g \in Goroutines : WF_vars(Step(g))
-----------------------------------------------------------------------------
(* Properties *)

\* Every variable stays in its range: the counters, which several goroutines add
\* to and reset without a lock, and each goroutine's place in Do and toState.
TypeOK ==
    /\ state \in States /\ seen \in States
    /\ failures \in 0..FailureThreshold
    /\ successes \in Nat
    /\ lastFailure \in Stamps
    /\ up \in BOOLEAN
    /\ pc \in [Goroutines -> Labels]
    /\ target \in [Goroutines -> States]
    /\ old \in [Goroutines -> States]

\* RecordSuccess resets the half-open success counter without a lock: however
\* the adds and resets of several goroutines interleave, a counter at or above
\* successThreshold is always on its way back to zero, never left there (a
\* count that stays >= halfOpenMax would make Allow reject every later call).
SuccessesSettle ==
    successes >= SuccessThreshold => \E g \in Goroutines : pc[g] = "resetSuccesses"

\* RecordFailure stamps lastFailureTime before it stores StateOpen: no goroutine
\* ever sees an open circuit whose lastFailureTime is the zero value, which
\* Allow would take for a timeout that elapsed long ago.
OpenIsStamped == state = "open" => lastFailure # "zero"

\* What makes OpenIsStamped inductive: a goroutine inside toState(StateOpen) has
\* stored lastFailureTime before, and nothing puts the zero value back.
TripIsStamped ==
    \A g \in Goroutines :
        pc[g] \in {"load", "store", "notify"} /\ target[g] = "open" => lastFailure # "zero"

\* A dependency that stays healthy ends up behind a closed circuit: whatever
\* races happened before, Allow and RecordSuccess bring the breaker back.
Recovers == <>[]up => <>[](state = "closed")

\* One goroutine: the handler registered with StateChangeHandler is never left
\* with a stale view of the state once toState has returned.
ReportsState ==
    (\A g \in Goroutines : pc[g] # "notify") => seen = state
=============================================================================
