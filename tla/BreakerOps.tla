----------------------------- MODULE BreakerOps -----------------------------
(***************************************************************************)
(* The operations of internal/circuitbreaker/breaker.go as functions on a  *)
(* breaker record, each executed in one piece: what a caller that has the  *)
(* breaker to itself observes.  Breaker.tla interleaves the same           *)
(* operations at the granularity of their atomic loads and stores.         *)
(*                                                                         *)
(* The clock is abstracted to the one thing the code asks about            *)
(* lastFailureTime: "zero" (never stored), "fresh" (at most timeout ago),  *)
(* "stale" (more than timeout ago).  failures saturates at                 *)
(* FailureThreshold: the code only ever tests failures >= threshold.       *)
(***************************************************************************)
EXTENDS Naturals

CONSTANTS FailureThreshold, SuccessThreshold, HalfOpenMax

\* New() replaces every non-positive setting by a positive default.
ASSUME BreakerConfig ==
    /\ FailureThreshold \in Nat \ {0}
    /\ SuccessThreshold \in Nat \ {0}
    /\ HalfOpenMax \in Nat \ {0}

States == {"closed", "open", "halfOpen"}
Stamps == {"zero", "fresh", "stale"}

Breakers == [state : States, failures : 0..FailureThreshold,
             successes : Nat, lastFailure : Stamps]

New == [state |-> "closed", failures |-> 0, successes |-> 0, lastFailure |-> "zero"]

\* failures after one more atomic add.
Bump(n) == IF n < FailureThreshold THEN n + 1 ELSE n

TimedOut(b) == b.lastFailure # "fresh"

\* Allow() as a verdict and as its effect on the breaker.
Allowed(b) ==
    \/ b.state = "closed"
    \/ b.state = "open" /\ TimedOut(b)
    \/ b.state = "halfOpen" /\ b.successes < HalfOpenMax

AfterAllow(b) ==
    IF b.state = "open" /\ TimedOut(b) THEN [b EXCEPT !.state = "halfOpen"] ELSE b

AfterSuccess(b) ==
    CASE b.state = "closed" -> [b EXCEPT !.failures = 0]
      [] b.state = "halfOpen" ->
            IF b.successes + 1 >= SuccessThreshold
              THEN [b EXCEPT !.successes = 0, !.state = "closed"]
              ELSE [b EXCEPT !.successes = b.successes + 1]
      [] b.state = "open" -> b

AfterFailure(b) ==
    LET tripped == \/ b.state = "halfOpen"
                   \/ b.state = "closed" /\ Bump(b.failures) >= FailureThreshold
    IN  [state |-> IF tripped THEN "open" ELSE b.state,
         failures |-> IF b.state = "closed" THEN Bump(b.failures) ELSE b.failures,
         successes |-> b.successes,
         lastFailure |-> IF tripped \/ b.state = "open" THEN "fresh" ELSE b.lastFailure]

\* More than timeout passes after the last stored failure.
AfterTimeout(b) == [b EXCEPT !.lastFailure = IF @ = "fresh" THEN "stale" ELSE @]
=============================================================================
