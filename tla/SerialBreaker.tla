---------------------------- MODULE SerialBreaker ----------------------------
(***************************************************************************)
(* What the circuit breaker promises a caller: a call is either rejected   *)
(* without an effect or admitted, and its outcome is recorded, each in one *)
(* indivisible step.  Do() of breaker.go implements this specification as  *)
(* long as one goroutine at a time uses the breaker (see MCBreakerSerial). *)
(***************************************************************************)
EXTENDS BreakerOps

VARIABLES breaker, inCall

serialVars == <<breaker, inCall>>

SerialInit == breaker = New /\ inCall = FALSE

Admit ==
    /\ ~inCall
    /\ Allowed(breaker)
    /\ breaker' = AfterAllow(breaker)
    /\ inCall' = TRUE

Finish ==
    /\ inCall
    /\ breaker' \in {AfterSuccess(breaker), AfterFailure(breaker)}
    /\ inCall' = FALSE

Elapse ==
    /\ breaker' = AfterTimeout(breaker)
    /\ UNCHANGED inCall

SerialNext == Admit \/ Finish \/ Elapse

SerialSpec == SerialInit /\ [][SerialNext]_serialVars
=============================================================================
