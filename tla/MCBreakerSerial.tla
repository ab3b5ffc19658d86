-------------------------- MODULE MCBreakerSerial --------------------------
(***************************************************************************)
(* One goroutine implements SerialBreaker.  The abstract operation happens *)
(* at the first step of the code that changes an atomic or settles the     *)
(* verdict; until the remaining stores are done the mapping shows the      *)
(* values they are about to store.                                         *)
(***************************************************************************)
EXTENDS Breaker

only == CHOOSE g \in Goroutines : TRUE

Serial == INSTANCE SerialBreaker WITH
    breaker <- [
        state |-> CASE pc[only] \in {"load", "store"} -> target[only]
                    [] pc[only] = "resetSuccesses" -> "closed"
                    [] pc[only] = "stampTrip" -> "open"
                    [] OTHER -> state,
        failures |-> failures,
        successes |-> IF pc[only] = "resetSuccesses" THEN 0 ELSE successes,
        lastFailure |-> IF pc[only] = "stampTrip" THEN "fresh" ELSE lastFailure],
    inCall <- \/ pc[only] \in {"recheck", "fn", "success", "failure",
                              "resetFailures", "addSuccess", "addFailure", "stampOnly"}
              \/ pc[only] \in {"load", "store", "notify"} /\ target[only] = "halfOpen"

\* Used by one goroutine at a time, Do and the methods it calls behave like the
\* indivisible operations of SerialBreaker: every atomic step is a step of the
\* abstract breaker or changes nothing it shows.
ImplementsSerial == Serial!SerialSpec
=============================================================================
