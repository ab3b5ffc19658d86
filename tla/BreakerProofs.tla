---------------------------- MODULE BreakerProofs ----------------------------
(***************************************************************************)
(* Safety of the lock-free breaker for any number of goroutines and any    *)
(* positive thresholds.                                                    *)
(***************************************************************************)
EXTENDS MCBreakerSerial, TLAPS

\* One more failure keeps the saturated counter in its range.
LEMMA BumpType ==
    ASSUME NEW n \in 0..FailureThreshold
    PROVE  Bump(n) \in 0..FailureThreshold
BY BreakerConfig DEF Bump

\* New() returns a breaker of the right types.
LEMMA TypeInit == Init => TypeOK
BY BreakerConfig DEF Init, TypeOK, States, Stamps, Labels

\* Every atomic step of a goroutine keeps the types.
LEMMA TypeStep ==
    ASSUME TypeOK, NEW g \in Goroutines, Step(g)
    PROVE  TypeOK'
<1> USE BreakerConfig DEF TypeOK, States, Stamps, Labels, Goto, GotoToState, shared
<1>1. CASE AllowLoad(g) BY <1>1 DEF AllowLoad
<1>2. CASE AllowTimeoutCheck(g) BY <1>2 DEF AllowTimeoutCheck
<1>3. CASE AllowRecheck(g) BY <1>3 DEF AllowRecheck
<1>4. CASE AllowMaxCheck(g) BY <1>4 DEF AllowMaxCheck
<1>5. CASE Fn(g) BY <1>5 DEF Fn
<1>6. CASE SuccessLoad(g) BY <1>6 DEF SuccessLoad
<1>7. CASE ResetFailures(g) BY <1>7 DEF ResetFailures
<1>8. CASE AddSuccess(g) BY <1>8 DEF AddSuccess
<1>9. CASE ResetSuccesses(g) BY <1>9 DEF ResetSuccesses
<1>10. CASE FailureLoad(g) BY <1>10 DEF FailureLoad
<1>11. CASE AddFailure(g) BY <1>11, BumpType DEF AddFailure
<1>12. CASE StampTrip(g) BY <1>12 DEF StampTrip
<1>13. CASE StampOnly(g) BY <1>13 DEF StampOnly
<1>14. CASE ToStateLoad(g) BY <1>14 DEF ToStateLoad
<1>15. CASE ToStateStore(g) BY <1>15 DEF ToStateStore, Return
<1>16. CASE Notify(g) BY <1>16 DEF Notify, Return
<1> QED
  BY <1>1, <1>2, <1>3, <1>4, <1>5, <1>6, <1>7, <1>8, <1>9, <1>10, <1>11, <1>12,
     <1>13, <1>14, <1>15, <1>16 DEF Step

\* So do the clock, the dependency and a stuttering step.
LEMMA TypeNext == TypeOK /\ [Next]_vars => TypeOK'
<1> SUFFICES ASSUME TypeOK, [Next]_vars PROVE TypeOK'
  OBVIOUS
<1>1. CASE \E g \in Goroutines : Step(g) BY <1>1, TypeStep
<1>2. CASE Tick BY <1>2 DEF Tick, TypeOK, Stamps
<1>3. CASE Flip BY <1>3 DEF Flip, TypeOK, shared
<1>4. CASE UNCHANGED vars BY <1>4 DEF TypeOK, vars, shared
<1> QED BY <1>1, <1>2, <1>3, <1>4 DEF Next

\* The breaker's atomics and every goroutine's position and locals keep their
\* types, whatever the interleaving.
THEOREM TypeCorrect == Spec => []TypeOK
<1> QED BY TypeInit, TypeNext, PTL DEF Spec

-----------------------------------------------------------------------------

\* Every atomic step preserves SuccessesSettle: only AddSuccess raises the
\* counter, and the goroutine that takes it to the threshold goes on to reset it;
\* only a goroutine that has reset it leaves "resetSuccesses".
LEMMA SettleStep ==
    ASSUME TypeOK, SuccessesSettle, NEW g \in Goroutines, Step(g)
    PROVE  SuccessesSettle'
<1> USE BreakerConfig DEF TypeOK, SuccessesSettle, Goto, GotoToState, shared
<1>1. CASE AddSuccess(g)
  <2>1. CASE successes' >= SuccessThreshold BY <1>1, <2>1 DEF AddSuccess
  <2>2. CASE ~(successes' >= SuccessThreshold) BY <2>2
  <2> QED BY <2>1, <2>2
<1>2. CASE ResetSuccesses(g) BY <1>2 DEF ResetSuccesses
<1>3. CASE successes' = successes /\ pc[g] # "resetSuccesses"
           /\ \A h \in Goroutines \ {g} : pc'[h] = pc[h]
  BY <1>3
<1>4. CASE AllowLoad(g) BY <1>3, <1>4 DEF AllowLoad
<1>5. CASE AllowTimeoutCheck(g) BY <1>3, <1>5 DEF AllowTimeoutCheck
<1>6. CASE AllowRecheck(g) BY <1>3, <1>6 DEF AllowRecheck
<1>7. CASE AllowMaxCheck(g) BY <1>3, <1>7 DEF AllowMaxCheck
<1>8. CASE Fn(g) BY <1>3, <1>8 DEF Fn
<1>9. CASE SuccessLoad(g) BY <1>3, <1>9 DEF SuccessLoad
<1>10. CASE ResetFailures(g) BY <1>3, <1>10 DEF ResetFailures
<1>11. CASE FailureLoad(g) BY <1>3, <1>11 DEF FailureLoad
<1>12. CASE AddFailure(g) BY <1>3, <1>12 DEF AddFailure
<1>13. CASE StampTrip(g) BY <1>3, <1>13 DEF StampTrip
<1>14. CASE StampOnly(g) BY <1>3, <1>14 DEF StampOnly
<1>15. CASE ToStateLoad(g) BY <1>3, <1>15 DEF ToStateLoad
<1>16. CASE ToStateStore(g) BY <1>3, <1>16 DEF ToStateStore, Return
<1>17. CASE Notify(g) BY <1>3, <1>17 DEF Notify, Return
<1> QED
  BY <1>1, <1>2, <1>4, <1>5, <1>6, <1>7, <1>8, <1>9, <1>10, <1>11, <1>12,
     <1>13, <1>14, <1>15, <1>16, <1>17 DEF Step

\* However RecordSuccess interleaves, the success counter is never left at or
\* above the threshold.
THEOREM SuccessesSettleAlways == Spec => []SuccessesSettle
<1>1. Init => SuccessesSettle
  BY BreakerConfig DEF Init, SuccessesSettle
<1>2. TypeOK /\ SuccessesSettle /\ [Next]_vars => SuccessesSettle'
  <2> SUFFICES ASSUME TypeOK, SuccessesSettle, [Next]_vars PROVE SuccessesSettle'
    OBVIOUS
  <2>1. CASE \E g \in Goroutines : Step(g) BY <2>1, SettleStep
  <2>2. CASE Tick BY <2>2 DEF Tick, SuccessesSettle
  <2>3. CASE Flip BY <2>3 DEF Flip, SuccessesSettle, shared
  <2>4. CASE UNCHANGED vars BY <2>4 DEF SuccessesSettle, vars, shared
  <2> QED BY <2>1, <2>2, <2>3, <2>4 DEF Next
<1> QED BY <1>1, <1>2, TypeCorrect, PTL DEF Spec

-----------------------------------------------------------------------------

\* Every atomic step preserves OpenIsStamped together with TripIsStamped.
LEMMA StampedStep ==
    ASSUME TypeOK, OpenIsStamped, TripIsStamped, NEW g \in Goroutines, Step(g)
    PROVE  OpenIsStamped' /\ TripIsStamped'
<1> USE DEF TypeOK, States, Stamps, OpenIsStamped, TripIsStamped, Goto, GotoToState, shared
<1>1. CASE AllowLoad(g) BY <1>1 DEF AllowLoad
<1>2. CASE AllowTimeoutCheck(g) BY <1>2 DEF AllowTimeoutCheck
<1>3. CASE AllowRecheck(g) BY <1>3 DEF AllowRecheck
<1>4. CASE AllowMaxCheck(g) BY <1>4 DEF AllowMaxCheck
<1>5. CASE Fn(g) BY <1>5 DEF Fn
<1>6. CASE SuccessLoad(g) BY <1>6 DEF SuccessLoad
<1>7. CASE ResetFailures(g) BY <1>7 DEF ResetFailures
<1>8. CASE AddSuccess(g) BY <1>8 DEF AddSuccess
<1>9. CASE ResetSuccesses(g) BY <1>9 DEF ResetSuccesses
<1>10. CASE FailureLoad(g) BY <1>10 DEF FailureLoad
<1>11. CASE AddFailure(g) BY <1>11 DEF AddFailure
<1>12. CASE StampTrip(g) BY <1>12 DEF StampTrip
<1>13. CASE StampOnly(g) BY <1>13 DEF StampOnly
<1>14. CASE ToStateLoad(g) BY <1>14 DEF ToStateLoad
<1>15. CASE ToStateStore(g) BY <1>15 DEF ToStateStore, Return
<1>16. CASE Notify(g) BY <1>16 DEF Notify, Return
<1> QED
  BY <1>1, <1>2, <1>3, <1>4, <1>5, <1>6, <1>7, <1>8, <1>9, <1>10, <1>11, <1>12,
     <1>13, <1>14, <1>15, <1>16 DEF Step

\* No goroutine ever finds the circuit open with an unset lastFailureTime.
THEOREM OpenIsStampedAlways == Spec => []OpenIsStamped
<1>1. Init => OpenIsStamped /\ TripIsStamped
  BY DEF Init, OpenIsStamped, TripIsStamped
<1>2. TypeOK /\ OpenIsStamped /\ TripIsStamped /\ [Next]_vars => OpenIsStamped' /\ TripIsStamped'
  <2> SUFFICES ASSUME TypeOK, OpenIsStamped, TripIsStamped, [Next]_vars
               PROVE  OpenIsStamped' /\ TripIsStamped'
    OBVIOUS
  <2> USE DEF OpenIsStamped, TripIsStamped
  <2>1. CASE \E g \in Goroutines : Step(g) BY <2>1, StampedStep
  <2>2. CASE Tick BY <2>2 DEF Tick
  <2>3. CASE Flip BY <2>3 DEF Flip, shared
  <2>4. CASE UNCHANGED vars BY <2>4 DEF vars, shared
  <2> QED BY <2>1, <2>2, <2>3, <2>4 DEF Next
<1> QED BY <1>1, <1>2, TypeCorrect, PTL DEF Spec

-----------------------------------------------------------------------------
(* One goroutine *)

\* A goroutine that has the breaker to itself finds the state where it left it: each
\* branch it has taken still agrees with the state it was taken on, and the state it
\* has not reported yet is the one it is about to report.
Alone(g) ==
    /\ pc[g] \in {"timeoutCheck", "stampOnly"} => state = "open"
    /\ pc[g] \in {"maxCheck", "recheck", "addSuccess", "resetSuccesses"} => state = "halfOpen"
    /\ pc[g] \in {"resetFailures", "addFailure"} => state = "closed"
    /\ pc[g] = "store" => old[g] = state
    /\ IF pc[g] = "notify" THEN state = target[g] ELSE seen = state

\* Every atomic step of the goroutine preserves Alone.
LEMMA AloneStep ==
    ASSUME NEW g, Goroutines = {g}, TypeOK, Alone(g), Step(g)
    PROVE  Alone(g)'
<1> USE DEF TypeOK, States, Alone, Goto, GotoToState, shared
<1>1. CASE AllowLoad(g) BY <1>1 DEF AllowLoad
<1>2. CASE AllowTimeoutCheck(g) BY <1>2 DEF AllowTimeoutCheck
<1>3. CASE AllowRecheck(g) BY <1>3 DEF AllowRecheck
<1>4. CASE AllowMaxCheck(g) BY <1>4 DEF AllowMaxCheck
<1>5. CASE Fn(g) BY <1>5 DEF Fn
<1>6. CASE SuccessLoad(g) BY <1>6 DEF SuccessLoad
<1>7. CASE ResetFailures(g) BY <1>7 DEF ResetFailures
<1>8. CASE AddSuccess(g) BY <1>8 DEF AddSuccess
<1>9. CASE ResetSuccesses(g) BY <1>9 DEF ResetSuccesses
<1>10. CASE FailureLoad(g) BY <1>10 DEF FailureLoad
<1>11. CASE AddFailure(g) BY <1>11 DEF AddFailure
<1>12. CASE StampTrip(g) BY <1>12 DEF StampTrip
<1>13. CASE StampOnly(g) BY <1>13 DEF StampOnly
<1>14. CASE ToStateLoad(g) BY <1>14 DEF ToStateLoad
<1>15. CASE ToStateStore(g) BY <1>15 DEF ToStateStore, Return
<1>16. CASE Notify(g) BY <1>16 DEF Notify, Return
<1> QED
  BY <1>1, <1>2, <1>3, <1>4, <1>5, <1>6, <1>7, <1>8, <1>9, <1>10, <1>11, <1>12,
     <1>13, <1>14, <1>15, <1>16 DEF Step

\* So it holds as long as the goroutine is the only one.
LEMMA AloneAlways ==
    ASSUME NEW g, Goroutines = {g}
    PROVE  Spec => [](TypeOK /\ Alone(g))
<1>1. Init => Alone(g)
  BY DEF Init, Alone
<1>2. TypeOK /\ Alone(g) /\ [Next]_vars => Alone(g)'
  <2> SUFFICES ASSUME TypeOK, Alone(g), [Next]_vars PROVE Alone(g)'
    OBVIOUS
  <2>1. CASE Step(g) BY <2>1, AloneStep
  <2>2. CASE Tick BY <2>2 DEF Tick, Alone
  <2>3. CASE Flip BY <2>3 DEF Flip, Alone, shared
  <2>4. CASE UNCHANGED vars BY <2>4 DEF Alone, vars, shared
  <2> QED BY <2>1, <2>2, <2>3, <2>4 DEF Next
<1> QED BY <1>1, <1>2, TypeCorrect, PTL DEF Spec

\* The handler a lone goroutine has registered always knows the state of the breaker
\* once toState has returned.
THEOREM ReportsStateAlways ==
    ASSUME NEW g, Goroutines = {g}
    PROVE  Spec => []ReportsState
<1>1. Alone(g) => ReportsState
  BY DEF Alone, ReportsState
<1> QED BY <1>1, AloneAlways, PTL

-----------------------------------------------------------------------------
(* The refinement of SerialBreaker *)

\* With one goroutine, the mapping is about that one.
LEMMA Only ==
    ASSUME NEW g, Goroutines = {g}
    PROVE  only = g
BY DEF only

\* Allow is one step of the abstract breaker: the one that settles the verdict.
LEMMA AllowImplements ==
    ASSUME NEW g, Goroutines = {g}, TypeOK, Alone(g),
           AllowLoad(g) \/ AllowTimeoutCheck(g) \/ AllowMaxCheck(g)
    PROVE  [Serial!SerialNext]_Serial!serialVars
<1> USE Only DEF TypeOK, States, Alone, Goto, GotoToState, shared, Serial!serialVars,
    Serial!SerialNext, Serial!Admit, Serial!Allowed, Serial!AfterAllow, Serial!TimedOut
<1>1. CASE AllowLoad(g) BY <1>1 DEF AllowLoad
<1>2. CASE AllowTimeoutCheck(g) BY <1>2 DEF AllowTimeoutCheck
<1>3. CASE AllowMaxCheck(g) BY <1>3 DEF AllowMaxCheck
<1> QED BY <1>1, <1>2, <1>3

\* RecordSuccess is one: its add or reset, or its return from an open circuit.
LEMMA SuccessImplements ==
    ASSUME NEW g, Goroutines = {g}, TypeOK, Alone(g),
           SuccessLoad(g) \/ ResetFailures(g) \/ AddSuccess(g)
    PROVE  [Serial!SerialNext]_Serial!serialVars
<1> USE Only DEF TypeOK, States, Alone, Goto, GotoToState, shared, Serial!serialVars,
    Serial!SerialNext, Serial!Finish, Serial!AfterSuccess
<1>1. CASE SuccessLoad(g) BY <1>1 DEF SuccessLoad
<1>2. CASE ResetFailures(g) BY <1>2 DEF ResetFailures
<1>3. CASE AddSuccess(g)
  <2>1. CASE successes + 1 >= SuccessThreshold BY <1>3, <2>1 DEF AddSuccess
  <2>2. CASE ~(successes + 1 >= SuccessThreshold) BY <1>3, <2>2 DEF AddSuccess
  <2> QED BY <2>1, <2>2
<1> QED BY <1>1, <1>2, <1>3

\* RecordFailure is one: its add or stamp, or the load that finds the circuit half-open.
LEMMA FailureImplements ==
    ASSUME NEW g, Goroutines = {g}, TypeOK, Alone(g),
           FailureLoad(g) \/ AddFailure(g) \/ StampOnly(g)
    PROVE  [Serial!SerialNext]_Serial!serialVars
<1> USE Only DEF TypeOK, States, Alone, Goto, GotoToState, shared, Serial!serialVars,
    Serial!SerialNext, Serial!Finish, Serial!AfterFailure, Serial!Bump, Bump
<1>1. CASE FailureLoad(g) BY <1>1 DEF FailureLoad
<1>2. CASE AddFailure(g) BY <1>2 DEF AddFailure
<1>3. CASE StampOnly(g) BY <1>3 DEF StampOnly
<1> QED BY <1>1, <1>2, <1>3

\* Every other atomic step only carries out what the mapping shows already.
LEMMA OtherStepsStutter ==
    ASSUME NEW g, Goroutines = {g}, TypeOK, Alone(g),
           \/ AllowRecheck(g) \/ Fn(g) \/ ResetSuccesses(g) \/ StampTrip(g)
           \/ ToStateLoad(g) \/ ToStateStore(g) \/ Notify(g)
    PROVE  [Serial!SerialNext]_Serial!serialVars
<1> USE Only DEF TypeOK, States, Alone, Goto, GotoToState, shared, Serial!serialVars
<1>1. CASE AllowRecheck(g) BY <1>1 DEF AllowRecheck
<1>2. CASE Fn(g) BY <1>2 DEF Fn
<1>3. CASE ResetSuccesses(g) BY <1>3 DEF ResetSuccesses
<1>4. CASE StampTrip(g) BY <1>4 DEF StampTrip
<1>5. CASE ToStateLoad(g) BY <1>5 DEF ToStateLoad
<1>6. CASE ToStateStore(g) BY <1>6 DEF ToStateStore, Return
<1>7. CASE Notify(g) BY <1>7 DEF Notify, Return
<1> QED BY <1>1, <1>2, <1>3, <1>4, <1>5, <1>6, <1>7

\* Time passes for the abstract breaker when it passes for the code, except between
\* the decision to trip and the stamp that follows.
LEMMA TickImplements ==
    ASSUME NEW g, Goroutines = {g}, TypeOK, Tick
    PROVE  [Serial!SerialNext]_Serial!serialVars
<1>1. CASE pc[g] = "stampTrip"
  BY <1>1, Only DEF Tick, Serial!serialVars
<1>2. CASE pc[g] # "stampTrip"
  BY <1>2, Only DEF Tick, Serial!SerialNext, Serial!Elapse, Serial!AfterTimeout
<1> QED BY <1>1, <1>2

\* Used by one goroutine at a time, with whatever thresholds, Do implements the
\* indivisible operations of SerialBreaker: a step of the code is a step of the
\* abstract breaker or changes nothing it shows.
THEOREM SerialRefinement ==
    ASSUME NEW g, Goroutines = {g}
    PROVE  Spec => ImplementsSerial
<1>1. Init => Serial!SerialInit
  BY Only DEF Init, Serial!SerialInit, Serial!New
<1>2. TypeOK /\ Alone(g) /\ [Next]_vars => [Serial!SerialNext]_Serial!serialVars
  <2> SUFFICES ASSUME TypeOK, Alone(g), [Next]_vars
               PROVE  [Serial!SerialNext]_Serial!serialVars
    OBVIOUS
  <2>1. CASE Step(g)
    BY <2>1, AllowImplements, SuccessImplements, FailureImplements, OtherStepsStutter DEF Step
  <2>2. CASE Tick BY <2>2, TickImplements
  <2>3. CASE Flip BY <2>3 DEF Flip, shared, Serial!serialVars
  <2>4. CASE UNCHANGED vars BY <2>4 DEF vars, shared, Serial!serialVars
  <2> QED BY <2>1, <2>2, <2>3, <2>4 DEF Next
<1> QED BY <1>1, <1>2, AloneAlways, PTL DEF Spec, ImplementsSerial, Serial!SerialSpec
=============================================================================
