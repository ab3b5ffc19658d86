----------------------------- MODULE LoginGuard -----------------------------
(***************************************************************************)
(* Login of internal/api/auth.go against the BruteForceProtector of        *)
(* internal/api/auth/ratelimit.go.  A login request checks IsLocked,       *)
(* verifies the password without holding the protector's lock, then        *)
(* records the outcome for its client address; concurrent requests and the *)
(* cleanup loop get in between.                                            *)
(*                                                                         *)
(* LockedUntil is the number of clock ticks the lockout still lasts; the   *)
(* lockout is a fixed LockTicks.  Attempts saturates at MaxAttempts, the   *)
(* only value it is compared with once it is that high.                    *)
(***************************************************************************)
EXTENDS Naturals

CONSTANTS Logins, Addresses, MaxAttempts, LockTicks

ASSUME GuardConfig == MaxAttempts \in Nat \ {0} /\ LockTicks \in Nat \ {0}

VARIABLES
    failures,  \* p.failures by address: attempts, lock ("never", "set"), left, old
    login,     \* each request: its step and its client address
    failRun    \* failed passwords recorded since the record was clear or locked (history)

vars == <<failures, login, failRun>>

NoRecord == [exists |-> FALSE, attempts |-> 0, locked |-> FALSE, left |-> 0, old |-> FALSE]

Init ==
    /\ failures = [a \in Addresses |-> NoRecord]
    /\ login \in [Logins -> [at : {"idle"}, from : Addresses]]
    /\ failRun = [a \in Addresses |-> 0]

\* LockedUntil.After(now); LockedUntil.IsZero() is ~locked.
IsLocked(a) == failures[a].left > 0

-----------------------------------------------------------------------------
(* Login *)

\* A request from address a: 429 when it is locked out, else go on to the
\* password.  A malformed body or a database error ends it there as well.
CheckLock(l, a) ==
    /\ login[l].at = "idle"
    /\ ~IsLocked(a)
    /\ login' = [login EXCEPT ![l] = [at |-> "verify", from |-> a]]
    /\ UNCHANGED <<failures, failRun>>

Abort(l) ==
    /\ login[l].at = "verify"
    /\ login' = [login EXCEPT ![l].at = "idle"]
    /\ UNCHANGED <<failures, failRun>>

\* Faulty variant: > for >=.
AfterFailureOffByOne(f) ==
    LET n == IF f.attempts < MaxAttempts THEN f.attempts + 1 ELSE f.attempts
    IN  IF f.left > 0
          THEN f
          ELSE [exists |-> TRUE, attempts |-> n, old |-> FALSE,
                locked |-> f.locked \/ n > MaxAttempts,
                left |-> IF n > MaxAttempts THEN LockTicks ELSE 0]

\* Faulty variant: a failure during the lockout starts it over.
AfterFailureProlongs(f) ==
    LET n == IF f.attempts < MaxAttempts THEN f.attempts + 1 ELSE f.attempts
    IN  [exists |-> TRUE, attempts |-> n, old |-> FALSE,
         locked |-> f.locked \/ n >= MaxAttempts,
         left |-> IF n >= MaxAttempts THEN LockTicks ELSE 0]

\* RecordFailure's new record, for an unknown user or a wrong password.
AfterFailure(f) ==
    LET n == IF f.attempts < MaxAttempts THEN f.attempts + 1 ELSE f.attempts
    IN  IF f.left > 0
          THEN f
          ELSE [exists |-> TRUE, attempts |-> n, old |-> FALSE,
                locked |-> f.locked \/ n >= MaxAttempts,
                left |-> IF n >= MaxAttempts THEN LockTicks ELSE 0]

RecordFailure(l) ==
    LET a == login[l].from
    IN  /\ login[l].at = "verify"
        /\ failures' = [failures EXCEPT ![a] = AfterFailure(@)]
        /\ failRun' = [failRun EXCEPT ![a] = IF @ < MaxAttempts /\ ~IsLocked(a) THEN @ + 1 ELSE @]
        /\ login' = [login EXCEPT ![l].at = "idle"]

\* RecordSuccess deletes the record.
RecordSuccess(l) ==
    LET a == login[l].from
    IN  /\ login[l].at = "verify"
        /\ failures' = [failures EXCEPT ![a] = NoRecord]
        /\ failRun' = [failRun EXCEPT ![a] = 0]
        /\ login' = [login EXCEPT ![l].at = "idle"]

-----------------------------------------------------------------------------
(* The clock and the cleanup loop *)

\* A lockout that ends starts a new count of failures.
Tick ==
    /\ \E a \in Addresses : failures[a].left > 0
    /\ failures' = [a \in Addresses |->
                      [failures[a] EXCEPT !.left = IF @ > 0 THEN @ - 1 ELSE 0]]
    /\ failRun' = [a \in Addresses |-> IF failures[a].left = 1 THEN 0 ELSE failRun[a]]
    /\ UNCHANGED login

\* 24 hours pass since an address's last attempt.
Age(a) ==
    /\ failures[a].exists /\ ~failures[a].old /\ failures[a].left = 0
    /\ failures' = [failures EXCEPT ![a].old = TRUE]
    /\ UNCHANGED <<login, failRun>>

\* Faulty variant: records of lockouts that are over are kept.
ExpiredUnlockedOnly(f) == f.exists /\ ~f.locked /\ f.old

Expired(f) == f.exists /\ IF f.locked THEN f.left = 0 ELSE f.old

Cleanup ==
    /\ \E a \in Addresses : Expired(failures[a])
    /\ failures' = [a \in Addresses |-> IF Expired(failures[a]) THEN NoRecord ELSE failures[a]]
    /\ failRun' = [a \in Addresses |-> IF Expired(failures[a]) THEN 0 ELSE failRun[a]]
    /\ UNCHANGED login

Next ==
    \/ \E l \in Logins :
          \/ \E a \in Addresses : CheckLock(l, a)
          \/ Abort(l) \/ RecordFailure(l) \/ RecordSuccess(l)
    \/ Tick \/ Cleanup
    \/ \E a \in Addresses : Age(a)

Spec == Init /\ [][Next]_vars

\* Time passes and the cleanup loop runs.
FairSpec ==
    Spec /\ WF_vars(Tick) /\ WF_vars(Cleanup) /\ \A a \in Addresses : WF_vars(Age(a))

-----------------------------------------------------------------------------
(* Properties *)

Records == [exists : BOOLEAN, attempts : 0..MaxAttempts, locked : BOOLEAN,
            left : 0..LockTicks, old : BOOLEAN]

\* Every variable stays in its range: attempts never exceed MaxAttempts and a
\* lockout never lasts longer than lockoutDuration.
TypeOK ==
    /\ failures \in [Addresses -> Records]
    /\ login \in [Logins -> [at : {"idle", "verify"}, from : Addresses]]
    /\ failRun \in [Addresses -> 0..MaxAttempts]

\* Exhausted attempts and a lockout go together: no interleaving of concurrent
\* failures leaves an address with all its attempts used and no LockedUntil, nor
\* a lockout on an address that has attempts left (cleanup would then never
\* remove the record, or remove it too early).
LockMatchesAttempts ==
    \A a \in Addresses :
        /\ failures[a].attempts >= MaxAttempts <=> failures[a].locked
        /\ failures[a].left > 0 => failures[a].locked

\* What RecordFailure counted is what happened: MaxAttempts failures since the
\* count began are always answered by a lockout.
ExhaustedIsLocked ==
    \A a \in Addresses : failRun[a] >= MaxAttempts => IsLocked(a)

\* What makes ExhaustedIsLocked inductive: the record holds at least the failures
\* that the history counts.
CountsFailures == \A a \in Addresses : failRun[a] <= failures[a].attempts

\* Requests that were already past IsLocked when the lockout began neither
\* prolong it nor start it over.
LockoutNotProlonged ==
    [][\A a \in Addresses : IsLocked(a) => failures'[a].left <= failures[a].left]_vars

\* The map of failures does not grow for ever: an address nobody tries to log in
\* from any more is forgotten, whether it was ever locked out or not.
Forgotten ==
    \A a \in Addresses :
        <>[](\A l \in Logins : login[l].at = "idle" \/ login[l].from # a) =>
            <>[](~failures[a].exists)
=============================================================================
