----------------------------- MODULE RateLimiter -----------------------------
(***************************************************************************)
(* The sliding-window rate limiter of internal/api/router.go, which guards *)
(* the probe endpoints.  Time is discrete; requests of a client address    *)
(* arrive at any rate, the clean-up at any time.  Both filter every time   *)
(* they keep, so the order of the times does not matter: a request is its  *)
(* number and its time.                                                    *)
(***************************************************************************)
EXTENDS Integers, FiniteSets

CONSTANTS
    Addresses,
    Limit, Window,
    MaxNow             \* bound on the clock

ASSUME LimiterConfig == Limit \in Nat /\ Window \in Nat /\ MaxNow \in Nat

VARIABLES
    now,
    requests,          \* address -> its admitted requests that are kept
    admitted           \* address -> all its admitted requests (history)

limiterVars == <<now, requests, admitted>>

LimiterInit ==
    /\ now = 0
    /\ requests = [a \in Addresses |-> {}]
    /\ admitted = [a \in Addresses |-> {}]

WithinWindow(reqs) == {r \in reqs : r.time > now - Window}

\* Allow, as rateLimitMiddleware calls it.
Allow(a) ==
    LET valid == WithinWindow(requests[a])
        new == IF Cardinality(valid) < Limit
                 THEN {[number |-> Cardinality(admitted[a]) + 1, time |-> now]} ELSE {}
    IN  /\ requests' = [requests EXCEPT ![a] = valid \union new]
        /\ admitted' = [admitted EXCEPT ![a] = @ \union new]
        /\ UNCHANGED now

\* Faulty variant: an address is dropped once its first request has left the window.
CleanupByFirst ==
    /\ requests' = [a \in Addresses |->
                      IF WithinWindow(requests[a]) # requests[a] THEN {} ELSE requests[a]]
    /\ UNCHANGED <<now, admitted>>

\* cleanup, every five minutes
Cleanup ==
    /\ requests' = [a \in Addresses |-> WithinWindow(requests[a])]
    /\ UNCHANGED <<now, admitted>>

Tick ==
    /\ now < MaxNow
    /\ now' = now + 1
    /\ UNCHANGED <<requests, admitted>>

LimiterNext == (\E a \in Addresses : Allow(a)) \/ Cleanup \/ Tick

LimiterSpec == LimiterInit /\ [][LimiterNext]_limiterVars

-----------------------------------------------------------------------------
(* Properties *)

\* Whatever was pruned on the way, no window holds more than Limit admitted requests of
\* an address, wherever it begins, and what is kept of the current window is all that
\* was admitted in it: an address is refused for its own admitted requests alone, and
\* only that long.
WindowKept ==
    \A a \in Addresses :
      /\ \A t \in 0..MaxNow :
           Cardinality({r \in admitted[a] : t <= r.time /\ r.time < t + Window}) <= Limit
      /\ WithinWindow(requests[a]) = WithinWindow(admitted[a])
=============================================================================
