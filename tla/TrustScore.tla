----------------------------- MODULE TrustScore -----------------------------
(***************************************************************************)
(* internal/probes/trust.go: the trust score of a device, from what is     *)
(* known of it, and the cache of the scores.                               *)
(*                                                                         *)
(* Component scores are in hundredths, weights too, so that a total is in  *)
(* ten-thousandths.  What is known of a device (its evidence) is a record: *)
(* device, fingerprint, platform ("web", "tv" for the platforms that       *)
(* should have DRM, "odd" for an unknown one), maker, drm ("unknown",      *)
(* "none", or the number of valid systems), versions ("fine", "short os",  *)
(* "short app"), seen ("hour", "day", "week", "older" since first seen)    *)
(* and idle ("recent", "week", "month"), the probe counts, verified and    *)
(* curated.  Time passes in cache lifetimes.                               *)
(***************************************************************************)
EXTENDS Integers

CONSTANTS
    Evidence,          \* what CalculateTrustScore may be given
    TrustCallers,
    MaxCalculations    \* bound on the calculations

ASSUME TrustConfig ==
    \A e \in Evidence :
      /\ e.probes \in Nat /\ e.anomalies \in Nat /\ e.consistent \in Nat
      /\ e.verified \in BOOLEAN /\ e.curated \in BOOLEAN

VARIABLES
    knownDevices,      \* fingerprints registered
    scoreCache,        \* device -> {} or the one cached score
    calculation,       \* what each caller has in progress
    calculations

trustVars == <<knownDevices, scoreCache, calculation, calculations>>

Rated == {e.device : e \in Evidence}

-----------------------------------------------------------------------------
(* The components *)

EvaluateFingerprint(e, known) ==
    IF known THEN 80 ELSE IF e.platform = "odd" THEN 30 ELSE IF e.maker THEN 60 ELSE 50

\* Faulty variant: the anomalies are looked at last.
EvaluateConsistencyLate(e) ==
    IF e.probes = 0 THEN 50
    ELSE IF e.consistent >= e.probes THEN 100
    ELSE IF e.probes > 10 /\ e.consistent >= (e.probes * 8) \div 10 THEN 90
    ELSE IF e.probes > 5 /\ e.consistent >= (e.probes * 6) \div 10 THEN 70
    ELSE IF 2 * e.anomalies > e.probes THEN 20 ELSE 50

EvaluateConsistency(e) ==
    IF e.probes = 0 THEN 50
    ELSE IF 2 * e.anomalies > e.probes THEN 20
    ELSE IF 5 * e.anomalies > e.probes THEN 50
    ELSE IF e.consistent >= e.probes THEN 100
    ELSE IF e.probes > 10 /\ e.consistent >= (e.probes * 8) \div 10 THEN 90
    ELSE IF e.probes > 5 /\ e.consistent >= (e.probes * 6) \div 10 THEN 70
    ELSE 50

EvaluateDRMSupport(e) ==
    CASE e.drm = "unknown" -> 50
      [] e.drm = "none" -> IF e.platform = "web" THEN 70 ELSE 30
      [] e.drm = "0" -> 50 [] e.drm = "1" -> 80 [] OTHER -> 100

EvaluatePlatform(e) ==
    IF e.platform = "odd" THEN 20
    ELSE CASE e.versions = "short os" -> 60 [] e.versions = "short app" -> 70 [] OTHER -> 90

EvaluateBehavior(e) ==
    CASE e.seen = "hour" -> 30 [] e.seen = "day" -> 50 [] e.seen = "week" -> 70
      [] OTHER -> IF e.idle = "month" THEN 40 ELSE IF e.idle = "week" THEN 60
                  ELSE IF e.probes > 100 THEN 90 ELSE IF e.probes > 20 THEN 80
                  ELSE IF e.probes > 5 THEN 70 ELSE 50

\* The bonuses are components of their own with the full score.
Total(e, known) ==
    25 * EvaluateFingerprint(e, known) + 20 * EvaluateConsistency(e) + 15 * EvaluateDRMSupport(e)
      + 15 * EvaluatePlatform(e) + 15 * EvaluateBehavior(e)
      + (IF e.verified THEN 1000 ELSE 0) + (IF e.curated THEN 1000 ELSE 0)
Weight(e) == 90 + (IF e.verified THEN 10 ELSE 0) + (IF e.curated THEN 10 ELSE 0)

Levels == <<"unknown", "untrusted", "low", "medium", "high", "trusted", "verified">>

\* TrustLevelFromScore of total/weight, as an index of Levels.
TrustLevelFromScore(total, weight) ==
    IF total >= 90 * weight THEN 7 ELSE IF total >= 80 * weight THEN 6
    ELSE IF total >= 70 * weight THEN 5 ELSE IF total >= 50 * weight THEN 4
    ELSE IF total >= 30 * weight THEN 3 ELSE IF total >= 10 * weight THEN 2 ELSE 1

-----------------------------------------------------------------------------
(* The resolver *)

NotCalculating == [at |-> "idle"]

TrustInit ==
    /\ knownDevices = {}
    /\ scoreCache = [d \in Rated |-> {}]
    /\ calculation = [c \in TrustCallers |-> NotCalculating]
    /\ calculations = 0

\* CalculateTrustScore reads the known devices under the lock; the rest is the
\* caller's alone.  On a threshold the floating-point sum may fall to either side.
CalculateTrustScore(c, e) ==
    /\ calculation[c].at = "idle" /\ calculations < MaxCalculations
    /\ \E rounding \in {0, 1} :
         calculation' = [calculation EXCEPT ![c] =
           [at |-> "scored", evidence |-> e, known |-> e.fingerprint \in knownDevices,
            level |-> TrustLevelFromScore(Total(e, e.fingerprint \in knownDevices) - rounding, Weight(e))]]
    /\ calculations' = calculations + 1
    /\ UNCHANGED <<knownDevices, scoreCache>>

CacheScore(c) ==
    /\ calculation[c].at = "scored"
    /\ scoreCache' = [scoreCache EXCEPT ![calculation[c].evidence.device] =
                        {[evidence |-> calculation[c].evidence, known |-> calculation[c].known,
                          level |-> calculation[c].level, expired |-> FALSE]}]
    /\ calculation' = [calculation EXCEPT ![c] = NotCalculating]
    /\ UNCHANGED <<knownDevices, calculations>>

\* GetCachedScore, and GetTrustLevelForDevice with it, drops a score that has expired.
GetCachedScore(d) ==
    /\ \E s \in scoreCache[d] : s.expired
    /\ scoreCache' = [scoreCache EXCEPT ![d] = {}]
    /\ UNCHANGED <<knownDevices, calculation, calculations>>

InvalidateCache(d) ==
    /\ scoreCache' = [scoreCache EXCEPT ![d] = {}]
    /\ UNCHANGED <<knownDevices, calculation, calculations>>

CleanCache ==
    /\ scoreCache' = [d \in Rated |-> {s \in scoreCache[d] : ~s.expired}]
    /\ UNCHANGED <<knownDevices, calculation, calculations>>

RegisterKnownDevice(f) ==
    /\ knownDevices' = knownDevices \cup {f}
    /\ UNCHANGED <<scoreCache, calculation, calculations>>

\* The lifetime of a cached score ends.
ScoreExpires(d) ==
    /\ scoreCache' = [scoreCache EXCEPT ![d] = {[s EXCEPT !.expired = TRUE] : s \in @}]
    /\ UNCHANGED <<knownDevices, calculation, calculations>>

TrustNext ==
    \/ \E c \in TrustCallers : CacheScore(c) \/ \E e \in Evidence : CalculateTrustScore(c, e)
    \/ \E d \in Rated : GetCachedScore(d) \/ InvalidateCache(d) \/ ScoreExpires(d)
    \/ CleanCache
    \/ \E e \in Evidence : RegisterKnownDevice(e.fingerprint)

TrustSpec == TrustInit /\ [][TrustNext]_trustVars

-----------------------------------------------------------------------------
(* Properties *)

\* Bad signs cannot be bought back: with most of its probes anomalous a device is never
\* reported (GetTrustLevelForDevice) as "trusted", with more than a fifth never as
\* "verified", however well it does otherwise, however late it was registered and
\* however the bonuses shift the weights; a device of an unknown platform is never
\* "verified", and "trusted" only with a bonus.
BadSignsCapTrust ==
    \A d \in Rated : \A s \in scoreCache[d] :
      LET e == s.evidence
      IN  /\ 2 * e.anomalies > e.probes /\ e.probes > 0 => s.level < 6
          /\ 5 * e.anomalies > e.probes /\ e.probes > 0 => s.level < 7
          /\ e.platform = "odd" => s.level < (IF e.verified \/ e.curated THEN 7 ELSE 6)
=============================================================================
