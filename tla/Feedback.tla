------------------------------ MODULE Feedback ------------------------------
(***************************************************************************)
(* The playback feedback loop: FeedbackManager (internal/probes/           *)
(* feedback.go), the FeedbackIntegration around it                         *)
(* (feedback_integration.go) and the device handlers that feed both        *)
(* (internal/api/devices.go).                                              *)
(*                                                                         *)
(* Every playback outcome moves a device's trust adjustment; failures in a *)
(* row, or a high failure rate, start a goroutine that waits and then      *)
(* drops the device's capabilities so that it is probed again.  The        *)
(* manager's lock makes each of its methods atomic; the goroutines, the    *)
(* decay loop and the handlers call several of them one after the other.   *)
(*                                                                         *)
(* Trust is counted in integer units, and a decayed value is rounded       *)
(* towards zero (the code drops what is below 0.01).  The two streaks      *)
(* saturate at the threshold they are compared with.                       *)
(***************************************************************************)
EXTENDS Integers

CONSTANTS
    Devices, Workers,
    SuccessBonus, NetworkErrorPenalty, CodecErrorPenalty, DecodingFailedPenalty,
    RendererCrashPenalty, MaxTrust, MinTrust, SuccessStreakBonus,
    SuccessStreakThreshold, FailureWindowSize,
    RateSample,    \* playbacks before the failure rate counts
    MaxPlaybacks   \* bound on the playbacks of a device

ASSUME TrustAdjustmentConfig ==
    /\ {SuccessBonus, NetworkErrorPenalty, CodecErrorPenalty, DecodingFailedPenalty,
        RendererCrashPenalty, SuccessStreakBonus, MaxTrust, RateSample, MaxPlaybacks} \subseteq Nat
    /\ MinTrust \in Int /\ MinTrust <= 0
    /\ {SuccessStreakThreshold, FailureWindowSize} \subseteq Nat \ {0}

VARIABLES
    stats,   \* fm.stats
    cached,  \* the devices whose capabilities are in the CapabilityCache
    worker,  \* goroutines and handlers that re-probe or reset a device
    decay,   \* runDecay: the adjustments it has still to write back
    due      \* devices whose failures call for a re-probe that has not come (history)

vars == <<stats, cached, worker, decay, due>>

Outcomes == {"unknown", "success", "network_error", "codec_error", "decoding_failed",
             "renderer_crash", "unsupported_format", "timeout", "buffering"}

NoStats == [known |-> FALSE, total |-> 0, failed |-> 0, succRun |-> 0, failRun |-> 0,
            delta |-> 0, needsReProbe |-> FALSE]

Idle == [at |-> "idle", device |-> ""]
Nothing == [write |-> FALSE, delta |-> 0]

Init ==
    /\ stats = [d \in Devices |-> NoStats]
    /\ cached = {}
    /\ worker = [w \in Workers |-> Idle]
    /\ decay = [d \in Devices |-> Nothing]
    /\ due = {}

-----------------------------------------------------------------------------
(* recordFeedback, under fm.mu *)

\* calculateTrustDeltaFromConfig
CalculateTrustDelta(outcome) ==
    CASE outcome = "success" -> SuccessBonus
      [] outcome \in {"network_error", "timeout"} -> -NetworkErrorPenalty
      [] outcome \in {"codec_error", "unsupported_format"} -> -CodecErrorPenalty
      [] outcome = "decoding_failed" -> -DecodingFailedPenalty
      [] outcome = "renderer_crash" -> -RendererCrashPenalty
      [] outcome = "buffering" -> -(NetworkErrorPenalty \div 2)
      [] OTHER -> 0

Clamp(x) == IF x > MaxTrust THEN MaxTrust ELSE IF x < MinTrust THEN MinTrust ELSE x

Bump(n, limit) == IF n < limit THEN n + 1 ELSE n

\* Faulty variant: a failure leaves the streak of successes.
StreaksKept(s, outcome, tagged) ==
    CASE tagged /\ outcome = "success" ->
           [s EXCEPT !.succRun = Bump(@, SuccessStreakThreshold), !.failRun = 0]
      [] tagged /\ outcome # "success" ->
           [s EXCEPT !.failRun = Bump(@, FailureWindowSize), !.failed = @ + 1]
      [] OTHER -> s

\* Successes, failures and streaks are counted only for feedback that names its
\* video or audio codec (tagged).
Streaks(s, outcome, tagged) ==
    CASE tagged /\ outcome = "success" ->
           [s EXCEPT !.succRun = Bump(@, SuccessStreakThreshold), !.failRun = 0]
      [] tagged /\ outcome # "success" ->
           [s EXCEPT !.failRun = Bump(@, FailureWindowSize), !.succRun = 0, !.failed = @ + 1]
      [] OTHER -> s

\* updateStats, on an existing or a new entry of fm.stats.
UpdateStats(s, outcome, tagged) ==
    LET n == Streaks([s EXCEPT !.known = TRUE, !.total = @ + 1], outcome, tagged)
        moved == Clamp(s.delta + CalculateTrustDelta(outcome))
    IN  [n EXCEPT !.delta = IF n.succRun >= SuccessStreakThreshold
                              THEN Clamp(moved + SuccessStreakBonus)
                              ELSE moved]

\* Faulty variant: > for >= in the first test.
ShouldReProbeLate(s) ==
    \/ s.failRun > FailureWindowSize
    \/ s.total >= RateSample /\ 2 * s.failed > s.total

ShouldReProbe(s) ==
    \/ s.failRun >= FailureWindowSize
    \/ s.total >= RateSample /\ 2 * s.failed > s.total

\* A feedback request.  onReProbeRequired runs in a goroutine of its own (one
\* of Workers must be free).  onTrustChange only drops the cached trust score.
PlaybackFeedback(d, outcome, tagged) ==
    LET s == UpdateStats(stats[d], outcome, tagged)
    IN  /\ stats[d].total < MaxPlaybacks
        /\ stats' = [stats EXCEPT ![d] = [s EXCEPT !.needsReProbe = @ \/ ShouldReProbe(s)]]
        /\ IF ShouldReProbe(s)
             THEN \E w \in Workers :
                     /\ worker[w].at = "idle"
                     /\ worker' = [worker EXCEPT ![w] = [at |-> "required", device |-> d]]
             ELSE UNCHANGED worker
        /\ due' = IF s.failRun >= FailureWindowSize /\ d \in cached THEN due \union {d} ELSE due
        /\ UNCHANGED <<cached, decay>>

-----------------------------------------------------------------------------
(* Re-probing and resetting a device *)

Goto(w, label) == worker' = [worker EXCEPT ![w].at = label]
Return(w) == worker' = [worker EXCEPT ![w] = Idle]

Start(w, d, label) ==
    /\ worker[w].at = "idle"
    /\ worker' = [worker EXCEPT ![w] = [at |-> label, device |-> d]]

\* handleReProbeRequired: a device that is not cached has nothing to drop.
ReProbeRequired(w) ==
    /\ worker[w].at = "required"
    /\ IF worker[w].device \in cached THEN Goto(w, "timer") ELSE Return(w)
    /\ UNCHANGED <<stats, cached, decay, due>>

\* cache.Delete, the first half of triggerReProbe once its timer fires, and of
\* handleReProbeDevice.
DropCapabilities(w) ==
    /\ worker[w].at \in {"timer", "manual"}
    /\ cached' = cached \ {worker[w].device}
    /\ due' = due \ {worker[w].device}
    /\ Goto(w, "reset")
    /\ UNCHANGED <<stats, decay>>

\* Faulty variant: the flag is cleared, the streak is not.
AfterResetFlagOnly(s) == [s EXCEPT !.delta = 0, !.needsReProbe = FALSE]

\* ResetTrustAdjustment
AfterReset(s) ==
    [s EXCEPT !.delta = 0, !.succRun = 0, !.failRun = 0, !.needsReProbe = FALSE]

ResetTrustAdjustment(w) ==
    /\ worker[w].at = "reset"
    /\ stats' = [stats EXCEPT ![worker[w].device] = AfterReset(@)]
    /\ Return(w)
    /\ UNCHANGED <<cached, decay, due>>

\* handleReProbeDevice: only for a device that is cached.
ReProbeDevice(w, d) ==
    /\ d \in cached
    /\ Start(w, d, "manual")
    /\ UNCHANGED <<stats, cached, decay, due>>

\* ResetDeviceTrust: ClearDeviceData, then the capabilities.
ResetDeviceTrust(w, d) ==
    /\ Start(w, d, "clear")
    /\ stats' = [stats EXCEPT ![d] = NoStats]
    /\ UNCHANGED <<cached, decay, due>>

ClearCapabilities(w) ==
    /\ worker[w].at = "clear"
    /\ cached' = cached \ {worker[w].device}
    /\ due' = due \ {worker[w].device}
    /\ Return(w)
    /\ UNCHANGED <<stats, decay>>

-----------------------------------------------------------------------------
(* The decay loop *)

\* Ten per cent nearer to zero, rounded towards it.
Decayed(x) == IF x >= 0 THEN (9 * x) \div 10 ELSE -((9 * (-x)) \div 10)

\* GetAllStats: a copy of every adjustment; those that are not zero are written
\* back one by one, decayed.
DecaySnapshot ==
    /\ \A d \in Devices : ~decay[d].write
    /\ \E d \in Devices : stats[d].delta # 0
    /\ decay' = [d \in Devices |->
                   IF stats[d].delta # 0
                     THEN [write |-> TRUE, delta |-> Decayed(stats[d].delta)]
                     ELSE Nothing]
    /\ UNCHANGED <<stats, cached, worker, due>>

\* Faulty variant: writes to a device that was cleared.
SetTrustDeltaUnchecked(d) ==
    /\ decay[d].write
    /\ stats' = [stats EXCEPT ![d].delta = decay[d].delta]
    /\ decay' = [decay EXCEPT ![d] = Nothing]
    /\ UNCHANGED <<cached, worker, due>>

\* setTrustDelta: a device that was cleared in the meantime is left alone.
SetTrustDelta(d) ==
    /\ decay[d].write
    /\ stats' = [stats EXCEPT ![d].delta = IF stats[d].known THEN decay[d].delta ELSE @]
    /\ decay' = [decay EXCEPT ![d] = Nothing]
    /\ UNCHANGED <<cached, worker, due>>

-----------------------------------------------------------------------------
(* The capability cache, seen from here *)

\* handleProbeReport: cache.Set.
ProbeReport(d) ==
    /\ d \notin cached
    /\ cached' = cached \union {d}
    /\ UNCHANGED <<stats, worker, decay, due>>

\* An entry expires or is deleted by an administrator.
CacheDrops(d) ==
    /\ d \in cached
    /\ cached' = cached \ {d}
    /\ due' = due \ {d}
    /\ UNCHANGED <<stats, worker, decay>>

Work(w) ==
    ReProbeRequired(w) \/ DropCapabilities(w) \/ ResetTrustAdjustment(w) \/ ClearCapabilities(w)

Next ==
    \/ \E d \in Devices :
          \/ \E o \in Outcomes, tagged \in BOOLEAN : PlaybackFeedback(d, o, tagged)
          \/ \E w \in Workers : ReProbeDevice(w, d) \/ ResetDeviceTrust(w, d)
          \/ SetTrustDelta(d) \/ ProbeReport(d) \/ CacheDrops(d)
    \/ \E w \in Workers : Work(w)
    \/ DecaySnapshot

Spec == Init /\ [][Next]_vars

\* Goroutines run, timers fire and handlers return.
FairSpec == Spec /\ \A w \in Workers : WF_vars(Work(w))

-----------------------------------------------------------------------------
(* Properties *)

Stats == [known : BOOLEAN, total : Nat, failed : Nat, succRun : 0..SuccessStreakThreshold,
          failRun : 0..FailureWindowSize, delta : MinTrust..MaxTrust, needsReProbe : BOOLEAN]

Labels == {"required", "timer", "manual", "reset", "clear"}
WorkerStates == [at : {"idle"}, device : {""}] \union [at : Labels, device : Devices]
DecayWrites == [write : BOOLEAN, delta : MinTrust..MaxTrust]

\* The adjustment stays within the configured bounds, whatever the decay loop
\* writes back late, and only feedback creates the statistics of a device.
TypeOK ==
    /\ stats \in [Devices -> Stats]
    /\ cached \subseteq Devices
    /\ worker \in [Workers -> WorkerStates]
    /\ decay \in [Devices -> DecayWrites]
    /\ due \subseteq Devices

\* A device with FailureWindowSize failures in a row carries the re-probe flag:
\* no re-probe, reset or decay that gets in between clears one without the other.
RepeatedFailuresFlagged ==
    \A d \in Devices : stats[d].failRun >= FailureWindowSize => stats[d].needsReProbe

\* A device without statistics has no adjustment: a decay that was computed
\* before ClearDeviceData does not bring the old one back.
ClearedStaysClear == \A d \in Devices : ~stats[d].known => stats[d] = NoStats

\* A playback that failed never raises the trust in the device, even at the end
\* of a streak of successes, where recordFeedback adds the streak's bonus.
FailureNeverRaisesTrust ==
    [][\A d \in Devices :
          stats'[d].failed > stats[d].failed => stats'[d].delta <= stats[d].delta]_vars

\* The re-probe comes: a cached device that has failed FailureWindowSize times
\* in a row loses its capabilities, through the goroutine and its timer, however
\* often it is reset, cleared or re-probed by hand in the meantime.
ReProbeHappens == \A d \in Devices : d \in due ~> d \notin due
=============================================================================
