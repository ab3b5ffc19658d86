--------------------------- MODULE DevicesProofs ----------------------------
(****************************************************************************)
(* Proofs about what the server believes of a device: the trust that        *)
(* playback feedback adjusts, the trust scores, the curated devices and     *)
(* the anomalies of what devices report.                                    *)
(****************************************************************************)
EXTENDS Feedback, TrustScore, CuratedDB, Validator, SlicesProofs, FiniteSetTheorems, TLAPS

-----------------------------------------------------------------------------
(* The playback feedback *)

\* The assumption, one constant at a time.
LEMMA Config ==
    /\ SuccessBonus \in Nat /\ NetworkErrorPenalty \in Nat /\ CodecErrorPenalty \in Nat
    /\ DecodingFailedPenalty \in Nat /\ RendererCrashPenalty \in Nat
    /\ SuccessStreakBonus \in Nat /\ MaxTrust \in Nat /\ RateSample \in Nat
    /\ MaxPlaybacks \in Nat /\ MinTrust \in Int /\ MinTrust <= 0
    /\ SuccessStreakThreshold \in Nat /\ SuccessStreakThreshold > 0
    /\ FailureWindowSize \in Nat /\ FailureWindowSize > 0
BY TrustAdjustmentConfig

\* What holds of the statistics of one device, and every write preserves.
Sound(s) ==
    /\ s \in Stats
    /\ s.failRun >= FailureWindowSize => s.needsReProbe
    /\ ~s.known => s = NoStats

\* The inductive invariant.
Inv == TypeOK /\ RepeatedFailuresFlagged /\ ClearedStaysClear

\* Inv is Sound for every device, and types for the rest.
LEMMA InvBySound ==
    Inv <=> /\ TypeOK
            /\ \A d \in Devices : Sound(stats[d])
BY DEF Inv, TypeOK, Sound, RepeatedFailuresFlagged, ClearedStaysClear

\* Every outcome moves the trust by an integer.
LEMMA DeltaType == \A o \in Outcomes : CalculateTrustDelta(o) \in Int
BY Config DEF CalculateTrustDelta, Outcomes

\* Only success moves it up.
LEMMA DeltaSign == \A o \in Outcomes : o # "success" => CalculateTrustDelta(o) <= 0
BY Config DEF CalculateTrustDelta, Outcomes

\* Clamp puts any number between the bounds.
LEMMA ClampType == \A x \in Int : Clamp(x) \in MinTrust..MaxTrust
BY Config DEF Clamp

\* A decayed adjustment is within the bounds the adjustment is within.
LEMMA DecayedType == \A x \in MinTrust..MaxTrust : Decayed(x) \in MinTrust..MaxTrust
BY Config DEF Decayed

\* A device without statistics is Sound.
LEMMA NoStatsSound == Sound(NoStats)
BY Config DEF Sound, NoStats, Stats

\* Assigning one field of the statistics keeps their type.
LEMMA SetField ==
    /\ \A s \in Stats, x \in BOOLEAN : [s EXCEPT !.known = x] \in Stats
    /\ \A s \in Stats, x \in Nat : [s EXCEPT !.total = x] \in Stats
    /\ \A s \in Stats, x \in Nat : [s EXCEPT !.failed = x] \in Stats
    /\ \A s \in Stats, x \in 0..SuccessStreakThreshold : [s EXCEPT !.succRun = x] \in Stats
    /\ \A s \in Stats, x \in 0..FailureWindowSize : [s EXCEPT !.failRun = x] \in Stats
    /\ \A s \in Stats, x \in MinTrust..MaxTrust : [s EXCEPT !.delta = x] \in Stats
    /\ \A s \in Stats, x \in BOOLEAN : [s EXCEPT !.needsReProbe = x] \in Stats
BY DEF Stats

\* ResetTrustAdjustment keeps Sound.
LEMMA ResetSound ==
    ASSUME NEW s, Sound(s)
    PROVE  Sound(AfterReset(s))
<1> DEFINE a == [s EXCEPT !.delta = 0]
           b == [a EXCEPT !.succRun = 0]
           c == [b EXCEPT !.failRun = 0]
<1>1. 0 \in MinTrust..MaxTrust /\ 0 \in 0..SuccessStreakThreshold /\ 0 \in 0..FailureWindowSize
    BY Config
<1>2. s \in Stats
    BY DEF Sound
<1>3. a \in Stats
    BY <1>1, <1>2, SetField
<1>4. b \in Stats
    BY <1>1, <1>3, SetField
<1>5. c \in Stats
    BY <1>1, <1>4, SetField
<1>6. [c EXCEPT !.needsReProbe = FALSE] \in Stats
    BY <1>5, SetField
<1>7. AfterReset(s) = [c EXCEPT !.needsReProbe = FALSE]
    BY DEF AfterReset
<1>8. AfterReset(s).failRun = 0 /\ AfterReset(s).known = s.known
    BY DEF Sound, AfterReset, Stats
<1>9. ~s.known => AfterReset(s) = NoStats
    <2> SUFFICES ASSUME s = NoStats PROVE AfterReset(s) = NoStats
        BY DEF Sound
    <2>1. a = NoStats
        BY DEF NoStats
    <2>2. b = NoStats
        BY <2>1 DEF NoStats
    <2>3. c = NoStats
        BY <2>2 DEF NoStats
    <2>4. [c EXCEPT !.needsReProbe = FALSE] = NoStats
        BY <2>3 DEF NoStats
    <2> QED BY <2>4, <1>7
<1> HIDE DEF c
<1> QED BY <1>6, <1>7, <1>8, <1>9, Config DEF Sound

\* Counting one more, up to a limit.
LEMMA BumpType == \A limit \in Nat : \A n \in 0..limit : Bump(n, limit) \in 0..limit
BY DEF Bump

\* The streaks stay within their limits and the counts are numbers.
LEMMA StreaksType ==
    ASSUME NEW s \in Stats, NEW o \in Outcomes, NEW tagged \in BOOLEAN
    PROVE  /\ Streaks(s, o, tagged) \in Stats
           /\ Streaks(s, o, tagged).known = s.known
<1>0. /\ Bump(s.succRun, SuccessStreakThreshold) \in 0..SuccessStreakThreshold
      /\ Bump(s.failRun, FailureWindowSize) \in 0..FailureWindowSize
      /\ s.failed + 1 \in Nat
      /\ 0 \in 0..SuccessStreakThreshold /\ 0 \in 0..FailureWindowSize
    BY BumpType, Config DEF Stats
<1>1. CASE tagged /\ o = "success"
    <2> DEFINE a == [s EXCEPT !.succRun = Bump(s.succRun, SuccessStreakThreshold)]
    <2>1. a \in Stats
        BY <1>0, SetField
    <2>2. [a EXCEPT !.failRun = 0] \in Stats
        BY <1>0, <2>1, SetField
    <2>3. Streaks(s, o, tagged) = [a EXCEPT !.failRun = 0]
        BY <1>1 DEF Streaks
    <2>4. [a EXCEPT !.failRun = 0].known = s.known
        BY DEF Stats
    <2> QED BY <2>2, <2>3, <2>4
<1>2. CASE tagged /\ o # "success"
    <2> DEFINE a == [s EXCEPT !.failRun = Bump(s.failRun, FailureWindowSize)]
               b == [a EXCEPT !.succRun = 0]
    <2>1. a \in Stats
        BY <1>0, SetField
    <2>2. b \in Stats
        BY <1>0, <2>1, SetField
    <2>3. [b EXCEPT !.failed = s.failed + 1] \in Stats
        BY <1>0, <2>2, SetField
    <2>4. Streaks(s, o, tagged) = [b EXCEPT !.failed = s.failed + 1]
        BY <1>2 DEF Streaks
    <2>5. [b EXCEPT !.failed = s.failed + 1].known = s.known
        BY DEF Stats
    <2> QED BY <2>3, <2>4, <2>5
<1>3. CASE ~tagged
    BY <1>3 DEF Streaks
<1> QED BY <1>1, <1>2, <1>3

\* updateStats keeps the type of the statistics.
LEMMA UpdateType ==
    ASSUME NEW s \in Stats, NEW o \in Outcomes, NEW tagged \in BOOLEAN
    PROVE  UpdateStats(s, o, tagged) \in Stats /\ UpdateStats(s, o, tagged).known
<1> DEFINE a == [s EXCEPT !.known = TRUE]
           base == [s EXCEPT !.known = TRUE, !.total = @ + 1]
           n == Streaks(base, o, tagged)
           shifted == Clamp(s.delta + CalculateTrustDelta(o))
<1>0. a \in Stats
    BY SetField
<1>7. s.total + 1 \in Nat
    BY DEF Stats
<1>1. base \in Stats /\ base.known
    <2>1. base = [a EXCEPT !.total = s.total + 1]
        OBVIOUS
    <2>2. base.known
        BY DEF Stats
    <2> QED BY <1>0, <1>7, <2>1, <2>2, SetField
<1>2. n \in Stats /\ n.known
    BY <1>1, StreaksType
<1>3. shifted \in MinTrust..MaxTrust
    BY DeltaType, ClampType DEF Stats
<1>4. Clamp(shifted + SuccessStreakBonus) \in MinTrust..MaxTrust
    BY <1>3, ClampType, Config
<1>6. UpdateStats(s, o, tagged) =
        [n EXCEPT !.delta = IF n.succRun >= SuccessStreakThreshold
                              THEN Clamp(shifted + SuccessStreakBonus) ELSE shifted]
    BY DEF UpdateStats
<1> HIDE DEF n, shifted
<1>5. \A x \in MinTrust..MaxTrust : [n EXCEPT !.delta = x] \in Stats /\ [n EXCEPT !.delta = x].known
    BY <1>2 DEF Stats
<1> QED BY <1>3, <1>4, <1>5, <1>6

\* What recordFeedback writes is Sound: the flag is set with the streak.
LEMMA FeedbackSound ==
    ASSUME NEW s, Sound(s), NEW o \in Outcomes, NEW tagged \in BOOLEAN
    PROVE  LET u == UpdateStats(s, o, tagged)
           IN  Sound([u EXCEPT !.needsReProbe = @ \/ ShouldReProbe(u)])
<1> DEFINE u == UpdateStats(s, o, tagged)
<1>1. u \in Stats /\ u.known
    BY UpdateType DEF Sound
<1> HIDE DEF u
<1> DEFINE flag == u.needsReProbe \/ ShouldReProbe(u)
           v == [u EXCEPT !.needsReProbe = flag]
<1>2. flag \in BOOLEAN /\ (u.failRun >= FailureWindowSize => flag)
    BY <1>1 DEF ShouldReProbe, Stats
<1> HIDE DEF flag
<1>3. v \in Stats /\ v.known /\ v.failRun = u.failRun /\ v.needsReProbe = flag
    BY <1>1, <1>2 DEF Stats
<1>4. Sound(v)
    BY <1>2, <1>3 DEF Sound
<1> QED BY <1>4 DEF u, flag

\* Workers are started, move on and return within their type.
LEMMA WorkerType ==
    /\ Idle \in WorkerStates
    /\ \A l \in Labels, d \in Devices : [at |-> l, device |-> d] \in WorkerStates
    /\ \A x \in WorkerStates, l \in Labels :
          x.at # "idle" => x.device \in Devices /\ [x EXCEPT !.at = l] \in WorkerStates
BY DEF Idle, WorkerStates, Labels

\* What the decay loop has to write is within the bounds.
LEMMA DecayType ==
    /\ Nothing \in DecayWrites
    /\ \A x \in MinTrust..MaxTrust : [write |-> TRUE, delta |-> Decayed(x)] \in DecayWrites
BY Config, DecayedType DEF Nothing, DecayWrites

\* A step that leaves every device's statistics Sound keeps the invariant,
\* given the types of the rest.
LEMMA InvNext == Inv /\ [Next]_vars => Inv'
<1> SUFFICES ASSUME Inv, [Next]_vars PROVE Inv'
    OBVIOUS
<1>t. TypeOK /\ \A d \in Devices : Sound(stats[d])
    BY InvBySound
<1> DEFINE Rest == /\ cached' \subseteq Devices
                   /\ worker' \in [Workers -> WorkerStates]
                   /\ decay' \in [Devices -> DecayWrites]
                   /\ due' \subseteq Devices
           Good == stats' \in [Devices -> Stats] /\ \A d \in Devices : Sound(stats'[d])
<1>s. ASSUME NEW d \in Devices, NEW s, Sound(s), stats' = [stats EXCEPT ![d] = s]
      PROVE  Good
    BY <1>s, <1>t DEF TypeOK, Sound
<1>u. ASSUME UNCHANGED stats PROVE Good
    BY <1>u, <1>t DEF TypeOK
<1>1. ASSUME NEW d \in Devices, NEW o \in Outcomes, NEW tagged \in BOOLEAN,
             PlaybackFeedback(d, o, tagged)
      PROVE  Rest /\ Good
    <2>1. Rest
        <3>1. \A w \in Workers :
                 [worker EXCEPT ![w] = [at |-> "required", device |-> d]] \in [Workers -> WorkerStates]
            BY <1>t, WorkerType DEF TypeOK, Labels
        <3>2. worker' \in [Workers -> WorkerStates]
            BY <1>1, <1>t, <3>1 DEF PlaybackFeedback, TypeOK
        <3>3. cached' \subseteq Devices /\ due' \subseteq Devices /\ UNCHANGED decay
            BY <1>1, <1>t DEF PlaybackFeedback, TypeOK
        <3> QED BY <3>2, <3>3, <1>t DEF TypeOK
    <2> DEFINE u == UpdateStats(stats[d], o, tagged)
               v == [u EXCEPT !.needsReProbe = @ \/ ShouldReProbe(u)]
    <2>2. Sound(v)
        BY <1>t, FeedbackSound
    <2>3. stats' = [stats EXCEPT ![d] = v]
        BY <1>1 DEF PlaybackFeedback
    <2> HIDE DEF v
    <2> QED BY <2>1, <2>2, <2>3, <1>s
<1>2. ASSUME NEW w \in Workers, ResetTrustAdjustment(w) PROVE Rest /\ Good
    <2>1. Rest /\ worker[w].device \in Devices
        <3>1. worker[w] \in WorkerStates /\ worker[w].at # "idle"
            BY <1>2, <1>t DEF ResetTrustAdjustment, TypeOK
        <3>2. worker' \in [Workers -> WorkerStates]
            BY <1>2, <1>t, WorkerType DEF ResetTrustAdjustment, Return, TypeOK
        <3>3. UNCHANGED <<cached, decay, due>>
            BY <1>2 DEF ResetTrustAdjustment
        <3>4. Rest
            BY <3>2, <3>3, <1>t DEF TypeOK
        <3>5. worker[w].device \in Devices
            BY <3>1, WorkerType DEF Labels
        <3> QED BY <3>4, <3>5
    <2>2. Sound(AfterReset(stats[worker[w].device]))
        BY <1>t, <2>1, ResetSound
    <2> QED BY <1>2, <2>1, <2>2, <1>s DEF ResetTrustAdjustment
<1>3. ASSUME NEW w \in Workers, ReProbeRequired(w) \/ DropCapabilities(w) \/ ClearCapabilities(w)
      PROVE  Rest /\ Good
    <2>1. Rest /\ UNCHANGED stats
        <3>1. worker[w] \in WorkerStates /\ worker[w].at # "idle" /\ UNCHANGED <<stats, decay>>
            BY <1>3, <1>t DEF ReProbeRequired, DropCapabilities, ClearCapabilities, TypeOK
        <3>2. worker' \in [Workers -> WorkerStates]
            <4>1. \A l \in Labels : [worker EXCEPT ![w].at = l] \in [Workers -> WorkerStates]
                BY <3>1, <1>t, WorkerType DEF TypeOK
            <4>2. Return(w) => worker' \in [Workers -> WorkerStates]
                BY <1>t, WorkerType DEF Return, TypeOK
            <4>3. \A l \in Labels : Goto(w, l) => worker' \in [Workers -> WorkerStates]
                BY <4>1 DEF Goto
            <4> QED BY <1>3, <4>2, <4>3 DEF ReProbeRequired, DropCapabilities, ClearCapabilities, Labels
        <3>3. cached' \subseteq Devices /\ due' \subseteq Devices
            BY <1>3, <1>t DEF ReProbeRequired, DropCapabilities, ClearCapabilities, TypeOK
        <3> QED BY <3>1, <3>2, <3>3, <1>t DEF TypeOK
    <2> QED BY <2>1, <1>u
<1>4. ASSUME NEW w \in Workers, NEW d \in Devices, ReProbeDevice(w, d) PROVE Rest /\ Good
    <2>1. Rest /\ UNCHANGED stats
        BY <1>4, <1>t, WorkerType DEF ReProbeDevice, Start, TypeOK, Labels
    <2> QED BY <2>1, <1>u
<1>5. ASSUME NEW w \in Workers, NEW d \in Devices, ResetDeviceTrust(w, d) PROVE Rest /\ Good
    <2>1. Rest
        BY <1>5, <1>t, WorkerType DEF ResetDeviceTrust, Start, TypeOK, Labels
    <2> QED BY <1>5, <2>1, NoStatsSound, <1>s DEF ResetDeviceTrust
<1>6. ASSUME DecaySnapshot PROVE Rest /\ Good
    <2>1. UNCHANGED <<stats, cached, worker, due>>
        BY <1>6 DEF DecaySnapshot
    <2>2. \A d \in Devices : stats[d] \in Stats
        BY <1>t DEF TypeOK
    <2>3. \A d \in Devices : stats[d].delta \in MinTrust..MaxTrust
        BY <2>2 DEF Stats
    <2>4. decay' \in [Devices -> DecayWrites]
        BY <1>6, <2>3, DecayType DEF DecaySnapshot
    <2> QED BY <2>1, <2>4, <1>t, <1>u DEF TypeOK
<1>7. ASSUME NEW d \in Devices, SetTrustDelta(d) PROVE Rest /\ Good
    <2>1. Rest
        BY <1>7, <1>t, DecayType DEF SetTrustDelta, TypeOK
    <2> DEFINE x == IF stats[d].known THEN decay[d].delta ELSE stats[d].delta
               v == [stats[d] EXCEPT !.delta = x]
    <2>2. stats' = [stats EXCEPT ![d] = v]
        BY <1>7, <1>t DEF SetTrustDelta, TypeOK
    <2>3. x \in MinTrust..MaxTrust /\ stats[d] \in Stats /\ Sound(stats[d])
        BY <1>t DEF TypeOK, Stats, DecayWrites
    <2>4. Sound(v)
        BY <2>3 DEF Sound, Stats, NoStats
    <2> HIDE DEF v
    <2> QED BY <2>1, <2>2, <2>4, <1>s
<1>8. ASSUME NEW d \in Devices, ProbeReport(d) \/ CacheDrops(d) PROVE Rest /\ Good
    <2>1. Rest /\ UNCHANGED stats
        BY <1>8, <1>t DEF ProbeReport, CacheDrops, TypeOK
    <2> QED BY <2>1, <1>u
<1>9. ASSUME UNCHANGED vars PROVE Rest /\ Good
    <2>1. Rest /\ UNCHANGED stats
        BY <1>9, <1>t DEF vars, TypeOK
    <2> QED BY <2>1, <1>u
<1>10. Rest /\ Good
    <2> HIDE DEF Rest, Good
    <2>1. CASE UNCHANGED vars
        BY <2>1, <1>9
    <2>2. CASE Next
        BY <2>2, <1>1, <1>2, <1>3, <1>4, <1>5, <1>6, <1>7, <1>8 DEF Next, Work
    <2> QED BY <2>1, <2>2
<1> QED BY <1>10 DEF Inv, TypeOK, RepeatedFailuresFlagged, ClearedStaysClear, Sound

\* The invariant holds throughout.
LEMMA InvAlways == Spec => []Inv
<1>1. Init => Inv
    <2> SUFFICES ASSUME Init PROVE Inv
        OBVIOUS
    <2>1. TypeOK
        BY NoStatsSound, WorkerType, DecayType DEF Init, TypeOK, Sound
    <2> QED BY <2>1, NoStatsSound, InvBySound DEF Init
<1> QED BY <1>1, InvNext, PTL DEF Spec

\* Type correctness of the feedback loop; in particular the decay loop's late
\* writes keep the adjustment between MinTrust and MaxTrust.
THEOREM TypeCorrect == Spec => []TypeOK
BY InvAlways, PTL DEF Inv

\* FailureWindowSize failures in a row are always flagged for a re-probe.
THEOREM RepeatedFailuresFlaggedAlways == Spec => []RepeatedFailuresFlagged
BY InvAlways, PTL DEF Inv

\* A device that was cleared stays clear until its next feedback.
THEOREM ClearedStaysClearAlways == Spec => []ClearedStaysClear
BY InvAlways, PTL DEF Inv

\* What one feedback does to the counts: the failures grow by a tagged failure
\* only, and then the streak of successes is over.
LEMMA FailureEndsStreak ==
    ASSUME NEW s \in Stats, NEW o \in Outcomes, NEW tagged \in BOOLEAN,
           Streaks(s, o, tagged).failed > s.failed
    PROVE  o # "success" /\ Streaks(s, o, tagged).succRun = 0
<1>0. s.failed \in Nat
    BY DEF Stats
<1>1. CASE tagged /\ o = "success"
    <2>1. Streaks(s, o, tagged) =
            [s EXCEPT !.succRun = Bump(s.succRun, SuccessStreakThreshold), !.failRun = 0]
        BY <1>1 DEF Streaks
    <2>2. Streaks(s, o, tagged).failed = s.failed
        BY <2>1 DEF Stats
    <2> QED BY <1>0, <2>2
<1>2. CASE tagged /\ o # "success"
    BY <1>2 DEF Streaks, Stats
<1>3. CASE ~tagged
    BY <1>0, <1>3 DEF Streaks
<1> QED BY <1>1, <1>2, <1>3

\* A feedback that counts as a failure does not raise the adjustment.
LEMMA FailureLowers ==
    ASSUME NEW s \in Stats, NEW o \in Outcomes, NEW tagged \in BOOLEAN,
           UpdateStats(s, o, tagged).failed > s.failed
    PROVE  UpdateStats(s, o, tagged).delta <= s.delta
<1> DEFINE a == [s EXCEPT !.known = TRUE]
           base == [s EXCEPT !.known = TRUE, !.total = @ + 1]
           n == Streaks(base, o, tagged)
           shifted == Clamp(s.delta + CalculateTrustDelta(o))
           d == IF n.succRun >= SuccessStreakThreshold
                  THEN Clamp(shifted + SuccessStreakBonus) ELSE shifted
<1>0. a \in Stats
    BY SetField
<1>7. s.total + 1 \in Nat
    BY DEF Stats
<1>1. base \in Stats
    <2>1. base = [a EXCEPT !.total = s.total + 1]
        OBVIOUS
    <2> QED BY <1>0, <1>7, <2>1, SetField
<1>2. base.failed = s.failed
    BY DEF Stats
<1>3. n \in Stats
    BY <1>1, StreaksType
<1>4. UpdateStats(s, o, tagged) = [n EXCEPT !.delta = d]
    BY DEF UpdateStats
<1> HIDE DEF n, d
<1>5. UpdateStats(s, o, tagged).failed = n.failed /\ UpdateStats(s, o, tagged).delta = d
    BY <1>3, <1>4 DEF Stats
<1>6. o # "success" /\ n.succRun = 0
    BY <1>1, <1>2, <1>5, FailureEndsStreak DEF n
<1>8. d = shifted
    BY <1>6, Config DEF d
<1>9. CalculateTrustDelta(o) \in Int /\ CalculateTrustDelta(o) <= 0 /\ s.delta \in MinTrust..MaxTrust
    BY <1>6, DeltaType, DeltaSign DEF Stats
<1>10. shifted <= s.delta
    BY <1>9, Config DEF Clamp
<1> QED BY <1>5, <1>8, <1>10

\* A playback that failed never raises the trust in the device.
THEOREM FailureNeverRaisesTrustAlways == Spec => FailureNeverRaisesTrust
<1> DEFINE Lowers == \A d \in Devices :
                        stats'[d].failed > stats[d].failed => stats'[d].delta <= stats[d].delta
<1>1. TypeOK /\ [Next]_vars => [Lowers]_vars
    <2> SUFFICES ASSUME TypeOK, Next, NEW d \in Devices, stats'[d].failed > stats[d].failed
                 PROVE  stats'[d].delta <= stats[d].delta
        OBVIOUS
    <2>t. stats[d] \in Stats /\ stats[d].failed \in Nat /\ stats \in [Devices -> Stats]
        BY DEF TypeOK, Stats
    <2>1. ASSUME NEW e \in Devices, NEW o \in Outcomes, NEW tagged \in BOOLEAN,
                 PlaybackFeedback(e, o, tagged)
          PROVE  stats'[d].delta <= stats[d].delta
        <3> DEFINE u == UpdateStats(stats[e], o, tagged)
        <3>1. u \in Stats
            BY UpdateType DEF TypeOK
        <3>2. stats' = [stats EXCEPT ![e] = [u EXCEPT !.needsReProbe = @ \/ ShouldReProbe(u)]]
            BY <2>1 DEF PlaybackFeedback
        <3> HIDE DEF u
        <3>3. CASE e # d
            BY <3>2, <3>3, <2>t
        <3>4. CASE e = d
            <4>1. stats'[d].failed = u.failed /\ stats'[d].delta = u.delta
                BY <3>1, <3>2, <3>4, <2>t DEF Stats
            <4> QED BY <4>1, <3>4, <2>t, FailureLowers DEF u
        <3> QED BY <3>3, <3>4
    <2>2. ASSUME NEW w \in Workers, ResetTrustAdjustment(w) PROVE FALSE
        BY <2>2, <2>t DEF ResetTrustAdjustment, AfterReset, Stats
    <2>3. ASSUME NEW w \in Workers, NEW e \in Devices, ResetDeviceTrust(w, e)
          PROVE  FALSE
        BY <2>3, <2>t DEF ResetDeviceTrust, NoStats
    <2>4. ASSUME NEW e \in Devices, SetTrustDelta(e) PROVE FALSE
        BY <2>4, <2>t DEF SetTrustDelta, Stats
    <2>5. ASSUME NEW w \in Workers, ReProbeRequired(w) \/ DropCapabilities(w) \/ ClearCapabilities(w)
          PROVE  FALSE
        BY <2>5, <2>t DEF ReProbeRequired, DropCapabilities, ClearCapabilities
    <2>6. ASSUME NEW w \in Workers, NEW e \in Devices, ReProbeDevice(w, e) PROVE FALSE
        BY <2>6, <2>t DEF ReProbeDevice
    <2>7. ASSUME NEW e \in Devices, ProbeReport(e) \/ CacheDrops(e) PROVE FALSE
        BY <2>7, <2>t DEF ProbeReport, CacheDrops
    <2>8. ASSUME DecaySnapshot PROVE FALSE
        BY <2>8, <2>t DEF DecaySnapshot
    <2> QED BY <2>1, <2>2, <2>3, <2>4, <2>5, <2>6, <2>7, <2>8 DEF Next, Work
<1> QED BY <1>1, TypeCorrect, PTL DEF Spec, FailureNeverRaisesTrust

-----------------------------------------------------------------------------
(* The trust scores *)

\* What BadSignsCapTrust says of the level given to evidence e.
Capped(e, level) ==
    /\ 2 * e.anomalies > e.probes /\ e.probes > 0 => level < 6
    /\ 5 * e.anomalies > e.probes /\ e.probes > 0 => level < 7
    /\ e.platform = "odd" => level < (IF e.verified \/ e.curated THEN 7 ELSE 6)

\* The evidence has probe counts and Boolean flags.
EvidenceTyped(e) ==
    /\ e.probes \in Nat /\ e.anomalies \in Nat /\ e.consistent \in Nat
    /\ e.verified \in BOOLEAN /\ e.curated \in BOOLEAN

\* A score is capped from the moment it is computed, before it is cached; both tables
\* are functions.
TrustInv ==
    /\ scoreCache = [d \in Rated |-> scoreCache[d]]
    /\ calculation = [c \in TrustCallers |-> calculation[c]]
    /\ \A d \in Rated : \A s \in scoreCache[d] : Capped(s.evidence, s.level)
    /\ \A c \in TrustCallers :
         calculation[c].at = "scored" => Capped(calculation[c].evidence, calculation[c].level)

-----------------------------------------------------------------------------

\* The components lie between 20 and 100; none but consistency and DRM reaches 100.
LEMMA Components ==
    ASSUME NEW e, NEW known \in BOOLEAN, EvidenceTyped(e)
    PROVE  /\ EvaluateFingerprint(e, known) \in {30, 50, 60, 80}
           /\ EvaluateConsistency(e) \in {20, 50, 70, 90, 100}
           /\ EvaluateDRMSupport(e) \in {30, 50, 70, 80, 100}
           /\ EvaluatePlatform(e) \in {20, 60, 70, 90}
           /\ EvaluateBehavior(e) \in {30, 40, 50, 60, 70, 80, 90}
<1>1. EvaluateFingerprint(e, known) \in {30, 50, 60, 80}
    BY DEF EvaluateFingerprint
<1>2. EvaluateConsistency(e) \in {20, 50, 70, 90, 100}
    BY DEF EvaluateConsistency
<1>3. EvaluateDRMSupport(e) \in {30, 50, 70, 80, 100}
    BY DEF EvaluateDRMSupport
<1>4. EvaluatePlatform(e) \in {20, 60, 70, 90}
    BY DEF EvaluatePlatform
<1>5. EvaluateBehavior(e) \in {30, 40, 50, 60, 70, 80, 90}
    BY DEF EvaluateBehavior
<1> QED BY <1>1, <1>2, <1>3, <1>4, <1>5

\* A level below a total's threshold.
LEMMA LevelBelow ==
    ASSUME NEW total \in Int, NEW weight \in Nat
    PROVE  /\ total < 90 * weight => TrustLevelFromScore(total, weight) < 7
           /\ total < 80 * weight => TrustLevelFromScore(total, weight) < 6
BY DEF TrustLevelFromScore

\* The arithmetic of the claim: even with every other component at its best and both
\* bonuses, a bad consistency or an unknown platform keeps the total under the threshold,
\* on whichever side of it the sum is rounded.
LEMMA BadSignsCap ==
    ASSUME NEW e, NEW known \in BOOLEAN, NEW rounding \in {0, 1}, EvidenceTyped(e)
    PROVE  Capped(e, TrustLevelFromScore(Total(e, known) - rounding, Weight(e)))
<1> DEFINE F == EvaluateFingerprint(e, known)
           C == EvaluateConsistency(e)
           D == EvaluateDRMSupport(e)
           P == EvaluatePlatform(e)
           B == EvaluateBehavior(e)
           v == IF e.verified THEN 10 ELSE 0
           u == IF e.curated THEN 10 ELSE 0
           total == Total(e, known) - rounding
           weight == Weight(e)
<1>1. /\ F \in {30, 50, 60, 80} /\ C \in {20, 50, 70, 90, 100} /\ D \in {30, 50, 70, 80, 100}
      /\ P \in {20, 60, 70, 90} /\ B \in {30, 40, 50, 60, 70, 80, 90}
    BY Components
<1>2. v \in {0, 10} /\ u \in {0, 10} /\ (e.verified \/ e.curated <=> v + u > 0)
    BY DEF EvidenceTyped
<1>3. weight = 90 + v + u
    BY DEF Weight
<1>4. Total(e, known) = 25 * F + 20 * C + 15 * D + 15 * P + 15 * B
                          + (IF e.verified THEN 1000 ELSE 0) + (IF e.curated THEN 1000 ELSE 0)
    BY DEF Total
<1>5. 2 * e.anomalies > e.probes /\ e.probes > 0 => C = 20
    BY DEF EvaluateConsistency, EvidenceTyped
<1>6. 5 * e.anomalies > e.probes /\ e.probes > 0 => C \in {20, 50}
    BY DEF EvaluateConsistency, EvidenceTyped
<1>7. e.platform = "odd" => P = 20
    BY DEF EvaluatePlatform
<1> HIDE DEF F, C, D, P, B, weight
<1>8. total = 25 * F + 20 * C + 15 * D + 15 * P + 15 * B + 100 * v + 100 * u - rounding
    BY <1>1, <1>4
<1> HIDE DEF v, u, total
<1>9. total \in Int /\ weight \in Nat /\ weight > 0
    BY <1>1, <1>2, <1>3, <1>8
<1>10. C = 20 => total < 80 * weight
    BY <1>1, <1>2, <1>3, <1>8
<1>11. C \in {20, 50} => total < 90 * weight
    BY <1>1, <1>2, <1>3, <1>8
<1>12. P = 20 => total < 90 * weight
    BY <1>1, <1>2, <1>3, <1>8
<1>13. P = 20 /\ v + u = 0 => total < 80 * weight
    BY <1>1, <1>2, <1>3, <1>8
<1>14. /\ total < 90 * weight => TrustLevelFromScore(total, weight) < 7
       /\ total < 80 * weight => TrustLevelFromScore(total, weight) < 6
    BY <1>9, LevelBelow
<1>15. v + u > 0 \/ v + u = 0
    BY <1>2
<1> QED BY <1>2, <1>5, <1>6, <1>7, <1>10, <1>11, <1>12, <1>13, <1>14, <1>15 DEF Capped, total, weight

\* At the start nothing is scored.
LEMMA TrustInitCapped == TrustInit => TrustInv
BY DEF TrustInit, TrustInv, NotCalculating

\* The steps that drop scores or let them expire keep what is left capped.
LEMMA CacheShrinks ==
    ASSUME TrustInv, UNCHANGED calculation,
           scoreCache' = [d \in Rated |-> scoreCache'[d]],
           \A d \in Rated : \A s \in scoreCache'[d] : \E r \in scoreCache[d] :
               s.evidence = r.evidence /\ s.level = r.level
    PROVE  TrustInv'
BY DEF TrustInv

\* Every step preserves the inductive invariant.
LEMMA TrustStep == TrustInv /\ [TrustNext]_trustVars => TrustInv'
<1> SUFFICES ASSUME TrustInv, [TrustNext]_trustVars PROVE TrustInv'
    OBVIOUS
<1>1. CASE UNCHANGED trustVars
    BY <1>1 DEF trustVars, TrustInv
<1>2. ASSUME NEW c \in TrustCallers, NEW e \in Evidence, CalculateTrustScore(c, e) PROVE TrustInv'
  <2> DEFINE known == e.fingerprint \in knownDevices
  <2>1. PICK rounding \in {0, 1} :
          calculation' = [calculation EXCEPT ![c] =
            [at |-> "scored", evidence |-> e, known |-> known,
             level |-> TrustLevelFromScore(Total(e, known) - rounding, Weight(e))]]
      BY <1>2 DEF CalculateTrustScore
  <2>2. EvidenceTyped(e)
      BY TrustConfig DEF EvidenceTyped
  <2>3. known \in BOOLEAN
      OBVIOUS
  <2> HIDE DEF known
  <2>4. Capped(e, TrustLevelFromScore(Total(e, known) - rounding, Weight(e)))
      BY <2>2, <2>3, BadSignsCap
  <2>5. UNCHANGED scoreCache
      BY <1>2 DEF CalculateTrustScore
  <2> QED BY <2>1, <2>4, <2>5 DEF TrustInv
<1>3. ASSUME NEW c \in TrustCallers, CacheScore(c) PROVE TrustInv'
  <2> DEFINE e == calculation[c].evidence
             level == calculation[c].level
             score == [evidence |-> e, known |-> calculation[c].known,
                       level |-> level, expired |-> FALSE]
             dev == e.device
  <2>1. Capped(e, level)
      BY <1>3 DEF CacheScore, TrustInv
  <2>2. score.evidence = e /\ score.level = level
      OBVIOUS
  <2>3. /\ scoreCache' = [scoreCache EXCEPT ![dev] = {score}]
        /\ calculation' = [calculation EXCEPT ![c] = NotCalculating]
      BY <1>3 DEF CacheScore
  <2>4. NotCalculating.at # "scored"
      BY DEF NotCalculating
  <2> HIDE DEF e, level, score, dev
  <2>5. Capped(score.evidence, score.level)
      BY <2>1, <2>2
  <2>6. \A d \in Rated : \A s \in scoreCache'[d] : Capped(s.evidence, s.level)
      BY <2>3, <2>5 DEF TrustInv
  <2>7. \A x \in TrustCallers : calculation'[x].at = "scored" =>
            Capped(calculation'[x].evidence, calculation'[x].level)
      BY <2>3, <2>4 DEF TrustInv
  <2>8. scoreCache' = [d \in Rated |-> scoreCache'[d]]
      BY <2>3 DEF TrustInv
  <2>9. calculation' = [x \in TrustCallers |-> calculation'[x]]
      BY <2>3 DEF TrustInv
  <2> QED BY <2>6, <2>7, <2>8, <2>9 DEF TrustInv
<1>4. ASSUME NEW d \in Rated, GetCachedScore(d) \/ InvalidateCache(d) PROVE TrustInv'
    BY <1>4 DEF GetCachedScore, InvalidateCache, TrustInv
<1>5. ASSUME NEW d \in Rated, ScoreExpires(d) PROVE TrustInv'
  <2>1. scoreCache' = [scoreCache EXCEPT ![d] = {[s EXCEPT !.expired = TRUE] : s \in @}]
        /\ UNCHANGED calculation
      BY <1>5 DEF ScoreExpires
  <2>2. \A x \in Rated : \A s \in scoreCache'[x] : \E r \in scoreCache[x] :
            s = r \/ s = [r EXCEPT !.expired = TRUE]
      BY <2>1 DEF TrustInv
  <2>3. \A r : LET s == [r EXCEPT !.expired = TRUE]
               IN  s.evidence = r.evidence /\ s.level = r.level
      OBVIOUS
  <2>4. \A x \in Rated : \A s \in scoreCache'[x] : \E r \in scoreCache[x] :
            s.evidence = r.evidence /\ s.level = r.level
    <3> SUFFICES ASSUME NEW x \in Rated, NEW s \in scoreCache'[x]
                 PROVE  \E r \in scoreCache[x] : s.evidence = r.evidence /\ s.level = r.level
        OBVIOUS
    <3>1. PICK r \in scoreCache[x] : s = r \/ s = [r EXCEPT !.expired = TRUE]
        BY <2>2
    <3>2. s.evidence = r.evidence /\ s.level = r.level
        BY <3>1, <2>3
    <3> QED BY <3>2
  <2>5. scoreCache' = [x \in Rated |-> scoreCache'[x]]
      BY <2>1 DEF TrustInv
  <2> QED BY <2>1, <2>4, <2>5, CacheShrinks
<1>6. ASSUME CleanCache PROVE TrustInv'
    BY <1>6 DEF CleanCache, TrustInv
<1>7. ASSUME NEW e \in Evidence, RegisterKnownDevice(e.fingerprint) PROVE TrustInv'
    BY <1>7 DEF RegisterKnownDevice, TrustInv
<1> QED BY <1>1, <1>2, <1>3, <1>4, <1>5, <1>6, <1>7 DEF TrustNext

\* Whatever evidence is given in whatever order, and however calculations, the cache and the
\* registration of devices interleave, no cached score gives a device with bad signs a level
\* that its anomalies or its unknown platform deny it, verified and curated bonus included.
THEOREM BadSignsCapTrustAlways == TrustSpec => []BadSignsCapTrust
<1>1. TrustInv => BadSignsCapTrust
    BY DEF TrustInv, BadSignsCapTrust, Capped
<1> QED BY TrustInitCapped, TrustStep, <1>1, PTL DEF TrustSpec

-----------------------------------------------------------------------------
(* The curated devices *)

DeviceSet ==
    [id : Nat, hash : Kinds \union {NoHash}, kind : Kinds, votes : Nat,
     verified : BOOLEAN, official : BOOLEAN]

Ids == 1..(nextId - 1)
Objects == 1..Len(heap)
HashIds(h) == ToSet(hashIndex[h])
PlatformIds(p) == ToSet(platformIndex[p])

\* Ids are handed out in order, to stored devices, index entries and bundles alike.
DatabaseTyped ==
    /\ heap \in Seq(DeviceSet) /\ Bundle \subseteq Objects /\ nextId \in Nat /\ nextId > 0
    /\ Stored \subseteq Ids /\ \A id \in Stored : devices[id] \in Objects
    /\ hashIndex \in [Kinds -> Seq(Nat)] /\ \A h \in Kinds : HashIds(h) \subseteq Ids
    /\ platformIndex \in [{PlatformOf[k] : k \in Kinds} -> Seq(Nat)]
    /\ \A o \in Bundle : heap[o].id \in Ids

PlatformListed == \A id \in Stored \ moved : id \in PlatformIds(PlatformOf[At(id).kind])

\* Of a hash that is not tangled the index lists the stored devices, each once.
HashListed ==
    \A h \in Kinds \ tangled :
      IsInjective(hashIndex[h]) /\ HashIds(h) = {id \in Stored : At(id).hash = h}

\* Only a device of a bundle is stored under another id than it carries, after a second
\* sync has changed it, and its hash and that of the device whose id it has are tangled.
OwnIds ==
    \A id \in Stored : At(id).id # id =>
      /\ devices[id] \in Bundle /\ At(id).hash \in tangled
      /\ At(id).id \in Stored => At(At(id).id).hash \in tangled

\* An index entry of a stored device is of its hash, or its hash is tangled.
OwnHash ==
    \A h \in Kinds : \A id \in HashIds(h) \intersect Stored :
      At(id).hash = h \/ At(id).hash \in tangled

\* The same of the bundles' devices, which a sync stores under the id they carry.
BundleHash ==
    \A h \in Kinds, o \in Bundle :
      heap[o].id \in HashIds(h) => heap[o].hash = h \/ heap[o].hash \in tangled
BundleIds ==
    \A o, p \in Bundle :
      o # p /\ heap[o].id = heap[p].id => heap[o].hash \in Kinds \intersect tangled

\* A device of a bundle that has no hash yet was never synced.
Unsynced(o) ==
    /\ heap[o].id = o /\ o \notin Stored /\ \A id \in Stored : devices[id] # o
    /\ \A h \in Kinds : o \notin HashIds(h)
BundleFresh == \A o \in Bundle : heap[o].hash = NoHash => Unsynced(o)

DatabaseInv ==
    /\ DatabaseTyped /\ PlatformListed /\ HashListed /\ OwnIds /\ OwnHash
    /\ BundleHash /\ BundleIds /\ BundleFresh

-----------------------------------------------------------------------------
(* Storing a device with its index entries *)

\* What addDevice and AddDevice have in common: d replaces device o of heap h, and is
\* stored and indexed under its id.
Puts(h, o, d) ==
    /\ h \in Seq(DeviceSet) /\ Len(heap) <= Len(h) /\ \A p \in Objects : h[p] = heap[p]
    /\ o \in 1..Len(h) /\ d \in DeviceSet /\ d.hash \in Kinds
    /\ heap' = [h EXCEPT ![o] = d]
    /\ PutDevice(d.id, o) /\ updateIndexes(d)
    /\ nextId' \in Nat /\ nextId <= nextId' /\ d.id \in 1..(nextId' - 1)

\* What is stored, and which devices of the heap changed, when a device is stored.
LEMMA PutStored ==
    ASSUME DatabaseTyped, NEW h, NEW o, NEW d, Puts(h, o, d)
    PROVE  /\ Stored' = Stored \union {d.id}
           /\ heap' \in Seq(DeviceSet) /\ Len(heap') = Len(h) /\ heap'[o] = d
           /\ \A p \in Objects : p # o => heap'[p] = heap[p]
           /\ devices'[d.id] = o /\ At(d.id)' = d
           /\ \A id \in Stored : id # d.id =>
                /\ devices'[id] = devices[id]
                /\ devices[id] # o => At(id)' = At(id)
                /\ devices[id] = o => At(id)' = d
<1>1. /\ h \in Seq(DeviceSet) /\ Len(heap) <= Len(h) /\ \A p \in Objects : h[p] = heap[p]
      /\ o \in 1..Len(h) /\ d \in DeviceSet /\ heap' = [h EXCEPT ![o] = d]
    BY DEF Puts
<1>2. Len(heap) \in Nat /\ \A id \in Stored : devices[id] \in Objects
    BY DEF DatabaseTyped
<1>3. /\ heap' \in Seq(DeviceSet) /\ Len(heap') = Len(h) /\ heap'[o] = d
      /\ \A p \in 1..Len(h) : p # o => heap'[p] = h[p]
    BY <1>1
<1>4. \A p \in Objects : p # o => heap'[p] = heap[p]
    BY <1>1, <1>2, <1>3 DEF Objects
<1>5. /\ Stored' = Stored \union {d.id} /\ devices'[d.id] = o
      /\ \A id \in Stored : id # d.id => devices'[id] = devices[id]
    BY DEF Puts, PutDevice, Stored
<1> QED BY <1>2, <1>3, <1>4, <1>5 DEF At

\* What the two indexes list when a device is stored.
LEMMA PutIndexed ==
    ASSUME DatabaseTyped, NEW h, NEW o, NEW d, Puts(h, o, d)
    PROVE  /\ hashIndex' \in [Kinds -> Seq(Nat)]
           /\ platformIndex' \in [{PlatformOf[k] : k \in Kinds} -> Seq(Nat)]
           /\ hashIndex'[d.hash] = Append(hashIndex[d.hash], d.id)
           /\ HashIds(d.hash)' = HashIds(d.hash) \union {d.id}
           /\ \A g \in Kinds : g # d.hash => hashIndex'[g] = hashIndex[g] /\ HashIds(g)' = HashIds(g)
           /\ d.id \in PlatformIds(PlatformOf[d.kind])'
           /\ \A k \in Kinds : PlatformIds(PlatformOf[k]) \subseteq PlatformIds(PlatformOf[k])'
<1> DEFINE Q == {PlatformOf[k] : k \in Kinds}
           q == PlatformOf[d.kind]
<1>1. d.hash \in Kinds /\ d.id \in Nat /\ d.kind \in Kinds /\ d.hash # NoHash
    BY CuratedConfig DEF Puts, DeviceSet
<1>2. /\ hashIndex' = [hashIndex EXCEPT ![d.hash] = Append(hashIndex[d.hash], d.id)]
      /\ platformIndex' = [platformIndex EXCEPT ![q] = Append(platformIndex[q], d.id)]
    BY <1>1 DEF Puts, updateIndexes
<1>3. hashIndex \in [Kinds -> Seq(Nat)] /\ platformIndex \in [Q -> Seq(Nat)] /\ q \in Q
    BY <1>1 DEF DatabaseTyped
<1>4. /\ Append(hashIndex[d.hash], d.id) \in Seq(Nat)
      /\ ToSet(Append(hashIndex[d.hash], d.id)) = ToSet(hashIndex[d.hash]) \union {d.id}
  <2>1. hashIndex[d.hash] \in Seq(Nat)
      BY <1>1, <1>3
  <2> QED BY <1>1, <2>1, AppendToSet
<1>5. /\ Append(platformIndex[q], d.id) \in Seq(Nat)
      /\ ToSet(Append(platformIndex[q], d.id)) = ToSet(platformIndex[q]) \union {d.id}
  <2>1. platformIndex[q] \in Seq(Nat)
      BY <1>3
  <2> QED BY <1>1, <2>1, AppendToSet
<1> HIDE DEF q
<1>6. /\ hashIndex'[d.hash] = Append(hashIndex[d.hash], d.id)
      /\ \A g \in Kinds : g # d.hash => hashIndex'[g] = hashIndex[g]
      /\ hashIndex' \in [Kinds -> Seq(Nat)]
    BY <1>1, <1>2, <1>3, <1>4
<1>7. /\ platformIndex'[q] = Append(platformIndex[q], d.id)
      /\ \A p \in Q : p # q => platformIndex'[p] = platformIndex[p]
      /\ platformIndex' \in [Q -> Seq(Nat)]
  <2> HIDE DEF Q
  <2> QED BY <1>2, <1>3, <1>5
<1>8. /\ q \in Q /\ d.id \in PlatformIds(q)'
      /\ \A p \in Q : PlatformIds(p) \subseteq PlatformIds(p)'
  <2> HIDE DEF Q
  <2> QED BY <1>3, <1>5, <1>7 DEF PlatformIds
<1>9. \A k \in Kinds : PlatformOf[k] \in Q
    OBVIOUS
<1>10. /\ HashIds(d.hash)' = HashIds(d.hash) \union {d.id}
       /\ \A g \in Kinds : g # d.hash => HashIds(g)' = HashIds(g)
    BY <1>4, <1>6 DEF HashIds
<1> QED BY <1>6, <1>7, <1>8, <1>9, <1>10 DEF q

\* What of the hashes and ids has to be told before a put, so that the invariant holds
\* after it.
PutTangles(o, d) ==
    /\ tangled \subseteq tangled' /\ moved' = moved
    \* o's kind is not changed.
    /\ o \in Objects => heap[o].kind = d.kind
    \* A replaced device takes its hash with it.
    /\ d.id \in Stored => At(d.id).hash \in tangled' /\ d.hash \in tangled'
    \* Entries that the id had in other chains.
    /\ \A h \in Kinds : d.id \in HashIds(h) => d.hash = h \/ d.hash \in tangled'
    \* Other ids of the device.
    /\ \A id \in Stored : id # d.id /\ devices[id] = o =>
         o \in Bundle /\ At(id).hash \in tangled' /\ d.hash \in tangled'
    \* Other devices with the id.
    /\ \A id \in Stored : id # d.id /\ At(id).id = d.id => d.hash \in tangled'
    /\ \A p \in Bundle : p # o /\ heap[p].id = d.id =>
         heap[p].hash \in Kinds \intersect tangled' /\ d.hash \in tangled'

\* Storing a device keeps the database sound, if tangled records what the hash
\* index loses by it.
LEMMA PutKeeps ==
    ASSUME DatabaseInv, NEW h, NEW o, NEW d, Puts(h, o, d), PutTangles(o, d)
    PROVE  DatabaseInv'
<1> USE DEF DatabaseInv
<1>0. /\ Len(h) \in Nat /\ Len(heap) \in Nat /\ Len(heap) <= Len(h) /\ o \in 1..Len(h)
      /\ nextId' \in Nat /\ nextId \in Nat /\ nextId <= nextId' /\ d.id \in 1..(nextId' - 1)
      /\ d \in DeviceSet /\ d.hash \in Kinds /\ d.kind \in Kinds /\ d.hash # NoHash
      /\ Stored \subseteq Ids /\ \A id \in Stored : devices[id] \in Objects
      /\ Bundle \subseteq Objects
  <2>1. d \in DeviceSet /\ d.hash \in Kinds
      BY DEF Puts
  <2>2. d.kind \in Kinds /\ d.hash # NoHash
      BY <2>1, CuratedConfig DEF DeviceSet
  <2>3. heap \in Seq(DeviceSet) /\ h \in Seq(DeviceSet)
      BY DEF Puts, DatabaseTyped
  <2>4. Len(h) \in Nat /\ Len(heap) \in Nat
      BY <2>3
  <2> QED BY <2>1, <2>2, <2>4 DEF Puts, DatabaseTyped
<1>1. /\ Stored' = Stored \union {d.id}
      /\ heap' \in Seq(DeviceSet) /\ Len(heap') = Len(h) /\ heap'[o] = d
      /\ \A p \in Objects : p # o => heap'[p] = heap[p]
      /\ devices'[d.id] = o /\ At(d.id)' = d
      /\ \A id \in Stored : id # d.id =>
           /\ devices'[id] = devices[id]
           /\ devices[id] # o => At(id)' = At(id)
           /\ devices[id] = o => At(id)' = d
    BY PutStored
<1>2. /\ hashIndex' \in [Kinds -> Seq(Nat)]
      /\ platformIndex' \in [{PlatformOf[k] : k \in Kinds} -> Seq(Nat)]
      /\ hashIndex'[d.hash] = Append(hashIndex[d.hash], d.id)
      /\ HashIds(d.hash)' = HashIds(d.hash) \union {d.id}
      /\ \A g \in Kinds : g # d.hash => hashIndex'[g] = hashIndex[g] /\ HashIds(g)' = HashIds(g)
      /\ d.id \in PlatformIds(PlatformOf[d.kind])'
      /\ \A k \in Kinds : PlatformIds(PlatformOf[k]) \subseteq PlatformIds(PlatformOf[k])'
    BY PutIndexed
<1>3. \A id \in Stored : At(id) \in DeviceSet /\ At(id).kind \in Kinds
                         /\ (devices[id] = o => At(id) = heap[o])
  <2>1. \A p \in Objects : heap[p] \in DeviceSet
      BY DEF DatabaseTyped, Objects
  <2>2. \A r \in DeviceSet : r.kind \in Kinds
      BY DEF DeviceSet
  <2> QED BY <1>0, <2>1, <2>2 DEF At
<1>4. DatabaseTyped'
  <2>1. Objects \subseteq Objects' /\ o \in Objects' /\ Ids \subseteq Ids' /\ d.id \in Ids' /\ Bundle' = Bundle
    <3>1. Objects \subseteq Objects' /\ o \in Objects'
        BY <1>0, <1>1 DEF Objects
    <3>2. Ids \subseteq Ids' /\ d.id \in Ids'
        BY <1>0 DEF Ids
    <3> QED BY <3>1, <3>2 DEF Bundle
  <2>2. \A id \in Stored' : devices'[id] \in Objects'
      BY <1>0, <1>1, <2>1
  <2>3. \A g \in Kinds : HashIds(g)' \subseteq Ids'
      BY <1>0, <1>2, <2>1 DEF DatabaseTyped
  <2>4. \A p \in Bundle : heap'[p].id \in Ids'
      BY <1>0, <1>1, <2>1 DEF DatabaseTyped
  <2>5. Bundle' \subseteq Objects' /\ Stored' \subseteq Ids' /\ nextId' \in Nat /\ nextId' > 0
    <3>1. nextId' > 0
        BY <1>0 DEF DatabaseTyped
    <3> QED BY <1>0, <1>1, <2>1, <3>1
  <2>6. /\ heap' \in Seq(DeviceSet) /\ hashIndex' \in [Kinds -> Seq(Nat)]
        /\ platformIndex' \in [{PlatformOf[k] : k \in Kinds} -> Seq(Nat)]
      BY <1>1, <1>2
  <2>7. \A p \in Bundle' : heap'[p].id \in Ids'
      BY <2>1, <2>4
  <2> QED BY <2>2, <2>3, <2>5, <2>6, <2>7 DEF DatabaseTyped
<1>5. PlatformListed'
  <2> SUFFICES ASSUME NEW id \in Stored', id \notin moved
               PROVE  id \in PlatformIds(PlatformOf[At(id).kind])'
      BY DEF PlatformListed, PutTangles
  <2>1. CASE id = d.id
      BY <1>1, <1>2, <2>1
  <2>2. CASE id # d.id
    <3>1. id \in Stored /\ id \in PlatformIds(PlatformOf[At(id).kind]) /\ At(id).kind \in Kinds
        BY <1>1, <1>3, <2>2 DEF PlatformListed
    <3>2. At(id)'.kind = At(id).kind
        BY <1>0, <1>1, <1>3, <2>2, <3>1 DEF PutTangles
    <3>3. id \in PlatformIds(PlatformOf[At(id).kind])'
      <4>1. \A k \in Kinds : id \in PlatformIds(PlatformOf[k]) => id \in PlatformIds(PlatformOf[k])'
          BY <1>2
      <4>2. \A k \in Kinds : At(id)'.kind = k => PlatformIds(PlatformOf[At(id).kind])' = PlatformIds(PlatformOf[k])'
          BY DEF PlatformIds
      <4> QED BY <3>1, <3>2, <4>1, <4>2
    <3> QED BY <3>3
  <2> QED BY <2>1, <2>2
<1>6. HashListed'
  <2> SUFFICES ASSUME NEW g \in Kinds, g \notin tangled'
               PROVE  IsInjective(hashIndex[g])' /\ HashIds(g)' = {id \in Stored' : At(id)'.hash = g}
      BY DEF HashListed
  <2>1. IsInjective(hashIndex[g]) /\ HashIds(g) = {id \in Stored : At(id).hash = g}
      BY DEF HashListed, PutTangles
  <2>2. \A id \in Stored : id # d.id => (At(id)'.hash = g <=> At(id).hash = g)
      BY <1>1 DEF PutTangles
  <2>3. CASE g # d.hash
      BY <1>1, <1>2, <2>1, <2>2, <2>3 DEF PutTangles
  <2>4. CASE g = d.hash
    <3>1. d.id \notin Stored /\ d.id \notin HashIds(g)
        BY <2>1, <2>4 DEF PutTangles
    <3>2. hashIndex[g] \in Seq(Nat) /\ d.id \in Nat
        BY <1>0 DEF DatabaseTyped
    <3>3. IsInjective(Append(hashIndex[g], d.id))
      <4>1. d.id \notin ToSet(hashIndex[g])
          BY <3>1 DEF HashIds
      <4>2. ASSUME NEW s \in Seq(Nat), IsInjective(s), d.id \notin ToSet(s)
            PROVE  IsInjective(Append(s, d.id))
          BY <3>2, <4>2, AppendSet
      <4> QED BY <2>1, <3>2, <4>1, <4>2
    <3>4. hashIndex'[g] = Append(hashIndex[g], d.id) /\ HashIds(g)' = HashIds(g) \union {d.id}
        BY <1>2, <2>4
    <3>5. {id \in Stored' : At(id)'.hash = g} = {id \in Stored : At(id).hash = g} \union {d.id}
        BY <1>1, <2>2, <2>4, <3>1
    <3> QED BY <2>1, <3>3, <3>4, <3>5
  <2> QED BY <2>3, <2>4
<1>7. OwnIds'
  <2> SUFFICES ASSUME NEW id \in Stored', At(id)'.id # id
               PROVE  /\ devices'[id] \in Bundle' /\ At(id)'.hash \in tangled'
                      /\ At(id)'.id \in Stored' => At(At(id).id)'.hash \in tangled'
      BY DEF OwnIds
  <2>1. id \in Stored /\ id # d.id /\ Bundle' = Bundle
      BY <1>1 DEF Bundle
  <2>2. CASE devices[id] = o
      BY <1>1, <2>1, <2>2 DEF PutTangles
  <2>3. CASE devices[id] # o
    <3>1. /\ At(id)' = At(id) /\ At(id).id # id /\ devices[id] \in Bundle
          /\ At(id).hash \in tangled /\ devices'[id] = devices[id]
          /\ At(id).id \in Stored => At(At(id).id).hash \in tangled
        BY <1>1, <2>1, <2>3 DEF OwnIds
    <3> DEFINE y == At(id).id
    <3>2. ASSUME y \in Stored' PROVE At(y)'.hash \in tangled'
      <4> HIDE DEF y
      <4>1. CASE y = d.id
          BY <1>1, <2>1, <4>1 DEF PutTangles, y
      <4>2. CASE y # d.id
          BY <1>1, <3>1, <3>2, <4>2 DEF PutTangles, y
      <4> QED BY <4>1, <4>2
    <3> QED BY <2>1, <3>1, <3>2 DEF PutTangles
  <2> QED BY <2>2, <2>3
<1>8. OwnHash'
  <2> SUFFICES ASSUME NEW g \in Kinds, NEW id \in HashIds(g)', id \in Stored'
               PROVE  At(id)'.hash = g \/ At(id)'.hash \in tangled'
      BY DEF OwnHash
  <2>1. CASE id = d.id
      BY <1>1, <1>2, <2>1 DEF PutTangles
  <2>2. CASE id # d.id
    <3>1. id \in HashIds(g) /\ id \in Stored
        BY <1>1, <1>2, <2>2
    <3> QED BY <1>1, <2>2, <3>1 DEF PutTangles, OwnHash
  <2> QED BY <2>1, <2>2
<1>9. BundleHash' /\ BundleIds'
  <2>0. Bundle' = Bundle /\ \A p \in Bundle : p # o => heap'[p] = heap[p]
      BY <1>0, <1>1 DEF Bundle
  <2>1. ASSUME NEW g \in Kinds, NEW p \in Bundle, heap'[p].id \in HashIds(g)'
        PROVE  heap'[p].hash = g \/ heap'[p].hash \in tangled'
    <3>1. CASE p = o
        BY <1>1, <1>2, <2>1, <3>1 DEF PutTangles
    <3>2. CASE p # o /\ heap[p].id = d.id
        BY <2>0, <3>2 DEF PutTangles
    <3>3. CASE p # o /\ heap[p].id # d.id
      <4>1. heap[p].id \in HashIds(g)
          BY <1>2, <2>0, <2>1, <3>3
      <4> QED BY <2>0, <3>3, <4>1 DEF PutTangles, BundleHash
    <3> QED BY <3>1, <3>2, <3>3
  <2>2. ASSUME NEW p \in Bundle, NEW q \in Bundle, p # q, heap'[p].id = heap'[q].id
        PROVE  heap'[p].hash \in Kinds \intersect tangled'
      BY <1>0, <1>1, <2>0, <2>2 DEF PutTangles, BundleIds
  <2> QED BY <2>0, <2>1, <2>2 DEF BundleHash, BundleIds
<1>10. BundleFresh'
  <2> SUFFICES ASSUME NEW p \in Bundle, heap'[p].hash = NoHash PROVE Unsynced(p)'
      BY DEF BundleFresh, Bundle
  <2>1. p # o /\ heap'[p] = heap[p] /\ heap[p].hash = NoHash
      BY <1>0, <1>1
  <2>2. Unsynced(p)
      BY <2>1 DEF BundleFresh
  <2>3. p # d.id
      BY <1>0, <2>1, <2>2, CuratedConfig DEF PutTangles, Unsynced
  <2> QED BY <1>1, <1>2, <2>1, <2>2, <2>3 DEF Unsynced
<1> QED BY <1>4, <1>5, <1>6, <1>7, <1>8, <1>9, <1>10

\* RemoveDevice takes the id from the chain of the device's hash and from its platform.
LEMMA RemoveKeeps ==
    ASSUME DatabaseInv, NEW x, Discard(x)
    PROVE  DatabaseInv'
<1> USE DEF DatabaseInv
<1> DEFINE hx == At(x).hash
           Q == {PlatformOf[k] : k \in Kinds}
           q == PlatformOf[At(x).kind]
<1>0. /\ x \in Stored /\ Stored' = Stored \ {x} /\ heap' = heap /\ nextId' = nextId
      /\ tangled' = tangled /\ moved' = moved /\ Bundle' = Bundle
      /\ \A id \in Stored \ {x} : devices'[id] = devices[id] /\ At(id)' = At(id)
    BY DEF Discard, RemoveDevice, Stored, At, Bundle
<1>1. At(x) \in DeviceSet /\ hx \in Kinds \union {NoHash} /\ q \in Q
  <2>1. At(x) \in DeviceSet
      BY <1>0 DEF DatabaseTyped, Objects, At
  <2>2. At(x).hash \in Kinds \union {NoHash} /\ At(x).kind \in Kinds
      BY <2>1 DEF DeviceSet
  <2> QED BY <2>1, <2>2
<1>2. /\ hashIndex' \in [Kinds -> Seq(Nat)]
      /\ \A h \in Kinds : h # hx => hashIndex'[h] = hashIndex[h] /\ HashIds(h)' = HashIds(h)
      /\ \A h \in Kinds : h = hx => /\ hashIndex'[h] = RemoveFirst(hashIndex[h], x)
                                    /\ HashIds(h)' \subseteq HashIds(h)
  <2>1. hashIndex \in [Kinds -> Seq(Nat)]
      BY DEF DatabaseTyped
  <2>2. CASE hx = NoHash
    <3>1. hashIndex' = hashIndex
        BY <2>2 DEF Discard, RemoveDevice
    <3>2. NoHash \notin Kinds
        BY CuratedConfig
    <3> QED BY <2>1, <2>2, <3>1, <3>2 DEF HashIds
  <2>3. CASE hx \in Kinds
    <3>1. hashIndex' = [hashIndex EXCEPT ![hx] = RemoveFirst(hashIndex[hx], x)]
        BY <2>3, CuratedConfig DEF Discard, RemoveDevice
    <3>2. /\ RemoveFirst(hashIndex[hx], x) \in Seq(Nat)
          /\ ToSet(RemoveFirst(hashIndex[hx], x)) \subseteq ToSet(hashIndex[hx])
      <4>1. hashIndex[hx] \in Seq(Nat)
          BY <2>1, <2>3
      <4> QED BY <4>1, RemoveFirstSet
    <3> HIDE DEF hx
    <3>3. /\ hashIndex' \in [Kinds -> Seq(Nat)]
          /\ hashIndex'[hx] = RemoveFirst(hashIndex[hx], x)
          /\ \A h \in Kinds : h # hx => hashIndex'[h] = hashIndex[h]
        BY <2>1, <2>3, <3>1, <3>2
    <3> QED BY <2>3, <3>2, <3>3 DEF HashIds
  <2> QED BY <1>1, <2>2, <2>3
<1>3. /\ platformIndex' \in [Q -> Seq(Nat)]
      /\ \A p \in Q : PlatformIds(p) \ {x} \subseteq PlatformIds(p)'
  <2>1. platformIndex \in [Q -> Seq(Nat)]
      BY DEF DatabaseTyped
  <2>2. platformIndex' = [platformIndex EXCEPT ![q] = RemoveFirst(platformIndex[q], x)]
      BY DEF Discard, RemoveDevice
  <2> HIDE DEF Q, q
  <2>3. /\ RemoveFirst(platformIndex[q], x) \in Seq(Nat)
        /\ ToSet(platformIndex[q]) \ {x} \subseteq ToSet(RemoveFirst(platformIndex[q], x))
    <3>1. platformIndex[q] \in Seq(Nat)
        BY <1>1, <2>1
    <3> QED BY <3>1, RemoveFirstSet
  <2>4. /\ platformIndex' \in [Q -> Seq(Nat)]
        /\ platformIndex'[q] = RemoveFirst(platformIndex[q], x)
        /\ \A p \in Q : p # q => platformIndex'[p] = platformIndex[p]
      BY <1>1, <2>1, <2>2, <2>3
  <2> QED BY <2>3, <2>4 DEF PlatformIds
<1>4. \A h \in Kinds : HashIds(h)' \subseteq HashIds(h)
    BY <1>2
<1> HIDE DEF hx
<1>5. DatabaseTyped'
  <2>1. Objects' = Objects /\ Ids' = Ids
      BY <1>0 DEF Objects, Ids
  <2>2. /\ Stored' \subseteq Ids' /\ Bundle' \subseteq Objects' /\ nextId' \in Nat /\ nextId' > 0
        /\ heap' \in Seq(DeviceSet)
      BY <1>0, <2>1 DEF DatabaseTyped
  <2>3. \A id \in Stored' : devices'[id] \in Objects'
      BY <1>0, <2>1 DEF DatabaseTyped
  <2>4. \A h \in Kinds : HashIds(h)' \subseteq Ids'
      BY <1>4, <2>1 DEF DatabaseTyped
  <2>5. \A o \in Bundle' : heap'[o].id \in Ids'
      BY <1>0, <2>1 DEF DatabaseTyped
  <2> QED BY <1>2, <1>3, <2>2, <2>3, <2>4, <2>5 DEF DatabaseTyped
<1>6. PlatformListed'
  <2> SUFFICES ASSUME NEW id \in Stored', id \notin moved
               PROVE  id \in PlatformIds(PlatformOf[At(id).kind])'
      BY <1>0 DEF PlatformListed
  <2>1. id \in Stored /\ id # x /\ At(id)' = At(id) /\ id \in PlatformIds(PlatformOf[At(id).kind])
      BY <1>0 DEF PlatformListed
  <2>2. PlatformOf[At(id).kind] \in Q
    <3>1. At(id) \in DeviceSet
        BY <2>1 DEF DatabaseTyped, Objects, At
    <3>2. At(id).kind \in Kinds
        BY <3>1 DEF DeviceSet
    <3> QED BY <3>2
  <2>3. PlatformIds(PlatformOf[At(id).kind])' = ToSet(platformIndex'[PlatformOf[At(id).kind]])
      BY <2>1 DEF PlatformIds
  <2>4. \A p \in Q : ToSet(platformIndex[p]) \ {x} \subseteq ToSet(platformIndex'[p])
      BY <1>3 DEF PlatformIds
  <2> QED BY <2>1, <2>2, <2>3, <2>4 DEF PlatformIds
<1>7. HashListed'
  <2> SUFFICES ASSUME NEW h \in Kinds, h \notin tangled
               PROVE  IsInjective(hashIndex'[h]) /\ HashIds(h)' = {id \in Stored' : At(id)'.hash = h}
      BY <1>0 DEF HashListed
  <2>1. IsInjective(hashIndex[h]) /\ HashIds(h) = {id \in Stored : At(id).hash = h}
      BY DEF HashListed
  <2>2. CASE h # hx
    <3>1. {id \in Stored' : At(id)'.hash = h} = {id \in Stored : At(id).hash = h}
        BY <1>0, <2>2 DEF hx
    <3>2. hashIndex'[h] = hashIndex[h] /\ HashIds(h)' = HashIds(h)
        BY <1>2, <2>2
    <3> QED BY <2>1, <3>1, <3>2
  <2>3. CASE h = hx
    <3>1. {id \in Stored' : At(id)'.hash = h} = {id \in Stored : At(id).hash = h} \ {x}
        BY <1>0
    <3>2. hashIndex[h] \in Seq(Nat) /\ hashIndex'[h] = RemoveFirst(hashIndex[h], x)
        BY <1>2, <2>3 DEF DatabaseTyped
    <3>3. ASSUME NEW s \in Seq(Nat), IsInjective(s)
          PROVE  IsInjective(RemoveFirst(s, x)) /\ ToSet(RemoveFirst(s, x)) = ToSet(s) \ {x}
        BY <3>3, RemoveFirstSet
    <3> QED BY <2>1, <3>1, <3>2, <3>3 DEF HashIds
  <2> QED BY <2>2, <2>3
<1>8. OwnIds'
  <2> SUFFICES ASSUME NEW id \in Stored', At(id)'.id # id
               PROVE  /\ devices'[id] \in Bundle' /\ At(id)'.hash \in tangled'
                      /\ At(id)'.id \in Stored' => At(At(id).id)'.hash \in tangled'
      BY DEF OwnIds
  <2>1. id \in Stored /\ At(id)' = At(id) /\ devices'[id] = devices[id]
      BY <1>0
  <2>2. ASSUME NEW y \in Stored' PROVE At(y)' = At(y) /\ y \in Stored
      BY <1>0
  <2> QED BY <1>0, <2>1, <2>2 DEF OwnIds
<1>9. OwnHash'
    BY <1>0, <1>4 DEF OwnHash
<1>10. BundleHash' /\ BundleIds'
    BY <1>0, <1>4 DEF BundleHash, BundleIds
<1>11. BundleFresh'
    BY <1>0, <1>4 DEF BundleFresh, Unsynced
<1> QED BY <1>5, <1>6, <1>7, <1>8, <1>9, <1>10, <1>11

\* UpdateDevice stores a device under the id it carries; what the indexes lose by it is
\* recorded in tangled and moved.
LEMMA UpdateKeeps ==
    ASSUME DatabaseInv, NEW o \in Objects, UpdateDevice(o),
           o \in Bundle => heap[o].hash # NoHash,
           UNCHANGED <<heap, hashIndex, platformIndex, nextId>>
    PROVE  DatabaseInv'
<1> USE DEF DatabaseInv
<1> DEFINE x == heap[o].id
<1>0. /\ Objects' = Objects /\ Ids' = Ids /\ Bundle' = Bundle /\ heap' = heap
      /\ \A h \in Kinds : hashIndex'[h] = hashIndex[h] /\ HashIds(h)' = HashIds(h)
      /\ \A p : PlatformIds(p)' = PlatformIds(p)
    BY DEF Objects, Ids, Bundle, HashIds, PlatformIds
<1>1. CASE x \notin Stored
  <2>1. devices' = devices /\ tangled' = tangled /\ moved' = moved
      BY <1>1 DEF UpdateDevice
  <2>2. Stored' = Stored /\ \A id \in Stored : At(id)' = At(id)
      BY <1>0, <2>1 DEF Stored, At
  <2>3. DatabaseTyped'
      BY <1>0, <2>1, <2>2 DEF DatabaseTyped
  <2>4. PlatformListed' /\ HashListed' /\ OwnIds' /\ OwnHash'
      BY <1>0, <2>1 DEF PlatformListed, HashListed, OwnIds, OwnHash, Stored, At, HashIds, PlatformIds
  <2>5. BundleHash' /\ BundleIds' /\ BundleFresh'
      BY <1>0, <2>1, <2>2 DEF BundleHash, BundleIds, BundleFresh, Unsynced
  <2> QED BY <2>3, <2>4, <2>5
<1>2. CASE x \in Stored
  <2>1. /\ Stored' = Stored /\ devices'[x] = o
        /\ \A id \in Stored : id # x => devices'[id] = devices[id]
        /\ tangled' = IF heap[o].hash = At(x).hash THEN tangled
                      ELSE tangled \union {heap[o].hash, At(x).hash}
        /\ moved' = IF PlatformOf[heap[o].kind] = PlatformOf[At(x).kind] THEN moved
                    ELSE moved \union {x}
      BY <1>2 DEF UpdateDevice, Stored
  <2>2. \A id \in Stored : IF id = x THEN At(id)' = heap[o] ELSE At(id)' = At(id)
      BY <1>0, <1>2, <2>1 DEF At
  <2>3. tangled \subseteq tangled' /\ moved \subseteq moved'
      BY <2>1
  <2>4. heap[o].hash = At(x).hash \/ (heap[o].hash \in tangled' /\ At(x).hash \in tangled')
      BY <2>1
  <2> HIDE DEF x
  <2>5. DatabaseTyped'
    <3>1. \A id \in Stored' : devices'[id] \in Objects'
        BY <1>0, <2>1 DEF DatabaseTyped
    <3> QED BY <1>0, <2>1, <3>1 DEF DatabaseTyped
  <2>6. PlatformListed'
    <3> SUFFICES ASSUME NEW id \in Stored, id \notin moved'
                 PROVE  id \in PlatformIds(PlatformOf[At(id).kind])'
        BY <2>1 DEF PlatformListed
    <3>1. id \in PlatformIds(PlatformOf[At(id).kind])
        BY <2>3 DEF PlatformListed
    <3>2. PlatformOf[At(id)'.kind] = PlatformOf[At(id).kind]
        BY <2>1, <2>2
    <3> QED BY <3>1, <3>2 DEF PlatformIds
  <2>7. HashListed'
    <3> SUFFICES ASSUME NEW h \in Kinds, h \notin tangled'
                 PROVE  IsInjective(hashIndex'[h]) /\ HashIds(h)' = {id \in Stored' : At(id)'.hash = h}
        BY DEF HashListed
    <3>1. {id \in Stored' : At(id)'.hash = h} = {id \in Stored : At(id).hash = h}
        BY <2>1, <2>2, <2>4
    <3> QED BY <1>0, <2>3, <3>1 DEF HashListed
  <2>8. OwnIds'
    <3> SUFFICES ASSUME NEW id \in Stored', At(id)'.id # id
                 PROVE  /\ devices'[id] \in Bundle' /\ At(id)'.hash \in tangled'
                        /\ At(id)'.id \in Stored' => At(At(id).id)'.hash \in tangled'
        BY DEF OwnIds
    <3>1. id # x /\ id \in Stored /\ At(id)' = At(id) /\ devices'[id] = devices[id]
        BY <2>1, <2>2 DEF x
    <3>2. /\ devices[id] \in Bundle /\ At(id).hash \in tangled
          /\ At(id).id \in Stored => At(At(id).id).hash \in tangled
        BY <3>1 DEF OwnIds
    <3>3. ASSUME NEW y \in Stored, At(y).hash \in tangled PROVE At(y)'.hash \in tangled'
        BY <2>2, <2>3, <2>4, <3>3
    <3> QED BY <1>0, <2>1, <2>3, <3>1, <3>2, <3>3
  <2>9. OwnHash'
    <3> SUFFICES ASSUME NEW h \in Kinds, NEW id \in HashIds(h), id \in Stored
                 PROVE  At(id)'.hash = h \/ At(id)'.hash \in tangled'
        BY <1>0, <2>1 DEF OwnHash
    <3>1. At(id).hash = h \/ At(id).hash \in tangled
        BY DEF OwnHash
    <3> QED BY <2>2, <2>3, <2>4, <3>1
  <2>10. BundleHash' /\ BundleIds'
      BY <1>0, <2>3 DEF BundleHash, BundleIds
  <2>11. BundleFresh'
    <3> SUFFICES ASSUME NEW p \in Bundle, heap[p].hash = NoHash PROVE Unsynced(p)'
        BY <1>0 DEF BundleFresh
    <3>1. Unsynced(p) /\ p # o
        BY DEF BundleFresh
    <3> QED BY <1>0, <2>1, <3>1 DEF Unsynced
  <2> QED BY <2>5, <2>6, <2>7, <2>8, <2>9, <2>10, <2>11
<1> QED BY <1>1, <1>2

\* A step of the heap alone: objects are added, and those there are keep id, hash and
\* platform, but for the hash that a device of a bundle gets with its first sync.
SameShape ==
    /\ heap' \in Seq(DeviceSet) /\ Len(heap) <= Len(heap')
    /\ \A p \in Objects :
         /\ heap'[p].id = heap[p].id /\ PlatformOf[heap'[p].kind] = PlatformOf[heap[p].kind]
         /\ \/ heap'[p].hash = heap[p].hash
            \/ p \in Bundle /\ heap[p].hash = NoHash /\ heap'[p].hash # NoHash
    /\ UNCHANGED <<devices, hashIndex, platformIndex, tangled, moved>>
    /\ nextId' \in Nat /\ nextId <= nextId'

\* The database stays sound when only the heap changes, and keeps its shape.
LEMMA ShapeKeeps == ASSUME DatabaseInv, SameShape PROVE DatabaseInv'
<1> USE DEF DatabaseInv
<1>0. /\ devices' = devices /\ hashIndex' = hashIndex /\ platformIndex' = platformIndex
      /\ tangled' = tangled /\ moved' = moved
      /\ Stored' = Stored /\ Bundle' = Bundle /\ \A h \in Kinds : HashIds(h)' = HashIds(h)
    BY DEF SameShape, Stored, Bundle, HashIds
<1>1. Objects \subseteq Objects' /\ Ids \subseteq Ids'
  <2>1. Len(heap) \in Nat /\ Len(heap') \in Nat /\ nextId \in Nat /\ nextId' \in Nat
      BY DEF SameShape, DatabaseTyped
  <2>2. Len(heap) <= Len(heap') /\ nextId <= nextId'
      BY DEF SameShape
  <2>3. Objects \subseteq Objects'
    <3>1. \A m, n \in Nat : m <= n => 1..m \subseteq 1..n
        OBVIOUS
    <3> QED BY <2>1, <2>2, <3>1 DEF Objects
  <2>4. Ids \subseteq Ids'
    <3>1. \A m, n \in Nat : m <= n => 1..(m - 1) \subseteq 1..(n - 1)
        OBVIOUS
    <3> QED BY <2>1, <2>2, <3>1 DEF Ids
  <2> QED BY <2>3, <2>4
<1>2. \A p \in Bundle : p \in Objects /\ heap'[p].id = heap[p].id
                        /\ (heap[p].hash # NoHash => heap'[p].hash = heap[p].hash)
    BY DEF SameShape, DatabaseTyped
<1>3. \A id \in Stored :
        /\ At(id)'.id = At(id).id /\ At(id)'.hash = At(id).hash
        /\ PlatformOf[At(id)'.kind] = PlatformOf[At(id).kind]
  <2> TAKE id \in Stored
  <2>1. devices[id] \in Objects
      BY DEF DatabaseTyped
  <2>2. ~(devices[id] \in Bundle /\ heap[devices[id]].hash = NoHash)
      BY DEF BundleFresh, Unsynced
  <2> QED BY <1>0, <2>1, <2>2 DEF SameShape, At
<1>4. DatabaseTyped'
  <2>1. nextId' \in Nat /\ nextId' > 0
      BY DEF DatabaseTyped, SameShape
  <2> QED BY <1>0, <1>1, <1>2, <2>1 DEF DatabaseTyped, SameShape
<1>5. PlatformListed'
    BY <1>0, <1>3 DEF PlatformListed, PlatformIds
<1>6. HashListed'
  <2>1. \A h \in Kinds : {id \in Stored' : At(id)'.hash = h} = {id \in Stored : At(id).hash = h}
      BY <1>0, <1>3
  <2> QED BY <1>0, <2>1 DEF HashListed
<1>7. OwnIds'
  <2> SUFFICES ASSUME NEW id \in Stored', At(id)'.id # id
               PROVE  /\ devices'[id] \in Bundle' /\ At(id)'.hash \in tangled'
                      /\ At(id)'.id \in Stored' => At(At(id).id)'.hash \in tangled'
      BY DEF OwnIds
  <2>1. At(id)'.id = At(id).id
      BY <1>0, <1>3
  <2> DEFINE y == At(id).id
  <2>2. y' = y
      BY <2>1
  <2>3. y \in Stored => At(y).hash \in tangled
      BY <1>0, <2>1 DEF OwnIds
  <2>4. ASSUME NEW z \in Stored PROVE At(z)'.hash = At(z).hash
      BY <1>3
  <2> HIDE DEF y
  <2>5. y' \in Stored' => At(y)'.hash \in tangled'
      BY <1>0, <2>2, <2>3, <2>4 DEF At
  <2>6. devices'[id] \in Bundle' /\ At(id)'.hash \in tangled'
      BY <1>0, <1>3, <2>1 DEF OwnIds
  <2> QED BY <2>5, <2>6 DEF y
<1>8. OwnHash'
    BY <1>0, <1>3 DEF OwnHash
<1>9. BundleHash'
  <2> SUFFICES ASSUME NEW h \in Kinds, NEW p \in Bundle, heap[p].id \in HashIds(h)
               PROVE  heap'[p].hash = h \/ heap'[p].hash \in tangled
      BY <1>0, <1>2 DEF BundleHash
  <2>1. heap[p].hash # NoHash
      BY DEF BundleFresh, Unsynced
  <2> QED BY <1>2, <2>1 DEF BundleHash
<1>10. BundleIds'
    BY <1>0, <1>2, CuratedConfig DEF BundleIds
<1>11. BundleFresh'
  <2> SUFFICES ASSUME NEW p \in Bundle, heap'[p].hash = NoHash PROVE Unsynced(p)'
      BY <1>0 DEF BundleFresh
  <2>1. heap[p].hash = NoHash
      BY <1>2
  <2> QED BY <1>0, <1>2, <2>1 DEF BundleFresh, Unsynced
<1> QED BY <1>4, <1>5, <1>6, <1>7, <1>8, <1>9, <1>10, <1>11

\* The heap on which a loader or a handler works: the present one, of which it stores a
\* device, or the present one with a new device at its end.
Extends(h, o) ==
    /\ h \in Seq(DeviceSet) /\ Len(heap) <= Len(h) /\ \A p \in Objects : h[p] = heap[p]
    /\ o \in 1..Len(h) /\ (o \in Objects \/ o = Len(heap) + 1)

\* AddDevice: a device of a bundle, or one that is not stored yet, under a new id.
LEMMA AddDeviceKeeps ==
    ASSUME DatabaseInv, NEW h, NEW o, Extends(h, o), AddDevice(h, o), moved' = moved,
           o \in Bundle \/ o \notin Pointers
    PROVE  DatabaseInv' /\ Puts(h, o, [h[o] EXCEPT !.id = nextId, !.hash = h[o].kind])
<1> USE DEF DatabaseInv
<1> DEFINE r == h[o]
           d == [h[o] EXCEPT !.id = nextId, !.hash = h[o].kind]
<1>1. r \in DeviceSet /\ nextId \in Nat /\ r.kind \in Kinds
  <2>1. r \in DeviceSet
      BY DEF Extends
  <2> QED BY <2>1 DEF DatabaseTyped, DeviceSet
<1>2. d \in DeviceSet /\ d.id = nextId /\ d.hash = r.kind /\ d.kind = r.kind
  <2> HIDE DEF r
  <2>1. [r EXCEPT !.id = nextId, !.hash = r.kind] \in DeviceSet
      BY <1>1 DEF DeviceSet
  <2>2. LET e == [r EXCEPT !.id = nextId, !.hash = r.kind]
        IN  e.id = nextId /\ e.hash = r.kind /\ e.kind = r.kind
      BY <1>1 DEF DeviceSet
  <2> QED BY <2>1, <2>2 DEF r
<1>3. /\ heap' = [h EXCEPT ![o] = d] /\ PutDevice(nextId, o) /\ updateIndexes(d)
      /\ nextId' = nextId + 1
      /\ tangled' = IF o \in Pointers THEN tangled \union {h[o].hash, d.hash} ELSE tangled
    BY DEF AddDevice, generateDeviceHash
<1> HIDE DEF d, r
<1>4. Puts(h, o, d)
  <2>1. nextId' \in Nat /\ nextId <= nextId' /\ nextId \in 1..(nextId' - 1)
    <3>1. nextId >= 1
        BY <1>1 DEF DatabaseTyped
    <3> QED BY <1>1, <1>3, <3>1
  <2> QED BY <1>1, <1>2, <1>3, <2>1 DEF Puts, Extends
<1>5. nextId \notin Ids
    BY <1>1 DEF Ids
<1>6. \A id \in Stored : devices[id] \in Objects /\ At(id) = heap[devices[id]]
                         /\ (devices[id] = o => o \in Pointers)
    BY DEF DatabaseTyped, At, Pointers
<1>7. o \in Objects => heap[o] = r
    BY DEF Extends, r
<1>8. PutTangles(o, d)
  <2>1. d.id \notin Stored /\ \A g \in Kinds : d.id \notin HashIds(g)
      BY <1>2, <1>5 DEF DatabaseTyped
  <2>2. \A p \in Bundle : heap[p].id # d.id
      BY <1>2, <1>5 DEF DatabaseTyped
  <2>3. \A id \in Stored : id # At(id).id => At(id).id # d.id
      BY <1>6, <2>2 DEF OwnIds
  <2>4. \A id \in Stored : At(id).id # d.id
      BY <2>1, <2>3
  <2>5. \A id \in Stored : devices[id] = o => /\ o \in Bundle /\ At(id).hash \in tangled'
                                              /\ d.hash \in tangled'
      BY <1>3, <1>6, <1>7 DEF r
  <2>6. tangled \subseteq tangled'
      BY <1>3
  <2>7. o \in Objects => heap[o].kind = d.kind
      BY <1>2, <1>7
  <2> QED BY <2>1, <2>2, <2>4, <2>5, <2>6, <2>7 DEF PutTangles
<1> QED BY <1>4, <1>8, PutKeeps DEF d

\* addDevice is called with the next device of a file, or with one of a bundle.
Loads(h, o) ==
    /\ Extends(h, o)
    /\ \/ o \in Bundle /\ nextId' = nextId
       \/ o = Len(heap) + 1 /\ h[o].hash = NoHash /\ h[o].id = nextId /\ nextId' = nextId + 1

Hashed(r) == IF r.hash = NoHash THEN r.kind ELSE r.hash

\* The device a loader hands to addDevice, and the stored ones, as the loader's heap
\* has them.
LEMMA LoadFacts ==
    ASSUME DatabaseInv, NEW h, NEW o, Loads(h, o)
    PROVE  /\ h[o] \in DeviceSet /\ h[o].kind \in Kinds /\ Hashed(h[o]) \in Kinds
           /\ o \in Bundle \/ o \notin Objects
           /\ o \in Bundle => o \in Objects /\ h[o] = heap[o] /\ h[o].id \in Ids
           /\ o \notin Bundle => h[o].hash = NoHash /\ h[o].id = nextId /\ nextId \notin Ids
           /\ nextId' \in Nat /\ nextId <= nextId' /\ Ids \subseteq 1..(nextId' - 1)
           /\ h[o].id \in 1..(nextId' - 1)
           /\ \A id \in Stored : /\ devices[id] \in Objects /\ At(id) = heap[devices[id]]
                                 /\ At(id) \in DeviceSet /\ h[devices[id]] = At(id)
           /\ \A id \in Stored : devices[id] = o =>
                o \in Bundle /\ At(id) = h[o] /\ At(id).hash = Hashed(h[o])
<1> USE DEF DatabaseInv
<1>1. /\ h \in Seq(DeviceSet) /\ Len(heap) <= Len(h) /\ o \in 1..Len(h)
      /\ \A p \in Objects : h[p] = heap[p]
      /\ \/ o \in Bundle /\ nextId' = nextId
         \/ o = Len(heap) + 1 /\ h[o].hash = NoHash /\ h[o].id = nextId /\ nextId' = nextId + 1
    BY DEF Loads, Extends
<1>2. h[o] \in DeviceSet
    BY <1>1
<1>3. h[o].kind \in Kinds /\ h[o].hash \in Kinds \union {NoHash}
    BY <1>2 DEF DeviceSet
<1>4. Hashed(h[o]) \in Kinds
    BY <1>3 DEF Hashed
<1>5. nextId \in Nat /\ nextId > 0 /\ Bundle \subseteq Objects /\ Len(heap) \in Nat
    BY DEF DatabaseTyped
<1>6. Len(heap) + 1 \notin Objects /\ nextId \notin Ids
    BY <1>5 DEF Objects, Ids
<1>7. nextId' \in Nat /\ nextId <= nextId' /\ Ids \subseteq 1..(nextId' - 1)
      /\ (nextId' = nextId + 1 => nextId \in 1..(nextId' - 1))
    BY <1>1, <1>5 DEF Ids
<1>8. /\ o \in Bundle \/ o \notin Objects
      /\ o \in Bundle => o \in Objects /\ h[o] = heap[o] /\ h[o].id \in Ids
      /\ o \notin Bundle => h[o].hash = NoHash /\ h[o].id = nextId
    BY <1>1, <1>5, <1>6 DEF DatabaseTyped
<1>9. h[o].id \in 1..(nextId' - 1)
    BY <1>1, <1>7, <1>8
<1>10. \A id \in Stored : /\ devices[id] \in Objects /\ At(id) = heap[devices[id]]
                          /\ At(id) \in DeviceSet /\ h[devices[id]] = At(id)
  <2>1. \A p \in Objects : heap[p] \in DeviceSet
      BY DEF DatabaseTyped, Objects
  <2> QED BY <1>1, <2>1 DEF DatabaseTyped, At
<1>11. ASSUME NEW id \in Stored, devices[id] = o
       PROVE  o \in Bundle /\ At(id) = h[o] /\ At(id).hash = Hashed(h[o])
  <2>1. o \in Bundle /\ At(id) = h[o]
      BY <1>8, <1>10, <1>11
  <2>2. heap[o].hash # NoHash
      BY <1>11, <2>1 DEF BundleFresh, Unsynced
  <2> QED BY <1>8, <2>1, <2>2 DEF Hashed
<1> QED BY <1>2, <1>3, <1>4, <1>6, <1>7, <1>8, <1>9, <1>10, <1>11

\* A device of a new hash, stored under its own id.
LEMMA LoadNew ==
    ASSUME DatabaseInv, NEW h, NEW o, Loads(h, o), moved' = moved,
           NEW d, d.id = h[o].id, d.hash = Hashed(h[o]), d.kind = h[o].kind,
           tangled' = IF d.id \in Stored THEN tangled \union {d.hash, At(d.id).hash} ELSE tangled
    PROVE  PutTangles(o, d)
<1> USE DEF DatabaseInv
<1>0. tangled \subseteq tangled'
    OBVIOUS
<1>1. /\ o \in Bundle \/ o \notin Objects
      /\ o \in Bundle => o \in Objects /\ h[o] = heap[o]
      /\ o \notin Bundle => d.id = nextId /\ nextId \notin Ids
      /\ \A id \in Stored : devices[id] \in Objects /\ At(id) = heap[devices[id]]
      /\ \A id \in Stored : devices[id] = o =>
           o \in Bundle /\ At(id) = h[o] /\ At(id).hash = Hashed(h[o])
    BY LoadFacts
<1>2. \A p \in Bundle : p # o /\ heap[p].id = d.id =>
        heap[p].hash \in Kinds \intersect tangled /\ d.hash \in tangled
  <2> SUFFICES ASSUME NEW p \in Bundle, p # o, heap[p].id = d.id
               PROVE  heap[p].hash \in Kinds \intersect tangled /\ d.hash \in tangled
      OBVIOUS
  <2>1. heap[p].id \in Ids
      BY DEF DatabaseTyped
  <2>2. o \in Bundle /\ h[o] = heap[o]
      BY <1>1, <2>1
  <2>3. heap[p].hash \in Kinds \intersect tangled /\ heap[o].hash \in Kinds \intersect tangled
      BY <2>2 DEF BundleIds
  <2>4. d.hash = heap[o].hash
      BY <2>2, <2>3, CuratedConfig DEF Hashed
  <2> QED BY <2>3, <2>4
<1>3. \A id \in Stored : id # d.id /\ devices[id] = o =>
        o \in Bundle /\ At(id).hash \in tangled /\ d.hash \in tangled
    BY <1>1 DEF OwnIds
<1>4. \A id \in Stored : id # d.id /\ At(id).id = d.id => d.hash \in tangled
    BY <1>1, <1>2, <1>3 DEF OwnIds
<1>5. \A g \in Kinds : d.id \in HashIds(g) => d.hash = g \/ d.hash \in tangled
  <2> SUFFICES ASSUME NEW g \in Kinds, d.id \in HashIds(g)
               PROVE  d.hash = g \/ d.hash \in tangled
      OBVIOUS
  <2>1. d.id \in Ids
      BY DEF DatabaseTyped
  <2>2. o \in Bundle /\ h[o] = heap[o]
      BY <1>1, <2>1
  <2>3. heap[o].hash # NoHash
      BY <2>2 DEF BundleFresh, Unsynced
  <2> QED BY <2>2, <2>3 DEF Hashed, BundleHash
<1>6. o \in Objects => heap[o].kind = d.kind
    BY <1>1
<1>7. d.id \in Stored => At(d.id).hash \in tangled' /\ d.hash \in tangled'
    OBVIOUS
<1> QED BY <1>0, <1>2, <1>3, <1>4, <1>5, <1>6, <1>7 DEF PutTangles

\* A device that takes the id of x, the first of its hash.
LEMMA LoadMerged ==
    ASSUME DatabaseInv, NEW h, NEW o, Loads(h, o), moved' = moved,
           NEW d, d.hash = Hashed(h[o]), d.kind = h[o].kind,
           NEW x \in Stored, x \in HashIds(d.hash), d.id = At(x).id,
           tangled' = tangled \union {d.hash}
    PROVE  PutTangles(o, d) /\ d.id \in Ids
<1> USE DEF DatabaseInv
<1>0. tangled \subseteq tangled' /\ d.hash \in tangled' /\ d.hash \in Kinds
    BY LoadFacts
<1>1. /\ o \in Bundle \/ o \notin Objects
      /\ o \in Bundle => o \in Objects /\ h[o] = heap[o]
      /\ \A id \in Stored : devices[id] \in Objects /\ At(id) = heap[devices[id]]
      /\ \A id \in Stored : devices[id] = o =>
           o \in Bundle /\ At(id) = h[o] /\ At(id).hash = Hashed(h[o])
    BY LoadFacts
<1>2. At(x).hash \in tangled'
    BY <1>0 DEF OwnHash
<1>3. d.id \in Stored => At(d.id).hash \in tangled'
    BY <1>0, <1>2 DEF OwnIds
<1>4. d.id \in Ids
    BY <1>1 DEF OwnIds, DatabaseTyped
<1>5. ASSUME NEW p \in Bundle, p # o, heap[p].id = d.id
      PROVE  heap[p].hash \in Kinds \intersect tangled'
  <2>0. heap[p].hash \in Kinds \union {NoHash}
    <3>1. heap[p] \in DeviceSet
        BY DEF DatabaseTyped, Objects
    <3> QED BY <3>1 DEF DeviceSet
  <2>1. CASE p = devices[x]
    <3>1. heap[p].hash # NoHash
        BY <2>1 DEF BundleFresh, Unsynced
    <3> QED BY <1>1, <1>2, <2>0, <2>1, <3>1
  <2>2. CASE p # devices[x] /\ devices[x] \in Bundle
      BY <1>0, <1>1, <1>5, <2>2 DEF BundleIds
  <2>3. CASE devices[x] \notin Bundle
    <3>1. heap[p].id = x
        BY <1>5, <2>3 DEF OwnIds
    <3>2. heap[p].hash = d.hash \/ heap[p].hash \in tangled
        BY <1>0, <3>1 DEF BundleHash
    <3>3. heap[p].hash # NoHash
        BY <3>1 DEF BundleFresh, Unsynced
    <3> QED BY <1>0, <2>0, <3>2, <3>3
  <2> QED BY <2>1, <2>2, <2>3
<1>6. o \in Objects => heap[o].kind = d.kind
    BY <1>1
<1>7. \A id \in Stored : devices[id] = o => o \in Bundle /\ At(id).hash \in tangled'
    BY <1>0, <1>1
<1> QED BY <1>0, <1>3, <1>4, <1>5, <1>6, <1>7 DEF PutTangles

\* What addDevice does: the device is stored under its own id, or under that of a stored
\* device of its hash and with its votes, or it gets its hash alone.
LoadsPut(h, o) ==
    \E d : /\ Puts(h, o, d) /\ PutTangles(o, d)
           /\ \/ d.id = h[o].id
              \/ \E x \in Stored : d.id = At(x).id /\ d.votes = At(x).votes
LoadsNothing(o) ==
    /\ SameShape
    /\ \A p \in Objects : heap'[p].votes = heap[p].votes /\ (p # o => heap'[p] = heap[p])

\* addDevice stores the device, or drops it.
LEMMA addDeviceDoes ==
    ASSUME DatabaseInv, NEW h, NEW o, Loads(h, o), addDevice(h, o), moved' = moved
    PROVE  LoadsPut(h, o) \/ LoadsNothing(o)
<1> DEFINE r == h[o]
           g == Hashed(r)
           d == [h[o] EXCEPT !.hash = IF h[o].hash = NoHash THEN generateDeviceHash(h[o]) ELSE h[o].hash]
           known == GetByDeviceHash(d.hash)
           x == CHOOSE id \in known : TRUE
           e == h[devices[x]]
           m == [d EXCEPT !.id = e.id, !.votes = e.votes, !.verified = e.verified \/ d.verified]
<1>1. /\ r \in DeviceSet /\ r.kind \in Kinds /\ g \in Kinds
      /\ o \in Bundle \/ o \notin Objects
      /\ o \in Bundle => o \in Objects /\ r = heap[o]
      /\ nextId' \in Nat /\ nextId <= nextId' /\ Ids \subseteq 1..(nextId' - 1)
      /\ r.id \in 1..(nextId' - 1)
      /\ \A id \in Stored : At(id) \in DeviceSet /\ h[devices[id]] = At(id)
    BY LoadFacts
<1>2. /\ h \in Seq(DeviceSet) /\ Len(heap) <= Len(h) /\ o \in 1..Len(h)
      /\ \A p \in Objects : h[p] = heap[p]
    BY DEF Loads, Extends
<1>3. /\ d \in DeviceSet /\ d.id = r.id /\ d.hash = g /\ d.kind = r.kind /\ d.votes = r.votes
  <2>1. d = [r EXCEPT !.hash = g]
      BY DEF Hashed, generateDeviceHash
  <2> HIDE DEF r, g, d
  <2>2. [r EXCEPT !.hash = g] \in DeviceSet
      BY <1>1 DEF DeviceSet
  <2>3. LET c == [r EXCEPT !.hash = g]
        IN  c.id = r.id /\ c.hash = g /\ c.kind = r.kind /\ c.votes = r.votes
      BY <1>1 DEF DeviceSet
  <2> QED BY <2>1, <2>2, <2>3
<1>4. IF known = {}
        THEN /\ heap' = [h EXCEPT ![o] = d] /\ PutDevice(d.id, o) /\ updateIndexes(d)
             /\ tangled' = IF d.id \in Stored THEN tangled \union {d.hash, At(d.id).hash}
                           ELSE tangled
        ELSE IF d.verified \/ d.votes > e.votes
          THEN /\ heap' = [h EXCEPT ![o] = m] /\ PutDevice(e.id, o) /\ updateIndexes(m)
               /\ tangled' = tangled \union {d.hash}
          ELSE /\ heap' = [h EXCEPT ![o] = d]
               /\ UNCHANGED <<devices, hashIndex, platformIndex, tangled>>
    BY DEF addDevice
<1>5. known # {} => x \in Stored /\ x \in HashIds(g)
  <2> SUFFICES ASSUME known # {} PROVE x \in Stored /\ x \in HashIds(g)
      OBVIOUS
  <2>1. x \in known
      BY Zenon
  <2>2. hashIndex[g] # <<>> /\ hashIndex[g][1] \in Stored /\ x = hashIndex[g][1]
      BY <1>3, <2>1 DEF GetByDeviceHash
  <2>3. hashIndex[g] \in Seq(Nat)
      BY <1>1 DEF DatabaseInv, DatabaseTyped
  <2>4. 1 \in DOMAIN hashIndex[g]
      BY <2>2, <2>3
  <2> QED BY <2>2, <2>4 DEF HashIds, ToSet
<1> HIDE DEF r, g, d, known, x
<1>6. CASE known = {}
  <2>1. Puts(h, o, d)
      BY <1>1, <1>2, <1>3, <1>4, <1>6 DEF Puts
  <2>2. PutTangles(o, d)
    <3>1. d.id = h[o].id /\ d.hash = Hashed(h[o]) /\ d.kind = h[o].kind
        BY <1>3 DEF r, g
    <3> QED BY <1>4, <1>6, <3>1, LoadNew
  <2> QED BY <1>3, <2>1, <2>2 DEF LoadsPut, r
<1>7. CASE known # {} /\ (d.verified \/ d.votes > e.votes)
  <2>0. e = At(x) /\ e \in DeviceSet /\ x \in Stored
      BY <1>1, <1>5, <1>7
  <2> HIDE DEF e
  <2>1. e.id \in Nat /\ e.votes \in Nat /\ (e.verified \/ d.verified) \in BOOLEAN
      BY <2>0 DEF DeviceSet
  <2>2. /\ m \in DeviceSet /\ m.id = e.id /\ m.hash = g /\ m.kind = r.kind /\ m.votes = e.votes
    <3>1. [d EXCEPT !.id = e.id, !.votes = e.votes, !.verified = e.verified \/ d.verified] \in DeviceSet
        BY <1>3, <2>1 DEF DeviceSet
    <3>2. m.id = e.id /\ m.hash = d.hash /\ m.kind = d.kind /\ m.votes = e.votes
        BY <1>3 DEF DeviceSet
    <3> QED BY <1>3, <3>1, <3>2
  <2>3. /\ heap' = [h EXCEPT ![o] = m] /\ PutDevice(e.id, o) /\ updateIndexes(m)
        /\ tangled' = tangled \union {m.hash}
      BY <1>3, <1>4, <1>7, <2>2
  <2> HIDE DEF m
  <2>4. PutTangles(o, m) /\ m.id \in Ids
    <3>1. m.hash = Hashed(h[o]) /\ m.kind = h[o].kind /\ x \in HashIds(m.hash) /\ m.id = At(x).id
        BY <1>5, <1>7, <2>0, <2>2 DEF r, g
    <3> QED BY <2>0, <2>3, <3>1, LoadMerged
  <2>5. Puts(h, o, m)
      BY <1>1, <1>2, <2>2, <2>3, <2>4 DEF Puts
  <2> QED BY <2>0, <2>2, <2>4, <2>5 DEF LoadsPut
<1>8. CASE known # {} /\ ~(d.verified \/ d.votes > e.votes)
  <2>1. heap' = [h EXCEPT ![o] = d] /\ UNCHANGED <<devices, hashIndex, platformIndex, tangled>>
      BY <1>4, <1>8
  <2>2. Len(heap) \in Nat
      BY DEF DatabaseInv, DatabaseTyped
  <2>3. /\ heap' \in Seq(DeviceSet) /\ Len(heap') = Len(h) /\ heap'[o] = d
        /\ \A p \in 1..Len(h) : p # o => heap'[p] = h[p]
      BY <1>2, <1>3, <2>1
  <2>4. \A p \in Objects : p # o => heap'[p] = heap[p]
      BY <1>2, <2>2, <2>3 DEF Objects
  <2>5. ASSUME o \in Objects
        PROVE  /\ heap'[o].id = heap[o].id /\ heap'[o].kind = heap[o].kind
               /\ heap'[o].votes = heap[o].votes
               /\ \/ heap'[o].hash = heap[o].hash
                  \/ o \in Bundle /\ heap[o].hash = NoHash /\ heap'[o].hash # NoHash
    <3>1. o \in Bundle /\ r = heap[o]
        BY <1>1, <2>5
    <3> QED BY <1>1, <1>3, <2>3, <3>1, CuratedConfig DEF Hashed, g
  <2>6. SameShape
      BY <1>1, <1>2, <2>1, <2>3, <2>4, <2>5 DEF SameShape
  <2> QED BY <2>4, <2>5, <2>6 DEF LoadsNothing
<1> QED BY <1>6, <1>7, <1>8

\* addDevice keeps the database sound.
LEMMA addDeviceKeeps ==
    ASSUME DatabaseInv, NEW h, NEW o, Loads(h, o), addDevice(h, o), moved' = moved
    PROVE  DatabaseInv'
<1>1. CASE LoadsPut(h, o)
    BY <1>1, PutKeeps DEF LoadsPut
<1>2. CASE LoadsNothing(o)
    BY <1>2, ShapeKeeps DEF LoadsNothing
<1> QED BY <1>1, <1>2, addDeviceDoes

-----------------------------------------------------------------------------
(* The requests in progress *)

RequestSet ==
    [at : {"idle"}] \union [at : {"edit", "save", "import"}, obj : Nat]
      \union [at : {"delete"}, id : Nat]
      \union [at : {"sync platform", "sync all"}, next : Nat]

Holds(r) == r.at \in {"edit", "save", "import"}
Edits(r) == r.at \in {"edit", "save"}
Syncs(r) == r.at \in {"sync platform", "sync all"}

\* Handlers hold devices of the heap.  One that is being edited has its hash; one that
\* is being imported is its request's own.
RequestsSound ==
    /\ request \in [Admins -> RequestSet]
    /\ \A a \in Admins : Holds(request[a]) => request[a].obj \in Objects
    /\ \A a \in Admins : Edits(request[a]) /\ request[a].obj \in Bundle =>
         heap[request[a].obj].hash # NoHash
    /\ \A a \in Admins : Syncs(request[a]) => request[a].next \in Bundle
    /\ \A a \in Admins : request[a].at = "import" =>
         /\ request[a].obj \notin Bundle /\ request[a].obj \notin Pointers
         /\ \A b \in Admins \ {a} : Holds(request[b]) => request[b].obj # request[a].obj

\* A step in which no device is lost, no hash is unset and only devices of S become
\* stored that were not.
HeapGrows(S) ==
    /\ Objects \subseteq Objects'
    /\ \A p \in Objects : heap[p].hash # NoHash => heap'[p].hash # NoHash
    /\ Pointers' \subseteq Pointers \union S

\* Storing device o makes no other device stored.
LEMMA PutGrows ==
    ASSUME DatabaseInv, NEW h, NEW o, NEW d, Puts(h, o, d) PROVE HeapGrows({o})
<1>0. DatabaseTyped
    BY DEF DatabaseInv
<1>1. /\ Stored' = Stored \union {d.id}
      /\ heap' \in Seq(DeviceSet) /\ Len(heap') = Len(h) /\ heap'[o] = d
      /\ \A p \in Objects : p # o => heap'[p] = heap[p]
      /\ devices'[d.id] = o
      /\ \A id \in Stored : id # d.id => devices'[id] = devices[id]
    BY <1>0, PutStored
<1>2. d.hash # NoHash /\ Len(heap) <= Len(h) /\ h \in Seq(DeviceSet)
    BY CuratedConfig DEF Puts
<1>3. Objects \subseteq Objects'
  <2>1. Len(heap) \in Nat /\ Len(h) \in Nat
      BY <1>0, <1>2 DEF DatabaseTyped
  <2> QED BY <1>1, <1>2, <2>1 DEF Objects
<1>4. Pointers' \subseteq Pointers \union {o}
    BY <1>1 DEF Pointers
<1> QED BY <1>1, <1>2, <1>3, <1>4 DEF HeapGrows

\* A step of the heap alone makes no device stored.
LEMMA ShapeGrows == ASSUME DatabaseInv, SameShape PROVE HeapGrows({})
<1>1. Objects \subseteq Objects'
  <2>1. Len(heap) \in Nat /\ Len(heap') \in Nat /\ Len(heap) <= Len(heap')
      BY DEF DatabaseInv, DatabaseTyped, SameShape
  <2> QED BY <2>1 DEF Objects
<1>2. Pointers' = Pointers
    BY DEF SameShape, Pointers, Stored
<1> QED BY <1>1, <1>2 DEF SameShape, HeapGrows

\* The requests stay sound when one of them goes on: what it holds then exists, has a
\* hash if it edits a device of a bundle, and is nobody else's if it imports.
LEMMA RequestsKeep ==
    ASSUME DatabaseInv, RequestsSound, NEW S, HeapGrows(S), NEW a \in Admins, NEW r \in RequestSet,
           request' = [request EXCEPT ![a] = r],
           Holds(r) => r.obj \in Objects',
           Edits(r) => /\ r.obj \in Bundle => heap'[r.obj].hash # NoHash
                       /\ \A b \in Admins \ {a} : request[b].at = "import" => request[b].obj # r.obj,
           Syncs(r) => r.next \in Bundle,
           r.at = "import" => r.obj \notin Objects /\ r.obj \notin Pointers',
           \A b \in Admins \ {a} : request[b].at = "import" => request[b].obj \notin S
    PROVE  RequestsSound'
<1>0. Bundle' = Bundle /\ Bundle \subseteq Objects
    BY DEF Bundle, DatabaseInv, DatabaseTyped
<1>1. /\ request \in [Admins -> RequestSet] /\ request' \in [Admins -> RequestSet]
      /\ request'[a] = r /\ \A b \in Admins : b # a => request'[b] = request[b]
    BY DEF RequestsSound
<1>2. \A b \in Admins : Holds(request'[b]) => request'[b].obj \in Objects'
    BY <1>1 DEF RequestsSound, HeapGrows
<1>3. ASSUME NEW b \in Admins, Edits(request'[b]), request'[b].obj \in Bundle
      PROVE  heap'[request'[b].obj].hash # NoHash
  <2>1. CASE b = a
      BY <1>1, <1>3, <2>1
  <2>2. CASE b # a
    <3>1. request'[b] = request[b] /\ Edits(request[b]) /\ request[b].obj \in Bundle
        BY <1>1, <1>3, <2>2
    <3>2. request[b].obj \in Objects /\ heap[request[b].obj].hash # NoHash
        BY <1>0, <3>1 DEF RequestsSound
    <3> QED BY <3>1, <3>2 DEF HeapGrows
  <2> QED BY <2>1, <2>2
<1>4. \A b \in Admins : Syncs(request'[b]) => request'[b].next \in Bundle
    BY <1>1 DEF RequestsSound
<1>5. ASSUME NEW b \in Admins, request'[b].at = "import"
      PROVE  /\ request'[b].obj \notin Bundle /\ request'[b].obj \notin Pointers'
             /\ \A c \in Admins \ {b} : Holds(request'[c]) => request'[c].obj # request'[b].obj
  <2>1. CASE b = a
    <3>1. r.obj \notin Objects /\ r.obj \notin Pointers' /\ request'[b] = r
        BY <1>1, <1>5, <2>1
    <3>2. \A c \in Admins \ {b} : Holds(request[c]) => request[c].obj \in Objects
        BY DEF RequestsSound
    <3> QED BY <1>0, <1>1, <2>1, <3>1, <3>2
  <2>2. CASE b # a
    <3>1. request'[b] = request[b] /\ request[b].at = "import"
        BY <1>1, <1>5, <2>2
    <3>2. /\ request[b].obj \notin Bundle /\ request[b].obj \notin Pointers
          /\ \A c \in Admins \ {b} : Holds(request[c]) => request[c].obj # request[b].obj
          /\ request[b].obj \notin S /\ request[b].obj \in Objects
        BY <2>2, <3>1 DEF RequestsSound, Holds
    <3>3. request[b].obj \notin Pointers'
        BY <3>2 DEF HeapGrows
    <3>4. ASSUME Holds(r) PROVE r.obj # request[b].obj
      <4>1. CASE Edits(r)
          BY <2>2, <3>1, <4>1
      <4>2. CASE r.at = "import"
          BY <3>2, <4>2
      <4> QED BY <3>4, <4>1, <4>2 DEF Holds, Edits
    <3> QED BY <1>1, <3>1, <3>2, <3>3, <3>4
  <2> QED BY <2>1, <2>2
<1> QED BY <1>0, <1>1, <1>2, <1>3, <1>4, <1>5 DEF RequestsSound

\* The requests stay sound when none of them goes on.
LEMMA RequestsStay ==
    ASSUME DatabaseInv, RequestsSound, NEW S, HeapGrows(S), request' = request,
           \A b \in Admins : request[b].at = "import" => request[b].obj \notin S
    PROVE  RequestsSound'
<1>0. Bundle' = Bundle /\ Bundle \subseteq Objects
    BY DEF Bundle, DatabaseInv, DatabaseTyped
<1>1. \A b \in Admins : Holds(request[b]) => request[b].obj \in Objects /\ request[b].obj \in Objects'
    BY DEF RequestsSound, HeapGrows
<1>2. \A b \in Admins : Edits(request[b]) /\ request[b].obj \in Bundle =>
        heap'[request[b].obj].hash # NoHash
    BY <1>0, <1>1 DEF RequestsSound, HeapGrows, Holds, Edits
<1>3. \A b \in Admins : request[b].at = "import" => request[b].obj \notin Pointers'
    BY DEF RequestsSound, HeapGrows
<1> QED BY <1>0, <1>1, <1>2, <1>3 DEF RequestsSound

\* A new device at the end of the heap.
LEMMA Allocated ==
    ASSUME DatabaseInv, NEW r \in DeviceSet
    PROVE  /\ Extends(Append(heap, r), NewObject) /\ Append(heap, r)[NewObject] = r
           /\ NewObject \notin Objects /\ NewObject = Len(heap) + 1
           /\ NewObject \notin Bundle /\ NewObject \notin Pointers
           /\ NewObject \in 1..Len(Append(heap, r)) /\ Len(heap) <= Len(Append(heap, r))
           /\ Append(heap, r) \in Seq(DeviceSet)
           /\ \A p \in Objects : Append(heap, r)[p] = heap[p]
<1>1. heap \in Seq(DeviceSet) /\ Len(heap) \in Nat
    BY DEF DatabaseInv, DatabaseTyped
<1>2. /\ Append(heap, r) \in Seq(DeviceSet) /\ Len(Append(heap, r)) = Len(heap) + 1
      /\ Append(heap, r)[Len(heap) + 1] = r
      /\ \A p \in 1..Len(heap) : Append(heap, r)[p] = heap[p]
    BY <1>1
<1>3. NewObject \notin Objects /\ NewObject = Len(heap) + 1
    BY <1>1 DEF NewObject, Objects
<1>4. NewObject \notin Bundle /\ NewObject \notin Pointers
    BY <1>3 DEF DatabaseInv, DatabaseTyped, Pointers
<1>5. NewObject \in 1..Len(Append(heap, r)) /\ Len(heap) <= Len(Append(heap, r))
    BY <1>1, <1>2, <1>3
<1> QED BY <1>2, <1>3, <1>4, <1>5 DEF Extends, Objects

\* Appending a device changes none of those there are.
LEMMA AppendShape ==
    ASSUME DatabaseInv, NEW r \in DeviceSet, heap' = Append(heap, r),
           UNCHANGED <<devices, hashIndex, platformIndex, nextId, tangled, moved>>
    PROVE  SameShape /\ NewObject \in Objects'
<1>1. nextId \in Nat /\ nextId <= nextId
    BY DEF DatabaseInv, DatabaseTyped
<1> QED BY <1>1, Allocated DEF SameShape, Objects

\* Setting the votes, or the kind within its platform and the verification.
LEMMA EditShape ==
    ASSUME DatabaseInv, NEW o \in Objects, NEW r \in DeviceSet,
           r.id = heap[o].id, r.hash = heap[o].hash,
           PlatformOf[r.kind] = PlatformOf[heap[o].kind],
           heap' = [heap EXCEPT ![o] = r],
           UNCHANGED <<devices, hashIndex, platformIndex, nextId, tangled, moved>>
    PROVE  SameShape /\ Objects' = Objects /\ heap'[o] = r
           /\ \A p \in Objects : p # o => heap'[p] = heap[p]
<1>1. heap \in Seq(DeviceSet) /\ nextId \in Nat /\ nextId <= nextId
    BY DEF DatabaseInv, DatabaseTyped
<1>2. /\ heap' \in Seq(DeviceSet) /\ Len(heap') = Len(heap) /\ heap'[o] = r
      /\ \A p \in Objects : p # o => heap'[p] = heap[p]
    BY <1>1 DEF Objects
<1>3. Len(heap) <= Len(heap')
  <2>1. Len(heap) \in Nat
      BY <1>1
  <2> QED BY <1>2, <2>1
<1> QED BY <1>1, <1>2, <1>3 DEF SameShape, Objects

\* The fields of a device.
LEMMA DeviceFields ==
    ASSUME NEW r \in DeviceSet
    PROVE  /\ r.id \in Nat /\ r.hash \in Kinds \union {NoHash} /\ r.kind \in Kinds
           /\ r.votes \in Nat /\ r.verified \in BOOLEAN
BY DEF DeviceSet

\* A stored device is one of the heap, and has a hash if it is of a bundle.
LEMMA StoredDevice ==
    ASSUME DatabaseInv, NEW id \in Stored
    PROVE  /\ devices[id] \in Objects /\ At(id) = heap[devices[id]] /\ At(id) \in DeviceSet
           /\ At(id).votes \in Nat /\ id \in Nat /\ devices[id] \in Pointers
           /\ devices[id] \in Bundle => At(id).hash # NoHash
<1>1. devices[id] \in Objects /\ heap \in Seq(DeviceSet) /\ id \in Ids
    BY DEF DatabaseInv, DatabaseTyped
<1>2. At(id) = heap[devices[id]] /\ At(id) \in DeviceSet
    BY <1>1 DEF At, Objects
<1>3. devices[id] \in Bundle => At(id).hash # NoHash
    BY <1>2 DEF DatabaseInv, BundleFresh, Unsynced
<1>4. id \in Nat
    BY <1>1 DEF Ids
<1> QED BY <1>1, <1>2, <1>3, <1>4, DeviceFields DEF Pointers

\* A sync goes on with the next device of the bundle.
LEMMA RequestKinds ==
    ASSUME NEW r \in RequestSet
    PROVE  /\ Holds(r) => r.obj \in Nat
           /\ Syncs(r) => \A n \in Nat : [r EXCEPT !.next = n] \in RequestSet
                                         /\ [r EXCEPT !.next = n].next = n
                                         /\ Syncs([r EXCEPT !.next = n])
                                         /\ ~Holds([r EXCEPT !.next = n])
<1>1. Holds(r) => r.obj \in Nat
    BY DEF RequestSet, Holds
<1>2. ASSUME Syncs(r), NEW n \in Nat
      PROVE  /\ [r EXCEPT !.next = n] \in RequestSet /\ [r EXCEPT !.next = n].next = n
             /\ [r EXCEPT !.next = n].at = r.at
  <2>1. r \in [at : {"sync platform", "sync all"}, next : Nat]
      BY <1>2 DEF RequestSet, Syncs
  <2> QED BY <2>1 DEF RequestSet
<1> QED BY <1>1, <1>2 DEF Syncs, Holds

\* The requests the handlers proceed to are requests.
LEMMA NewRequests ==
    /\ NoRequest \in RequestSet /\ NoRequest.at = "idle"
    /\ ~Holds(NoRequest) /\ ~Edits(NoRequest) /\ ~Syncs(NoRequest)
    /\ \A n \in Nat : \A s \in {"edit", "save", "import"} :
         LET r == [at |-> s, obj |-> n] IN r \in RequestSet /\ r.at = s /\ r.obj = n /\ ~Syncs(r)
    /\ \A n \in Nat : LET r == [at |-> "delete", id |-> n]
                      IN  r \in RequestSet /\ ~Holds(r) /\ ~Edits(r) /\ ~Syncs(r) /\ r.at = "delete"
    /\ \A s \in {"sync platform", "sync all"} :
         LET r == [at |-> s, next |-> 1]
         IN  r \in RequestSet /\ ~Holds(r) /\ ~Edits(r) /\ r.next = 1 /\ r.at = s
BY DEF NoRequest, RequestSet, Holds, Edits, Syncs

-----------------------------------------------------------------------------
(* The votes *)

\* No device of a bundle was synced twice.
Once == \A i \in Bundle : syncs[i] <= 1
OwnOnly == \A id \in Stored : At(id).id = id
VotesGrow == \A id \in Stored \intersect Stored' : At(id)'.votes >= At(id).votes

\* A device of a bundle that was not synced has no hash, and after one sync each every
\* device is stored under the id it carries.
SyncsSound ==
    /\ syncs \in [Bundle -> 0..2]
    /\ \A i \in Bundle : syncs[i] = 0 => heap[i].hash = NoHash
    /\ Once => OwnOnly

\* Storing a device that was not stored takes no votes, if it has as many as the one
\* it replaces.
LEMMA PutVotes ==
    ASSUME DatabaseInv, NEW h, NEW o, NEW d, Puts(h, o, d), OwnOnly,
           \A id \in Stored : devices[id] # o,
           d.id \in Stored => d.votes >= At(d.id).votes
    PROVE  OwnOnly' /\ VotesGrow
<1>0. DatabaseTyped
    BY DEF DatabaseInv
<1>1. /\ Stored' = Stored \union {d.id} /\ At(d.id)' = d
      /\ \A id \in Stored : id # d.id => (devices[id] # o => At(id)' = At(id))
    BY <1>0, PutStored
<1>2. \A id \in Stored : id # d.id => At(id)' = At(id)
    BY <1>1
<1>3. OwnOnly'
    BY <1>1, <1>2 DEF OwnOnly
<1>4. ASSUME NEW id \in Stored PROVE At(id)'.votes >= At(id).votes
  <2>1. At(id).votes \in Nat
      BY <1>4, StoredDevice
  <2>2. CASE id = d.id
      BY <1>1, <2>2
  <2>3. CASE id # d.id
      BY <1>2, <2>1, <2>3
  <2> QED BY <2>2, <2>3
<1> QED BY <1>3, <1>4 DEF VotesGrow

\* A step of the heap alone takes no votes if it takes none from a device.
LEMMA ShapeVotes ==
    ASSUME DatabaseInv, SameShape, \A p \in Objects : heap'[p].votes >= heap[p].votes
    PROVE  (OwnOnly => OwnOnly') /\ VotesGrow
<1>1. Stored' = Stored /\ devices' = devices
    BY DEF SameShape, Stored
<1>2. \A id \in Stored : devices[id] \in Objects
    BY DEF DatabaseInv, DatabaseTyped
<1>3. \A id \in Stored : At(id)'.id = At(id).id /\ At(id)'.votes >= At(id).votes
    BY <1>1, <1>2 DEF At, SameShape
<1> QED BY <1>1, <1>3 DEF OwnOnly, VotesGrow

\* What every step is shown to keep.
Steps ==
    /\ DatabaseInv' /\ RequestsSound' /\ SyncsSound'
    /\ Once' /\ ~concurrent' => VotesGrow

\* The steps of the heap alone.
LEMMA ShapeSteps ==
    ASSUME DatabaseInv, SyncsSound, SameShape, RequestsSound', syncs' = syncs,
           \A p \in Objects : heap'[p].votes >= heap[p].votes /\ heap'[p].hash = heap[p].hash
    PROVE  Steps
<1>1. DatabaseInv' /\ (OwnOnly => OwnOnly') /\ VotesGrow
    BY ShapeKeeps, ShapeVotes
<1>2. Bundle \subseteq Objects /\ Bundle' = Bundle
    BY DEF DatabaseInv, DatabaseTyped, Bundle
<1>3. Once' = Once
    BY <1>2 DEF Once
<1>4. SyncsSound'
    BY <1>1, <1>2, <1>3 DEF SyncsSound
<1> QED BY <1>1, <1>4 DEF Steps

\* The steps that store a device that was not.
LEMMA PutSteps ==
    ASSUME DatabaseInv, SyncsSound, DatabaseInv', RequestsSound', syncs' = syncs,
           NEW h, NEW o, NEW d, Puts(h, o, d), o \notin Bundle, o \notin Pointers,
           Once /\ d.id \in Stored => d.votes >= At(d.id).votes
    PROVE  Steps
<1>0. Bundle \subseteq Objects /\ Bundle' = Bundle /\ DatabaseTyped
    BY DEF DatabaseInv, DatabaseTyped, Bundle
<1>1. Once' = Once
    BY <1>0 DEF Once
<1>2. \A id \in Stored : devices[id] # o
    BY DEF Pointers
<1>3. Once => OwnOnly' /\ VotesGrow
    BY <1>2, PutVotes DEF SyncsSound
<1>4. \A p \in Bundle : heap'[p] = heap[p]
    BY <1>0, PutStored
<1>5. SyncsSound'
    BY <1>0, <1>1, <1>3, <1>4 DEF SyncsSound
<1> QED BY <1>1, <1>3, <1>5 DEF Steps

-----------------------------------------------------------------------------
(* The steps *)

CuratedInv == DatabaseInv /\ RequestsSound /\ SyncsSound

\* Load: the next device of a file, by addDevice.
LEMMA LoadFileSteps ==
    ASSUME CuratedInv, NEW k \in Kinds, NEW n \in Nat, NEW v \in BOOLEAN, LoadFile(k, n, v)
    PROVE  Steps
<1> USE DEF CuratedInv
<1> DEFINE r == Device(nextId, NoHash, k, n, v, FALSE)
           h == Append(heap, r)
           o == NewObject
<1>0. addDevice(h, Len(heap) + 1) /\ nextId' = nextId + 1 /\ UNCHANGED <<request, moved, syncs>>
    BY DEF LoadFile
<1>1. r \in DeviceSet /\ r.hash = NoHash /\ r.id = nextId
  <2>1. nextId \in Nat
      BY DEF DatabaseInv, DatabaseTyped
  <2> QED BY <2>1 DEF Device, DeviceSet
<1> HIDE DEF r
<1>2. /\ Extends(h, o) /\ h[o] = r /\ o \notin Objects /\ o = Len(heap) + 1
      /\ o \notin Bundle /\ o \notin Pointers
    BY <1>1, Allocated
<1> HIDE DEF h, o
<1>3. Loads(h, o)
    BY <1>0, <1>1, <1>2 DEF Loads
<1>4. addDevice(h, o)
    BY <1>0, <1>2
<1>5. DatabaseInv' /\ (LoadsPut(h, o) \/ LoadsNothing(o))
    BY <1>0, <1>3, <1>4, addDeviceKeeps, addDeviceDoes
<1>6. CASE LoadsPut(h, o)
  <2>1. PICK d : /\ Puts(h, o, d)
                 /\ d.id = h[o].id \/ \E x \in Stored : d.id = At(x).id /\ d.votes = At(x).votes
      BY <1>6 DEF LoadsPut
  <2>2. HeapGrows({o})
      BY <2>1, PutGrows
  <2>3. \A b \in Admins : request[b].at = "import" => request[b].obj \notin {o}
      BY <1>2 DEF RequestsSound, Holds
  <2>4. RequestsSound'
      BY <1>0, <2>2, <2>3, RequestsStay
  <2>5. ASSUME Once, d.id \in Stored PROVE d.votes >= At(d.id).votes
    <3>1. nextId \notin Ids /\ Stored \subseteq Ids
        BY DEF DatabaseInv, DatabaseTyped, Ids
    <3>2. PICK x \in Stored : d.id = At(x).id /\ d.votes = At(x).votes
        BY <1>1, <1>2, <2>1, <2>5, <3>1
    <3>3. At(x).id = x
        BY <2>5 DEF SyncsSound, OwnOnly
    <3>4. At(d.id).votes \in Nat
        BY <2>5, StoredDevice
    <3> QED BY <3>2, <3>3, <3>4
  <2> QED BY <1>0, <1>2, <1>5, <2>1, <2>4, <2>5, PutSteps
<1>7. CASE LoadsNothing(o)
  <2>1. SameShape /\ \A p \in Objects : heap'[p] = heap[p]
      BY <1>2, <1>7 DEF LoadsNothing
  <2>2. RequestsSound'
      BY <1>0, <2>1, ShapeGrows, RequestsStay
  <2>3. \A p \in Objects : heap'[p].votes >= heap[p].votes /\ heap'[p].hash = heap[p].hash
    <3>1. \A p \in Objects : heap[p] \in DeviceSet
        BY DEF DatabaseInv, DatabaseTyped, Objects
    <3>2. \A p \in Objects : heap[p].votes \in Nat
        BY <3>1, DeviceFields
    <3> QED BY <2>1, <3>2
  <2> QED BY <1>0, <2>1, <2>2, <2>3, ShapeSteps
<1> QED BY <1>5, <1>6, <1>7

\* Steps that leave heap and database as they are.
LEMMA RequestSteps ==
    ASSUME CuratedInv, RequestsSound',
           UNCHANGED <<heap, devices, hashIndex, platformIndex, nextId, tangled, moved, syncs>>
    PROVE  Steps
<1> USE DEF CuratedInv
<1>1. heap \in Seq(DeviceSet) /\ nextId \in Nat
    BY DEF DatabaseInv, DatabaseTyped
<1>2. \A p \in Objects : heap[p] \in DeviceSet
    BY <1>1 DEF Objects
<1>3. \A p \in Objects : heap[p].votes \in Nat
    BY <1>2, DeviceFields
<1>4. Len(heap) \in Nat
    BY <1>1
<1>5. SameShape
    BY <1>1, <1>4 DEF SameShape
<1>6. \A p \in Objects : heap'[p].votes >= heap[p].votes /\ heap'[p].hash = heap[p].hash
    BY <1>3
<1> QED BY <1>5, <1>6, ShapeSteps

\* A step of the requests alone.
LEMMA Unchanged ==
    ASSUME DatabaseInv, UNCHANGED <<heap, devices>> PROVE HeapGrows({})
BY DEF HeapGrows, Objects, Pointers, Stored

\* The steps by AddDevice of a device that is not stored.
LEMMA AddSteps ==
    ASSUME CuratedInv, NEW h, NEW o, Extends(h, o), AddDevice(h, o),
           UNCHANGED <<moved, syncs>>, o \notin Bundle, o \notin Pointers, RequestsSound'
    PROVE  Steps
<1> USE DEF CuratedInv
<1> DEFINE d == [h[o] EXCEPT !.id = nextId, !.hash = h[o].kind]
<1>1. DatabaseInv' /\ Puts(h, o, d)
    BY AddDeviceKeeps
<1>2. d.id = nextId
  <2>1. h[o] \in DeviceSet
      BY DEF Extends
  <2> QED BY <2>1 DEF DeviceSet
<1>3. nextId \notin Stored
    BY DEF DatabaseInv, DatabaseTyped, Ids
<1> HIDE DEF d
<1> QED BY <1>1, <1>2, <1>3, PutSteps

\* handleCreateCuratedDevice: a new device, by AddDevice.
LEMMA handleCreateSteps ==
    ASSUME CuratedInv, NEW a \in Admins, NEW k \in Kinds, handleCreate(a, k), syncs' = syncs
    PROVE  Steps
<1> USE DEF CuratedInv
<1> DEFINE r == Device(0, NoHash, k, 0, FALSE, FALSE)
           h == Append(heap, r)
           o == NewObject
<1>0. AddDevice(h, o) /\ UNCHANGED <<request, moved>>
    BY DEF handleCreate
<1>1. r \in DeviceSet
    BY DEF Device, DeviceSet
<1> HIDE DEF r
<1>2. Extends(h, o) /\ o \notin Objects /\ o \notin Bundle /\ o \notin Pointers
    BY <1>1, Allocated
<1> HIDE DEF h, o
<1>3. HeapGrows({o})
    BY <1>0, <1>2, AddDeviceKeeps, PutGrows
<1>4. RequestsSound'
  <2>1. \A b \in Admins : request[b].at = "import" => request[b].obj \notin {o}
      BY <1>2 DEF RequestsSound, Holds
  <2> QED BY <1>0, <1>3, <2>1, RequestsStay
<1> QED BY <1>0, <1>2, <1>4, AddSteps

\* The import's AddDevice of the device that its request holds.
LEMMA FinishImportSteps ==
    ASSUME CuratedInv, NEW a \in Admins, FinishImport(a), syncs' = syncs
    PROVE  Steps
<1> USE DEF CuratedInv
<1> DEFINE o == request[a].obj
<1>0. /\ request[a].at = "import" /\ AddDevice(heap, o) /\ UNCHANGED moved
      /\ request' = [request EXCEPT ![a] = NoRequest]
    BY DEF FinishImport, Finish, Proceed
<1>1. /\ o \in Objects /\ o \notin Bundle /\ o \notin Pointers
      /\ \A b \in Admins \ {a} : Holds(request[b]) => request[b].obj # o
    BY <1>0 DEF RequestsSound, Holds
<1> HIDE DEF o
<1>2. Extends(heap, o)
  <2>1. heap \in Seq(DeviceSet) /\ Len(heap) \in Nat
      BY DEF DatabaseInv, DatabaseTyped
  <2> QED BY <1>1, <2>1 DEF Extends, Objects
<1>3. HeapGrows({o})
    BY <1>0, <1>1, <1>2, AddDeviceKeeps, PutGrows
<1>4. RequestsSound'
  <2>1. \A b \in Admins \ {a} : request[b].at = "import" => request[b].obj \notin {o}
      BY <1>1 DEF Holds
  <2> QED BY <1>0, <1>3, <2>1, NewRequests, RequestsKeep
<1> QED BY <1>0, <1>1, <1>2, <1>4, AddSteps

\* A request that ends, or goes on without a device.
LEMMA RequestsFree ==
    ASSUME DatabaseInv, RequestsSound, NEW S, HeapGrows(S), NEW a \in Admins, NEW r \in RequestSet,
           request' = [request EXCEPT ![a] = r], ~Holds(r), Syncs(r) => r.next \in Bundle,
           \A b \in Admins \ {a} : request[b].at = "import" => request[b].obj \notin S
    PROVE  RequestsSound'
<1>1. ~Edits(r) /\ r.at # "import"
    BY DEF Holds, Edits
<1> QED BY <1>1, RequestsKeep

\* A request that goes on with a device that is there.
LEMMA RequestsHold ==
    ASSUME DatabaseInv, RequestsSound, HeapGrows({}), NEW a \in Admins, NEW n \in Nat, n \in Objects',
           NEW s \in {"edit", "save"}, request' = [request EXCEPT ![a] = [at |-> s, obj |-> n]],
           n \in Bundle => heap'[n].hash # NoHash,
           \A b \in Admins \ {a} : request[b].at = "import" => request[b].obj # n
    PROVE  RequestsSound'
<1> DEFINE r == [at |-> s, obj |-> n]
<1>1. r \in RequestSet /\ r.at = s /\ r.obj = n /\ ~Syncs(r)
    BY NewRequests
<1>2. request' = [request EXCEPT ![a] = r]
    OBVIOUS
<1> HIDE DEF r
<1>3. r.at # "import"
    BY <1>1
<1>4. Edits(r) => /\ r.obj \in Bundle => heap'[r.obj].hash # NoHash
                  /\ \A b \in Admins \ {a} : request[b].at = "import" => request[b].obj # r.obj
    BY <1>1
<1>5. Holds(r) => r.obj \in Objects'
    BY <1>1
<1>6. PICK S : S = {}
    OBVIOUS
<1>7. HeapGrows(S) /\ \A b \in Admins \ {a} : request[b].at = "import" => request[b].obj \notin S
    BY <1>6
<1> QED BY <1>1, <1>2, <1>3, <1>4, <1>5, <1>7, RequestsKeep

\* A vote is added in place.
LEMMA handleVoteSteps ==
    ASSUME CuratedInv, NEW a \in Admins, NEW id \in Stored, handleVote(a, id), syncs' = syncs
    PROVE  Steps
<1> USE DEF CuratedInv
<1> DEFINE o == devices[id]
           s == heap[o]
           r == [s EXCEPT !.votes = s.votes + 1]
<1>0. /\ request' = request
      /\ UNCHANGED <<devices, hashIndex, platformIndex, nextId, tangled, moved>>
    BY DEF handleVote
<1>a. heap' = [heap EXCEPT ![devices[id]] = [heap[devices[id]] EXCEPT !.votes = heap[devices[id]].votes + 1]]
    BY DEF handleVote, At
<1>b. heap' = [heap EXCEPT ![o] = r]
    BY <1>a
<1>1. o \in Objects /\ s \in DeviceSet
    BY StoredDevice
<1> HIDE DEF o, s
<1>2. s.votes \in Nat
    BY <1>1, DeviceFields
<1>3. r \in DeviceSet /\ r.id = s.id /\ r.hash = s.hash /\ r.kind = s.kind /\ r.votes = s.votes + 1
    BY <1>1, <1>2 DEF DeviceSet
<1> HIDE DEF r
<1>4. /\ SameShape /\ heap'[o] = r /\ \A p \in Objects : p # o => heap'[p] = heap[p]
    BY <1>0, <1>1, <1>3, <1>b, EditShape DEF s
<1>5. RequestsSound'
    BY <1>0, <1>4, ShapeGrows, RequestsStay
<1>6. ASSUME NEW p \in Objects
      PROVE  heap'[p].votes >= heap[p].votes /\ heap'[p].hash = heap[p].hash
  <2>1. heap[p].votes \in Nat
    <3>1. heap[p] \in DeviceSet
        BY DEF DatabaseInv, DatabaseTyped, Objects
    <3> QED BY <3>1, DeviceFields
  <2>2. CASE p = o
      BY <1>2, <1>3, <1>4, <2>2 DEF s
  <2>3. CASE p # o
      BY <1>4, <2>1, <2>3
  <2> QED BY <2>2, <2>3
<1> QED BY <1>4, <1>5, <1>6, ShapeSteps

\* The fields are set in place, in the device the request holds.
LEMMA EditSteps ==
    ASSUME CuratedInv, NEW a \in Admins, NEW k \in Kinds, NEW v \in BOOLEAN, Edit(a, k, v),
           syncs' = syncs
    PROVE  Steps
<1> USE DEF CuratedInv
<1> DEFINE o == request[a].obj
           s == heap[o]
           r == [s EXCEPT !.kind = k, !.verified = s.verified \/ v]
           q == [at |-> "save", obj |-> o]
<1>0. /\ request[a].at = "edit" /\ PlatformOf[k] = PlatformOf[s.kind]
      /\ request' = [request EXCEPT ![a] = q]
      /\ UNCHANGED <<devices, hashIndex, platformIndex, nextId, tangled, moved>>
    BY DEF Edit, Proceed
<1>a. heap' = [heap EXCEPT ![request[a].obj] =
                [heap[request[a].obj] EXCEPT !.kind = k,
                                             !.verified = heap[request[a].obj].verified \/ v]]
    BY DEF Edit
<1>b. heap' = [heap EXCEPT ![o] = r]
    BY <1>a
<1>1. /\ o \in Objects /\ (o \in Bundle => s.hash # NoHash)
      /\ \A b \in Admins \ {a} : request[b].at = "import" => request[b].obj # o
    BY <1>0 DEF RequestsSound, Holds, Edits
<1>2. s \in DeviceSet /\ o \in Nat
    BY <1>1 DEF DatabaseInv, DatabaseTyped, Objects
<1> HIDE DEF o, s
<1>3. (s.verified \/ v) \in BOOLEAN
    OBVIOUS
<1>4. r \in DeviceSet /\ r.id = s.id /\ r.hash = s.hash /\ r.kind = k /\ r.votes = s.votes
    BY <1>2, <1>3 DEF DeviceSet
<1> HIDE DEF r
<1>5. /\ SameShape /\ Objects' = Objects /\ heap'[o] = r
      /\ \A p \in Objects : p # o => heap'[p] = heap[p]
    BY <1>0, <1>1, <1>4, <1>b, EditShape DEF s
<1>6. RequestsSound'
  <2>2. HeapGrows({})
      BY <1>5, ShapeGrows
  <2>3. o \in Bundle => heap'[o].hash # NoHash
      BY <1>1, <1>4, <1>5
  <2>4. o \in Objects'
      BY <1>1, <1>5
  <2> QED BY <1>0, <1>1, <1>2, <2>2, <2>3, <2>4, RequestsHold
<1>7. ASSUME NEW p \in Objects
      PROVE  heap'[p].votes >= heap[p].votes /\ heap'[p].hash = heap[p].hash
  <2>1. heap[p].votes \in Nat
    <3>1. heap[p] \in DeviceSet
        BY DEF DatabaseInv, DatabaseTyped, Objects
    <3> QED BY <3>1, DeviceFields
  <2>2. CASE p = o
      BY <1>4, <1>5, <2>1, <2>2 DEF s
  <2>3. CASE p # o
      BY <1>5, <2>1, <2>3
  <2> QED BY <2>2, <2>3
<1> QED BY <1>5, <1>6, <1>7, ShapeSteps

\* Handlers that begin with a device they read.
LEMMA ReadSteps ==
    ASSUME CuratedInv, NEW a \in Admins, NEW id \in Stored, syncs' = syncs,
           handleUpdate(a, id) \/ handleDelete(a, id)
    PROVE  Steps
<1> USE DEF CuratedInv
<1>0. UNCHANGED <<heap, devices, hashIndex, platformIndex, nextId, tangled, moved>>
    BY DEF handleUpdate, handleDelete
<1>1. HeapGrows({}) /\ Objects' = Objects
    BY <1>0, Unchanged DEF Objects
<1>2. /\ devices[id] \in Objects /\ id \in Nat /\ devices[id] \in Pointers
      /\ (devices[id] \in Bundle => heap'[devices[id]].hash # NoHash)
    BY <1>0, StoredDevice
<1>3. CASE handleUpdate(a, id)
  <2> DEFINE n == devices[id]
  <2>1. n \in Nat /\ n \in Objects' /\ (n \in Bundle => heap'[n].hash # NoHash)
      BY <1>1, <1>2 DEF Objects
  <2>2. request' = [request EXCEPT ![a] = [at |-> "edit", obj |-> n]]
      BY <1>3 DEF handleUpdate, Proceed
  <2>3. \A b \in Admins \ {a} : request[b].at = "import" => request[b].obj # n
      BY <1>2 DEF RequestsSound
  <2> HIDE DEF n
  <2>4. RequestsSound'
      BY <1>1, <2>1, <2>2, <2>3, RequestsHold
  <2> QED BY <1>0, <2>4, RequestSteps
<1>4. CASE handleDelete(a, id)
  <2> DEFINE q == [at |-> "delete", id |-> id]
  <2>1. request' = [request EXCEPT ![a] = q]
      BY <1>4 DEF handleDelete, Proceed
  <2>2. q \in RequestSet /\ ~Holds(q) /\ ~Edits(q) /\ ~Syncs(q) /\ q.at = "delete"
      BY <1>2, NewRequests
  <2> HIDE DEF q
  <2>3. PICK S : S = {}
      OBVIOUS
  <2>4. HeapGrows(S) /\ \A b \in Admins \ {a} : request[b].at = "import" => request[b].obj \notin S
      BY <1>1, <2>3
  <2>5. RequestsSound'
      BY <2>1, <2>2, <2>4, RequestsFree
  <2> QED BY <1>0, <2>5, RequestSteps
<1> QED BY <1>3, <1>4

\* Handlers that begin with a device of their own.
LEMMA AppendSteps ==
    ASSUME CuratedInv, NEW a \in Admins, NEW r \in DeviceSet, heap' = Append(heap, r),
           NEW s \in {"save", "import"},
           request' = [request EXCEPT ![a] = [at |-> s, obj |-> NewObject]],
           UNCHANGED <<devices, hashIndex, platformIndex, nextId, tangled, moved, syncs>>
    PROVE  Steps
<1> USE DEF CuratedInv
<1> DEFINE q == [at |-> s, obj |-> NewObject]
<1>1. SameShape /\ NewObject \in Objects'
    BY AppendShape
<1>2. /\ NewObject \notin Objects /\ NewObject \notin Bundle /\ NewObject \notin Pointers
      /\ NewObject = Len(heap) + 1 /\ (\A p \in Objects : heap'[p] = heap[p])
    BY Allocated
<1>3. NewObject \in Nat
  <2>1. Len(heap) \in Nat
      BY DEF DatabaseInv, DatabaseTyped
  <2> QED BY <1>2, <2>1
<1>4. q \in RequestSet /\ q.at = s /\ q.obj = NewObject /\ ~Syncs(q)
    BY <1>3, NewRequests
<1> HIDE DEF q
<1>5. RequestsSound'
  <2>1. HeapGrows({}) /\ Pointers' = Pointers
      BY <1>1, ShapeGrows DEF Pointers, Stored
  <2>2. \A b \in Admins \ {a} : request[b].at = "import" => request[b].obj # NewObject
      BY <1>2 DEF RequestsSound, Holds
  <2>3. request' = [request EXCEPT ![a] = q]
      BY DEF q
  <2>4. Edits(q) => /\ q.obj \in Bundle => heap'[q.obj].hash # NoHash
                    /\ \A b \in Admins \ {a} : request[b].at = "import" => request[b].obj # q.obj
      BY <1>2, <1>4, <2>2
  <2>5. Holds(q) => q.obj \in Objects'
      BY <1>1, <1>4
  <2>6. q.at = "import" => q.obj \notin Objects /\ q.obj \notin Pointers'
      BY <1>2, <1>4, <2>1
  <2>7. PICK S : S = {}
      OBVIOUS
  <2>8. HeapGrows(S) /\ \A b \in Admins \ {a} : request[b].at = "import" => request[b].obj \notin S
      BY <2>1, <2>7
  <2> QED BY <1>4, <2>3, <2>4, <2>5, <2>6, <2>8, RequestsKeep
<1>6. \A p \in Objects : heap'[p].votes >= heap[p].votes /\ heap'[p].hash = heap[p].hash
  <2>1. \A p \in Objects : heap[p] \in DeviceSet
      BY DEF DatabaseInv, DatabaseTyped, Objects
  <2>2. \A p \in Objects : heap[p].votes \in Nat
      BY <2>1, DeviceFields
  <2> TAKE p \in Objects
  <2>3. heap'[p] = heap[p] /\ heap[p].votes \in Nat
      BY <1>2, <2>2
  <2> QED BY <2>3
<1> QED BY <1>1, <1>5, <1>6, ShapeSteps

\* handlePutCuratedDevice begins with a new device of its own.
LEMMA handlePutSteps ==
    ASSUME CuratedInv, NEW a \in Admins, NEW id \in Stored, NEW k \in Kinds,
           NEW h \in Kinds \union {NoHash}, handlePut(a, id, k, h), syncs' = syncs
    PROVE  Steps
<1> USE DEF CuratedInv
<1> DEFINE r == Device(id, h, k, At(id).votes, At(id).verified, FALSE)
<1>1. At(id) \in DeviceSet /\ id \in Nat
    BY StoredDevice
<1>2. At(id).votes \in Nat /\ At(id).verified \in BOOLEAN
    BY <1>1, DeviceFields
<1>3. r \in DeviceSet
    BY <1>1, <1>2 DEF Device, DeviceSet
<1>4. /\ heap' = Append(heap, r) /\ request' = [request EXCEPT ![a] = [at |-> "save", obj |-> NewObject]]
      /\ UNCHANGED <<devices, hashIndex, platformIndex, nextId, tangled, moved>>
    BY DEF handlePut, Proceed
<1> HIDE DEF r
<1> QED BY <1>3, <1>4, AppendSteps

\* handleImportCuratedDevices begins with a new device of its own.
LEMMA handleImportSteps ==
    ASSUME CuratedInv, NEW a \in Admins, NEW id \in Nat, NEW k \in Kinds, NEW s, NEW n \in Nat,
           NEW v \in BOOLEAN, handleImport(a, id, k, s, n, v), syncs' = syncs
    PROVE  Steps
<1> USE DEF CuratedInv
<1> DEFINE m == IF id \in Stored THEN At(id).votes ELSE n
           r == Device(id, NoHash, k, m, v, FALSE)
<1>1. m \in Nat
    BY StoredDevice
<1>2. /\ heap' = Append(heap, r)
      /\ request' = [request EXCEPT ![a] = [at |-> "import", obj |-> NewObject]]
      /\ UNCHANGED <<devices, hashIndex, platformIndex, nextId, tangled, moved>>
    BY DEF handleImport, Proceed
<1> HIDE DEF m
<1>3. r \in DeviceSet
    BY <1>1 DEF Device, DeviceSet
<1> HIDE DEF r
<1> QED BY <1>2, <1>3, AppendSteps

\* RemoveDevice, by either handler.
LEMMA DiscardSteps ==
    ASSUME CuratedInv, NEW x, Discard(x), syncs' = syncs,
           request' = request \/ \E a \in Admins : request' = [request EXCEPT ![a] = NoRequest]
    PROVE  Steps
<1> USE DEF CuratedInv
<1>0. /\ heap' = heap /\ Stored' = Stored \ {x} /\ Bundle' = Bundle
      /\ \A id \in Stored' : devices'[id] = devices[id] /\ At(id)' = At(id)
    BY DEF Discard, RemoveDevice, Stored, At, Bundle
<1>1. DatabaseInv'
    BY RemoveKeeps
<1>2. HeapGrows({})
    BY <1>0 DEF HeapGrows, Objects, Pointers
<1>3. RequestsSound'
  <2>0. PICK S : S = {}
      OBVIOUS
  <2>1. HeapGrows(S) /\ \A b \in Admins : request[b].at = "import" => request[b].obj \notin S
      BY <1>2, <2>0
  <2>2. CASE request' = request
      BY <2>1, <2>2, RequestsStay
  <2>3. ASSUME NEW a \in Admins, request' = [request EXCEPT ![a] = NoRequest] PROVE RequestsSound'
      BY <2>1, <2>3, NewRequests, RequestsFree
  <2> QED BY <2>2, <2>3
<1>4. Once' = Once /\ (OwnOnly => OwnOnly')
    BY <1>0 DEF Once, OwnOnly
<1>5. VotesGrow
  <2>1. \A id \in Stored : At(id).votes \in Nat
      BY StoredDevice
  <2> QED BY <1>0, <2>1 DEF VotesGrow
<1>6. SyncsSound'
    BY <1>0, <1>4 DEF SyncsSound
<1> QED BY <1>1, <1>3, <1>5, <1>6 DEF Steps

\* UpdateDevice of a request's device, whose votes are not fewer than those it replaces.
LEMMA SaveSteps ==
    ASSUME CuratedInv, NEW a \in Admins, Save(a), syncs' = syncs,
           Once /\ ~concurrent' => LET o == request[a].obj
                                   IN  heap[o].id \in Stored => heap[o].votes >= At(heap[o].id).votes
    PROVE  Steps
<1> USE DEF CuratedInv
<1> DEFINE o == request[a].obj
<1>x. PICK x : x = heap[o].id
    OBVIOUS
<1>0. /\ request[a].at = "save" /\ UpdateDevice(o) /\ request' = [request EXCEPT ![a] = NoRequest]
      /\ UNCHANGED <<heap, hashIndex, platformIndex, nextId>>
    BY DEF Save, Finish, Proceed
<1>1. /\ o \in Objects /\ (o \in Bundle => heap[o].hash # NoHash)
      /\ \A b \in Admins \ {a} : request[b].at = "import" => request[b].obj # o
    BY <1>0 DEF RequestsSound, Holds, Edits
<1>2. Once /\ ~concurrent' => (x \in Stored => heap[o].votes >= At(x).votes)
    BY <1>x
<1> HIDE DEF o
<1>3. DatabaseInv'
    BY <1>0, <1>1, UpdateKeeps
<1>4. /\ Stored' = Stored /\ (x \in Stored => devices'[x] = o)
      /\ \A id \in Stored : id # x => devices'[id] = devices[id]
    BY <1>0, <1>x DEF UpdateDevice, Stored
<1>5. HeapGrows({o})
    BY <1>0, <1>4 DEF HeapGrows, Objects, Pointers
<1>6. RequestsSound'
  <2>1. \A b \in Admins \ {a} : request[b].at = "import" => request[b].obj \notin {o}
      BY <1>1
  <2> QED BY <1>0, <1>5, <2>1, NewRequests, RequestsFree
<1>7. (x \in Stored => At(x)' = heap[o]) /\ \A id \in Stored : id # x => At(id)' = At(id)
    BY <1>0, <1>4 DEF At
<1>8. Bundle' = Bundle /\ Once' = Once
    BY DEF Bundle, Once
<1>9. OwnOnly => OwnOnly'
    BY <1>4, <1>7, <1>x DEF OwnOnly
<1>10. SyncsSound'
    BY <1>0, <1>8, <1>9 DEF SyncsSound
<1>11. ASSUME Once', ~concurrent', NEW id \in Stored PROVE At(id)'.votes >= At(id).votes
  <2>1. At(id).votes \in Nat
      BY <1>11, StoredDevice
  <2>2. CASE id = x
    <3>1. At(id)' = heap[o]
        BY <1>7, <1>11, <2>2
    <3> QED BY <1>2, <1>8, <1>11, <2>2, <3>1
  <2>3. CASE id # x
    <3>1. At(id)' = At(id)
        BY <1>7, <1>11, <2>3
    <3> QED BY <2>1, <3>1
  <2> QED BY <2>2, <2>3
<1> QED BY <1>3, <1>6, <1>10, <1>11 DEF Steps, VotesGrow

\* A bundle that is not empty starts at 1.
LEMMA BundleStart == Bundle # {} => 1 \in Bundle
<1> DEFINE n == Len(EmbeddedKinds)
<1>1. EmbeddedKinds \in Seq(Kinds)
    BY CuratedConfig
<1>2. n \in Nat
    BY <1>1
<1> HIDE DEF n
<1>3. 1..n # {} => 1 \in 1..n
  <2>1. ASSUME NEW i \in 1..n PROVE 1 \in 1..n
      BY <1>2, <2>1
  <2> QED BY <2>1
<1> QED BY <1>3 DEF Bundle, n

\* handleSyncEmbeddedToCuratedDB begins with the first device of the bundle.
LEMMA handleSyncSteps ==
    ASSUME CuratedInv, NEW a \in Admins, NEW how \in {"sync platform", "sync all"},
           handleSync(a, how), syncs' = syncs
    PROVE  Steps
<1> USE DEF CuratedInv
<1>0. UNCHANGED <<heap, devices, hashIndex, platformIndex, nextId, tangled, moved>>
    BY DEF handleSync
<1>1. PICK S : S = {}
    OBVIOUS
<1>2. HeapGrows(S) /\ \A b \in Admins : request[b].at = "import" => request[b].obj \notin S
    BY <1>0, <1>1, Unchanged
<1>3. RequestsSound'
  <2>1. CASE Bundle = {}
    <3>1. request' = request
        BY <2>1 DEF handleSync
    <3> QED BY <1>2, <3>1, RequestsStay
  <2>2. CASE Bundle # {}
    <3> DEFINE r == [at |-> how, next |-> 1]
    <3>1. request' = [request EXCEPT ![a] = r]
        BY <2>2 DEF handleSync, Proceed
    <3>2. r \in RequestSet /\ ~Holds(r) /\ r.next = 1
        BY NewRequests
    <3>3. 1 \in Bundle
        BY <2>2, BundleStart
    <3> HIDE DEF r
    <3> QED BY <1>2, <3>1, <3>2, <3>3, RequestsFree
  <2> QED BY <2>1, <2>2
<1> QED BY <1>0, <1>3, RequestSteps

\* A sync that stores the device of a bundle.
LEMMA SyncPut ==
    ASSUME CuratedInv, DatabaseInv', RequestsSound', NEW o \in Bundle, NEW d, Puts(heap, o, d),
           syncs' = [syncs EXCEPT ![o] = IF @ = 0 THEN 1 ELSE 2],
           d.id = nextId \/ d.id = heap[o].id
             \/ \E x \in Stored : d.id = At(x).id /\ d.votes = At(x).votes
    PROVE  Steps
<1> USE DEF CuratedInv
<1>0. Bundle \subseteq Objects /\ Bundle' = Bundle /\ DatabaseTyped /\ syncs \in [Bundle -> 0..2]
    BY DEF DatabaseInv, DatabaseTyped, Bundle, SyncsSound
<1>1. /\ syncs' \in [Bundle -> 0..2] /\ syncs'[o] # 0 /\ (syncs'[o] <= 1 => syncs[o] = 0)
      /\ \A i \in Bundle : i # o => syncs'[i] = syncs[i]
    BY <1>0
<1>2. \A p \in Bundle : p # o => heap'[p] = heap[p]
    BY <1>0, PutStored
<1>3. \A i \in Bundle : syncs'[i] = 0 => heap'[i].hash = NoHash
    BY <1>1, <1>2 DEF SyncsSound
<1>4. ASSUME Once' PROVE OwnOnly' /\ VotesGrow
  <2>1. Once /\ heap[o].hash = NoHash
    <3>1. syncs[o] = 0 /\ \A i \in Bundle : i # o => syncs[i] <= 1
        BY <1>0, <1>1, <1>4 DEF Once
    <3> QED BY <3>1 DEF Once, SyncsSound
  <2>2. OwnOnly /\ Unsynced(o)
      BY <2>1 DEF SyncsSound, DatabaseInv, BundleFresh
  <2>3. ASSUME d.id \in Stored PROVE d.votes >= At(d.id).votes
    <3>1. nextId \notin Stored
        BY DEF DatabaseInv, DatabaseTyped, Ids
    <3>2. PICK x \in Stored : d.id = At(x).id /\ d.votes = At(x).votes
        BY <2>2, <2>3, <3>1 DEF Unsynced
    <3>3. At(x).id = x
        BY <2>2 DEF OwnOnly
    <3>4. At(d.id).votes \in Nat
        BY <2>3, StoredDevice
    <3> QED BY <3>2, <3>3, <3>4
  <2>4. \A id \in Stored : devices[id] # o
      BY <2>2 DEF Unsynced
  <2> QED BY <2>2, <2>3, <2>4, PutVotes
<1>5. SyncsSound'
    BY <1>0, <1>1, <1>3, <1>4 DEF SyncsSound
<1> QED BY <1>4, <1>5 DEF Steps

\* A sync that gives the device of a bundle its hash and does not store it.
LEMMA SyncNothing ==
    ASSUME CuratedInv, DatabaseInv', RequestsSound', NEW o \in Bundle, LoadsNothing(o),
           syncs' = [syncs EXCEPT ![o] = IF @ = 0 THEN 1 ELSE 2]
    PROVE  Steps
<1> USE DEF CuratedInv
<1>0. Bundle \subseteq Objects /\ Bundle' = Bundle /\ syncs \in [Bundle -> 0..2]
    BY DEF DatabaseInv, DatabaseTyped, Bundle, SyncsSound
<1>1. /\ syncs' \in [Bundle -> 0..2] /\ syncs'[o] # 0 /\ (syncs'[o] <= 1 => syncs[o] = 0)
      /\ \A i \in Bundle : i # o => syncs'[i] = syncs[i]
    BY <1>0
<1>2. SameShape /\ \A p \in Bundle : p # o => heap'[p] = heap[p]
    BY <1>0 DEF LoadsNothing
<1>3. \A i \in Bundle : syncs'[i] = 0 => heap'[i].hash = NoHash
    BY <1>1, <1>2 DEF SyncsSound
<1>4. \A p \in Objects : heap'[p].votes >= heap[p].votes
  <2>1. \A p \in Objects : heap[p] \in DeviceSet
      BY DEF DatabaseInv, DatabaseTyped, Objects
  <2>2. \A p \in Objects : heap[p].votes \in Nat
      BY <2>1, DeviceFields
  <2>3. \A p \in Objects : heap'[p].votes = heap[p].votes
      BY DEF LoadsNothing
  <2> QED BY <2>2, <2>3
<1>5. (OwnOnly => OwnOnly') /\ VotesGrow
    BY <1>2, <1>4, ShapeVotes
<1>6. Once' => Once
  <2>1. syncs'[o] <= 1 => syncs[o] <= 1
      BY <1>1
  <2> QED BY <1>0, <1>1, <2>1 DEF Once
<1>7. SyncsSound'
    BY <1>0, <1>1, <1>3, <1>5, <1>6 DEF SyncsSound
<1> QED BY <1>5, <1>7 DEF Steps

\* One device of a sync.
LEMMA SyncOneSteps ==
    ASSUME CuratedInv, NEW a \in Admins, SyncOne(a)
    PROVE  Steps
<1> USE DEF CuratedInv
<1> DEFINE o == request[a].next
<1>0. /\ Syncs(request[a]) /\ moved' = moved
      /\ AddDevice(heap, o) \/ (addDevice(heap, o) /\ nextId' = nextId)
      /\ syncs' = [syncs EXCEPT ![o] = IF @ = 0 THEN 1 ELSE 2]
    BY DEF SyncOne, Syncs
<1>1. /\ o \in Bundle /\ o \in Nat /\ request[a] \in RequestSet
      /\ \A b \in Admins : request[b].at = "import" => request[b].obj \notin {o}
    BY <1>0 DEF RequestsSound, Bundle
<1>2. \E r \in RequestSet : /\ request' = [request EXCEPT ![a] = r]
                            /\ ~Holds(r) /\ (Syncs(r) => r.next \in Bundle)
  <2>1. CASE o + 1 \in Bundle
    <3>1. request' = [request EXCEPT ![a] = [request[a] EXCEPT !.next = o + 1]]
        BY <2>1 DEF SyncOne, Proceed
    <3>2. o + 1 \in Nat
        BY <1>1
    <3> DEFINE r == [request[a] EXCEPT !.next = o + 1]
    <3>3. r \in RequestSet /\ r.next = o + 1 /\ ~Holds(r)
        BY <1>0, <1>1, <3>2, RequestKinds
    <3> HIDE DEF r
    <3> QED BY <2>1, <3>1, <3>3 DEF r
  <2>2. CASE o + 1 \notin Bundle
    <3>1. request' = [request EXCEPT ![a] = NoRequest]
        BY <2>2 DEF SyncOne, Finish, Proceed
    <3> QED BY <3>1, NewRequests
  <2> QED BY <2>1, <2>2
<1> HIDE DEF o
<1>3. ASSUME HeapGrows({o}) PROVE RequestsSound'
    BY <1>1, <1>2, <1>3, RequestsFree
<1>4. Extends(heap, o)
  <2>1. heap \in Seq(DeviceSet) /\ Len(heap) \in Nat /\ o \in Objects
      BY <1>1 DEF DatabaseInv, DatabaseTyped
  <2> QED BY <2>1 DEF Extends, Objects
<1>5. CASE AddDevice(heap, o)
  <2> DEFINE d == [heap[o] EXCEPT !.id = nextId, !.hash = heap[o].kind]
  <2>1. DatabaseInv' /\ Puts(heap, o, d)
      BY <1>0, <1>1, <1>4, <1>5, AddDeviceKeeps
  <2>2. d.id = nextId
    <3>1. heap[o] \in DeviceSet
        BY <1>4 DEF Extends
    <3> QED BY <3>1 DEF DeviceSet
  <2> HIDE DEF d
  <2>3. RequestsSound'
      BY <1>3, <2>1, PutGrows
  <2> QED BY <1>0, <1>1, <2>1, <2>2, <2>3, SyncPut
<1>6. CASE addDevice(heap, o) /\ nextId' = nextId
  <2>1. Loads(heap, o)
      BY <1>1, <1>4, <1>6 DEF Loads
  <2>2. DatabaseInv' /\ (LoadsPut(heap, o) \/ LoadsNothing(o))
      BY <1>0, <1>6, <2>1, addDeviceKeeps, addDeviceDoes
  <2>3. CASE LoadsPut(heap, o)
    <3>1. PICK d : /\ Puts(heap, o, d)
                   /\ d.id = heap[o].id \/ \E x \in Stored : d.id = At(x).id /\ d.votes = At(x).votes
        BY <2>3 DEF LoadsPut
    <3>2. RequestsSound'
        BY <1>3, <3>1, PutGrows
    <3> QED BY <1>0, <1>1, <2>2, <3>1, <3>2, SyncPut
  <2>4. CASE LoadsNothing(o)
    <3>1. HeapGrows({})
        BY <2>4, ShapeGrows DEF LoadsNothing
    <3>2. HeapGrows({o})
        BY <3>1 DEF HeapGrows
    <3> QED BY <1>0, <1>1, <1>3, <2>2, <2>4, <3>2, SyncNothing
  <2> QED BY <2>2, <2>3, <2>4
<1> QED BY <1>0, <1>5, <1>6

-----------------------------------------------------------------------------
(* Requests that do not overlap *)

Busy(a) == request[a].at # "idle"

\* As long as no two requests overlapped one admin at most is busy.  While it edits a
\* device no other handler votes, so the device it saves has at least the votes of the
\* one it replaces.
AloneInv ==
    /\ ~concurrent => \A a, b \in Admins : Busy(a) /\ Busy(b) => a = b
    /\ ~serving => \A a \in Admins : ~Busy(a)
    /\ ~concurrent /\ Once => \A a \in Admins : Edits(request[a]) =>
         \A x \in Stored : heap[request[a].obj].id = x => heap[request[a].obj].votes >= At(x).votes

\* Only the handlers that read a device and the one that edits it go on to edit or save.
LEMMA StepKinds ==
    ASSUME CuratedInv, NEW a \in Admins, (AdminStep(a) /\ syncs' = syncs) \/ SyncOne(a)
    PROVE  /\ serving \/ Busy(a)
           /\ \A b \in Admins \ {a} : request'[b] = request[b]
           /\ Edits(request'[a]) =>
                \/ \E id \in Stored : handleUpdate(a, id)
                \/ \E id \in Stored, k \in Kinds, h \in Kinds \union {NoHash} : handlePut(a, id, k, h)
                \/ \E k \in Kinds, v \in BOOLEAN : Edit(a, k, v)
<1> USE DEF CuratedInv
<1>0. request \in [Admins -> RequestSet]
    BY DEF RequestsSound
<1>1. ASSUME MayBegin(a), request' = request
      PROVE  serving /\ ~Edits(request'[a]) /\ \A b \in Admins \ {a} : request'[b] = request[b]
    BY <1>1 DEF MayBegin, Edits
<1>2. ASSUME NEW r, request' = [request EXCEPT ![a] = r]
      PROVE  request'[a] = r /\ \A b \in Admins \ {a} : request'[b] = request[b]
    BY <1>0, <1>2
<1>3. ASSUME NEW k \in Kinds, handleCreate(a, k) PROVE MayBegin(a) /\ request' = request
    BY <1>3 DEF handleCreate
<1>4. ASSUME NEW id \in Stored, handleVote(a, id) \/ handleRemove(a, id)
      PROVE  MayBegin(a) /\ request' = request
    BY <1>4 DEF handleVote, handleRemove
<1>5. ASSUME NEW id \in Stored, handleUpdate(a, id)
      PROVE  MayBegin(a) /\ \E r : request' = [request EXCEPT ![a] = r]
    BY <1>5 DEF handleUpdate, Proceed
<1>6. ASSUME NEW id \in Stored, handleDelete(a, id)
      PROVE  MayBegin(a) /\ \E r : request' = [request EXCEPT ![a] = r] /\ ~Edits(r)
  <2> DEFINE r == [at |-> "delete", id |-> id]
  <2>1. MayBegin(a) /\ request' = [request EXCEPT ![a] = r]
      BY <1>6 DEF handleDelete, Proceed
  <2>2. ~Edits(r)
      BY DEF Edits
  <2> HIDE DEF r
  <2> QED BY <2>1, <2>2
<1>7. ASSUME NEW id \in Stored, NEW k \in Kinds, NEW h \in Kinds \union {NoHash}, handlePut(a, id, k, h)
      PROVE  MayBegin(a) /\ \E r : request' = [request EXCEPT ![a] = r]
    BY <1>7 DEF handlePut, Proceed
<1>8. ASSUME NEW id, NEW k, NEW s, NEW n, NEW v, handleImport(a, id, k, s, n, v)
      PROVE  MayBegin(a) /\ request' = [request EXCEPT ![a] = [at |-> "import", obj |-> NewObject]]
    BY <1>8 DEF handleImport, Proceed
<1>9. ASSUME NEW how \in {"sync platform", "sync all"}, handleSync(a, how)
      PROVE  /\ MayBegin(a)
             /\ request' = request \/ \E r : request' = [request EXCEPT ![a] = r] /\ ~Edits(r)
  <2> DEFINE r == [at |-> how, next |-> 1]
  <2>1. MayBegin(a) /\ (request' = request \/ request' = [request EXCEPT ![a] = r])
      BY <1>9 DEF handleSync, Proceed
  <2>2. ~Edits(r)
      BY DEF Edits
  <2> HIDE DEF r
  <2> QED BY <2>1, <2>2
<1>10. ASSUME NEW k, NEW v, Edit(a, k, v)
       PROVE  Busy(a) /\ \E r : request' = [request EXCEPT ![a] = r]
    BY <1>10 DEF Edit, Proceed, Busy
<1>11. ASSUME Save(a) \/ FinishDelete(a) \/ FinishImport(a)
       PROVE  Busy(a) /\ request' = [request EXCEPT ![a] = NoRequest]
    BY <1>11 DEF Save, FinishDelete, FinishImport, Finish, Proceed, Busy
<1>12. ASSUME SyncOne(a)
       PROVE  /\ Busy(a)
              /\ \E r : request' = [request EXCEPT ![a] = r] /\ ~Edits(r)
  <2> DEFINE o == request[a].next
             r == [request[a] EXCEPT !.next = o + 1]
  <2>1. Busy(a) /\ Syncs(request[a]) /\ o \in Bundle
      BY <1>12 DEF SyncOne, Busy, Syncs, RequestsSound
  <2>2. request' = [request EXCEPT ![a] = r] \/ request' = [request EXCEPT ![a] = NoRequest]
      BY <1>12 DEF SyncOne, Proceed, Finish
  <2>3. o + 1 \in Nat
      BY <2>1 DEF Bundle
  <2>4. ~Holds(r)
      BY <1>0, <2>1, <2>3, RequestKinds
  <2>5. ~Edits(r)
      BY <2>4 DEF Holds, Edits
  <2> HIDE DEF r
  <2> QED BY <2>1, <2>2, <2>5, NewRequests
<1>13. ~Edits([at |-> "import", obj |-> NewObject])
    BY DEF Edits
<1>14. MayBegin(a) => serving
    BY DEF MayBegin
<1>15. CASE SyncOne(a)
    BY <1>2, <1>12, <1>15
<1>16. CASE \E k \in Kinds : handleCreate(a, k)
    BY <1>1, <1>3, <1>16
<1>17. CASE \E id \in Stored : handleVote(a, id) \/ handleRemove(a, id)
    BY <1>1, <1>4, <1>17
<1>18. CASE \E id \in Stored : handleUpdate(a, id)
    BY <1>2, <1>5, <1>14, <1>18
<1>19. CASE \E id \in Stored : handleDelete(a, id)
    BY <1>2, <1>6, <1>14, <1>19
<1>20. CASE \E id \in Stored, k \in Kinds, h \in Kinds \union {NoHash} : handlePut(a, id, k, h)
    BY <1>2, <1>7, <1>14, <1>20
<1>21. CASE \E id, k, s, n, v : handleImport(a, id, k, s, n, v)
    BY <1>2, <1>8, <1>13, <1>14, <1>21
<1>22. CASE \E how \in {"sync platform", "sync all"} : handleSync(a, how)
    BY <1>1, <1>2, <1>9, <1>14, <1>22
<1>23. CASE \E k \in Kinds, v \in BOOLEAN : Edit(a, k, v)
    BY <1>2, <1>10, <1>23
<1>24. CASE Save(a) \/ FinishDelete(a) \/ FinishImport(a)
  <2>1. Busy(a) /\ request'[a] = NoRequest /\ \A b \in Admins \ {a} : request'[b] = request[b]
      BY <1>2, <1>11, <1>24
  <2>2. ~Edits(NoRequest)
      BY NewRequests
  <2> QED BY <2>1, <2>2
<1>25. ASSUME AdminStep(a)
       PROVE  \/ \E k \in Kinds : handleCreate(a, k)
              \/ \E id \in Stored : handleVote(a, id) \/ handleRemove(a, id)
              \/ \E id \in Stored : handleUpdate(a, id)
              \/ \E id \in Stored : handleDelete(a, id)
              \/ \E id \in Stored, k \in Kinds, h \in Kinds \union {NoHash} : handlePut(a, id, k, h)
              \/ \E id, k, s, n, v : handleImport(a, id, k, s, n, v)
              \/ \E how \in {"sync platform", "sync all"} : handleSync(a, how)
              \/ \E k \in Kinds, v \in BOOLEAN : Edit(a, k, v)
              \/ Save(a) \/ FinishDelete(a) \/ FinishImport(a)
    BY <1>25 DEF AdminStep
<1>26. AdminStep(a) \/ SyncOne(a)
    OBVIOUS
<1> QED BY <1>15, <1>16, <1>17, <1>18, <1>19, <1>20, <1>21, <1>22, <1>23, <1>24, <1>25, <1>26

\* A handler that edits or saves a device after a step in which it was alone has at least
\* the votes of the stored one.
LEMMA EditsKeepVotes ==
    ASSUME CuratedInv, AloneInv, NEW a \in Admins, ~concurrent, Once,
           \/ \E id \in Stored : handleUpdate(a, id)
           \/ \E id \in Stored, k \in Kinds, h \in Kinds \union {NoHash} : handlePut(a, id, k, h)
           \/ \E k \in Kinds, v \in BOOLEAN : Edit(a, k, v)
    PROVE  \A x \in Stored' :
             heap'[request'[a].obj].id = x => heap'[request'[a].obj].votes >= At(x)'.votes
<1> USE DEF CuratedInv
<1>0. request \in [Admins -> RequestSet] /\ OwnOnly
    BY DEF RequestsSound, SyncsSound
<1>1. CASE \E id \in Stored : handleUpdate(a, id)
  <2>1. PICK id \in Stored : handleUpdate(a, id)
      BY <1>1
  <2>2. /\ heap' = heap /\ devices' = devices /\ Stored' = Stored
        /\ request' = [request EXCEPT ![a] = [at |-> "edit", obj |-> devices[id]]]
      BY <2>1 DEF handleUpdate, Proceed, Stored
  <2>3. request'[a].obj = devices[id]
      BY <1>0, <2>2
  <2>4. heap[devices[id]].id = id /\ At(id).votes \in Nat /\ At(id) = heap[devices[id]]
      BY <1>0, StoredDevice DEF OwnOnly, At
  <2>5. At(id)' = At(id)
      BY <2>2 DEF At
  <2>6. At(id).votes >= At(id).votes
      BY <2>4
  <2> QED BY <2>2, <2>3, <2>4, <2>5, <2>6
<1>2. CASE \E id \in Stored, k \in Kinds, h \in Kinds \union {NoHash} : handlePut(a, id, k, h)
  <2>1. PICK id \in Stored, k \in Kinds, h \in Kinds \union {NoHash} : handlePut(a, id, k, h)
      BY <1>2
  <2> DEFINE r == Device(id, h, k, At(id).votes, At(id).verified, FALSE)
  <2>2. /\ heap' = Append(heap, r) /\ devices' = devices /\ Stored' = Stored
        /\ request' = [request EXCEPT ![a] = [at |-> "save", obj |-> NewObject]]
      BY <2>1 DEF handlePut, Proceed, Stored
  <2>3. request'[a].obj = NewObject
      BY <1>0, <2>2
  <2>4. At(id) \in DeviceSet /\ At(id).votes \in Nat /\ devices[id] \in Objects /\ id \in Nat
      BY StoredDevice
  <2>5. r \in DeviceSet /\ r.id = id /\ r.votes = At(id).votes
    <3>1. At(id).verified \in BOOLEAN
        BY <2>4, DeviceFields
    <3> QED BY <2>4, <3>1 DEF Device, DeviceSet
  <2> HIDE DEF r
  <2>6. heap'[NewObject] = r /\ \A p \in Objects : heap'[p] = heap[p]
      BY <2>2, <2>5, Allocated
  <2>7. At(id)' = At(id)
      BY <2>2, <2>4, <2>6 DEF At
  <2>8. At(id).votes >= At(id).votes
      BY <2>4
  <2> QED BY <2>3, <2>5, <2>6, <2>7, <2>8
<1>3. CASE \E k \in Kinds, v \in BOOLEAN : Edit(a, k, v)
  <2>1. PICK k \in Kinds, v \in BOOLEAN : Edit(a, k, v)
      BY <1>3
  <2> DEFINE o == request[a].obj
  <2>2. /\ devices' = devices /\ Stored' = Stored /\ request[a].at = "edit"
        /\ request' = [request EXCEPT ![a] = [at |-> "save", obj |-> o]]
      BY <2>1 DEF Edit, Proceed, Stored
  <2>3. heap' = [heap EXCEPT ![request[a].obj] =
                  [heap[request[a].obj] EXCEPT !.kind = k,
                                               !.verified = heap[request[a].obj].verified \/ v]]
      BY <2>1 DEF Edit
  <2>4. request'[a].obj = o /\ o \in Objects
      BY <1>0, <2>2 DEF RequestsSound, Holds
  <2>5. \A x \in Stored : heap[o].id = x => heap[o].votes >= At(x).votes
      BY <2>2 DEF AloneInv, Edits
  <2>6. heap \in Seq(DeviceSet) /\ heap[o] \in DeviceSet
      BY <2>4 DEF DatabaseInv, DatabaseTyped, Objects
  <2>7. \A p \in Objects : heap'[p].id = heap[p].id /\ heap'[p].votes = heap[p].votes
      BY <2>3, <2>4, <2>6 DEF Objects, DeviceSet
  <2> HIDE DEF o
  <2>8. \A x \in Stored : At(x)'.votes = At(x).votes
      BY <2>2, <2>7, StoredDevice DEF At
  <2> QED BY <2>2, <2>4, <2>5, <2>7, <2>8
<1> QED BY <1>1, <1>2, <1>3

\* The step of an admin.
AdminActs(a) ==
    /\ (AdminStep(a) /\ UNCHANGED syncs) \/ SyncOne(a)
    /\ served' = IF request[a].at = "idle" THEN served + 1 ELSE served
    /\ UNCHANGED serving
    /\ concurrent' = (concurrent \/ \E b \in Admins \ {a} : request[b].at # "idle")

\* Every step of an admin keeps AloneInv.
LEMMA AloneSteps ==
    ASSUME CuratedInv, AloneInv, NEW a \in Admins, AdminActs(a)
    PROVE  AloneInv'
<1>0. ~concurrent' => ~concurrent /\ \A b \in Admins \ {a} : ~Busy(b)
    BY Zenon DEF AdminActs, Busy
<1>1. /\ serving \/ Busy(a)
      /\ \A b \in Admins \ {a} : request'[b] = request[b]
      /\ Edits(request'[a]) =>
           \/ \E id \in Stored : handleUpdate(a, id)
           \/ \E id \in Stored, k \in Kinds, h \in Kinds \union {NoHash} : handlePut(a, id, k, h)
           \/ \E k \in Kinds, v \in BOOLEAN : Edit(a, k, v)
    BY StepKinds DEF AdminActs
<1>2. serving' = serving /\ serving
    BY <1>1 DEF AdminActs, AloneInv
<1>3. ~concurrent' => \A b \in Admins \ {a} : ~Busy(b)' /\ ~Edits(request'[b])
    BY <1>0, <1>1 DEF Busy, Edits
<1>4. Once' => Once
  <2>1. CASE syncs' = syncs
      BY <2>1 DEF Once, Bundle
  <2>2. CASE SyncOne(a)
    <3> DEFINE o == request[a].next
    <3>1. syncs' = [syncs EXCEPT ![o] = IF syncs[o] = 0 THEN 1 ELSE 2]
        BY <2>2 DEF SyncOne
    <3>2. syncs \in [Bundle -> 0..2]
        BY DEF CuratedInv, SyncsSound
    <3>3. \A i \in Bundle : syncs'[i] <= 1 => syncs[i] <= 1
        BY <3>1, <3>2
    <3> QED BY <3>3 DEF Once, Bundle
  <2> QED BY <2>1, <2>2 DEF AdminActs
<1>5. ASSUME ~concurrent', Once', NEW b \in Admins, Edits(request'[b])
      PROVE  \A x \in Stored' :
               heap'[request'[b].obj].id = x => heap'[request'[b].obj].votes >= At(x)'.votes
  <2>1. b = a
      BY <1>3, <1>5
  <2> QED BY <1>0, <1>1, <1>4, <1>5, <2>1, EditsKeepVotes
<1> QED BY <1>2, <1>3, <1>5 DEF AloneInv

\* Every step of an admin keeps the database, the requests and the votes.
LEMMA AdminSteps ==
    ASSUME CuratedInv, AloneInv, NEW a \in Admins, AdminActs(a)
    PROVE  Steps
<1>0. (AdminStep(a) /\ syncs' = syncs) \/ SyncOne(a)
    BY DEF AdminActs
<1>1. CASE SyncOne(a)
    BY <1>1, SyncOneSteps
<1>2. CASE AdminStep(a) /\ syncs' = syncs
  <2>1. CASE \E k \in Kinds : handleCreate(a, k)
      BY <1>2, <2>1, handleCreateSteps
  <2>2. CASE \E id \in Stored : handleVote(a, id)
      BY <1>2, <2>2, handleVoteSteps
  <2>3. CASE \E id \in Stored : handleUpdate(a, id) \/ handleDelete(a, id)
      BY <1>2, <2>3, ReadSteps
  <2>4. CASE \E id \in Stored : handleRemove(a, id)
    <3>1. PICK id \in Stored : Discard(id) /\ request' = request
        BY <2>4 DEF handleRemove
    <3> QED BY <1>2, <3>1, DiscardSteps
  <2>5. CASE \E id \in Stored, k \in Kinds, h \in Kinds \union {NoHash} : handlePut(a, id, k, h)
      BY <1>2, <2>5, handlePutSteps
  <2>6. CASE \E id \in 1..MaxIds, k \in Kinds, s \in {"skip", "overwrite", "upsert"},
                n \in 0..MaxVotes, v \in BOOLEAN : handleImport(a, id, k, s, n, v)
    <3>1. \A id \in 1..MaxIds : id \in Nat
        BY CuratedConfig
    <3>2. \A n \in 0..MaxVotes : n \in Nat
        BY CuratedConfig
    <3> QED BY <1>2, <2>6, <3>1, <3>2, handleImportSteps
  <2>7. CASE \E how \in {"sync platform", "sync all"} : handleSync(a, how)
      BY <1>2, <2>7, handleSyncSteps
  <2>8. CASE \E k \in Kinds, v \in BOOLEAN : Edit(a, k, v)
      BY <1>2, <2>8, EditSteps
  <2>9. CASE Save(a)
    <3>1. ~concurrent' => ~concurrent
        BY Zenon DEF AdminActs
    <3>2. Edits(request[a])
        BY <2>9 DEF Save, Edits
    <3>3. Once /\ ~concurrent' => LET o == request[a].obj
                                  IN  heap[o].id \in Stored => heap[o].votes >= At(heap[o].id).votes
        BY <3>1, <3>2 DEF AloneInv
    <3> QED BY <1>2, <2>9, <3>3, SaveSteps
  <2>10. CASE FinishDelete(a)
    <3>1. request' = [request EXCEPT ![a] = NoRequest]
        BY <2>10 DEF FinishDelete, Finish, Proceed
    <3>2. CASE Discard(request[a].id)
        BY <1>2, <3>1, <3>2, DiscardSteps
    <3>3. CASE UNCHANGED <<heap, devices, hashIndex, platformIndex, nextId, tangled, moved>>
      <4>1. PICK S : S = {}
          OBVIOUS
      <4>2. HeapGrows(S) /\ \A b \in Admins \ {a} : request[b].at = "import" => request[b].obj \notin S
          BY <3>3, <4>1, Unchanged DEF CuratedInv
      <4>3. RequestsSound'
          BY <3>1, <4>2, NewRequests, RequestsFree DEF CuratedInv
      <4> QED BY <1>2, <3>3, <4>3, RequestSteps
    <3> QED BY <2>10, <3>2, <3>3 DEF FinishDelete
  <2>11. CASE FinishImport(a)
      BY <1>2, <2>11, FinishImportSteps
  <2> QED BY <1>2, <2>1, <2>2, <2>3, <2>4, <2>5, <2>6, <2>7, <2>8, <2>9, <2>10, <2>11 DEF AdminStep
<1> QED BY <1>0, <1>1, <1>2

\* A step that leaves the database and the requests alone.
LEMMA StillSteps ==
    ASSUME CuratedInv, AloneInv, serving' = serving \/ serving',
           UNCHANGED <<heap, devices, hashIndex, platformIndex, nextId, request, tangled, moved,
                       concurrent, syncs>>
    PROVE  Steps /\ AloneInv'
<1>1. PICK S : S = {}
    OBVIOUS
<1>2. HeapGrows(S) /\ \A b \in Admins : request[b].at = "import" => request[b].obj \notin S
    BY <1>1, Unchanged DEF CuratedInv
<1>3. RequestsSound'
    BY <1>2, RequestsStay DEF CuratedInv
<1>4. AloneInv'
    BY DEF AloneInv, Busy, Once, Bundle, Stored, At
<1> QED BY <1>3, <1>4, RequestSteps

\* The bundles' devices are on the heap and nothing is stored at the start.
LEMMA CuratedStarts == CuratedInit => CuratedInv /\ AloneInv
<1> SUFFICES ASSUME CuratedInit PROVE CuratedInv /\ AloneInv
    OBVIOUS
<1> DEFINE n == Len(EmbeddedKinds)
<1>0. n \in Nat /\ EmbeddedKinds \in Seq(Kinds) /\ Bundle = 1..n
  <2>1. EmbeddedKinds \in Seq(Kinds)
      BY CuratedConfig
  <2> QED BY <2>1 DEF Bundle
<1>1. \A i \in Bundle : EmbeddedKinds[i] \in Kinds
    BY <1>0
<1> HIDE DEF n
<1>2. /\ heap = [i \in Bundle |-> Device(i, NoHash, EmbeddedKinds[i], 0, TRUE, TRUE)]
      /\ devices = <<>> /\ hashIndex = [h \in Kinds |-> <<>>]
      /\ platformIndex = [p \in {PlatformOf[k] : k \in Kinds} |-> <<>>]
      /\ nextId = n + 1 /\ request = [a \in Admins |-> NoRequest]
      /\ tangled = {} /\ moved = {} /\ syncs = [i \in Bundle |-> 0]
    BY DEF CuratedInit, n
<1>3. \A i \in Bundle : /\ heap[i] \in DeviceSet /\ heap[i].id = i /\ heap[i].hash = NoHash
    BY <1>0, <1>1, <1>2 DEF Device, DeviceSet
<1>4. heap \in Seq(DeviceSet) /\ Len(heap) = n /\ Objects = Bundle
  <2>1. heap \in [1..n -> DeviceSet]
      BY <1>0, <1>2, <1>3
  <2>2. heap \in Seq(DeviceSet)
      BY <1>0, <2>1
  <2>3. Len(heap) = n
      BY <1>0, <2>1, <2>2
  <2> QED BY <1>0, <2>2, <2>3 DEF Objects
<1>5. Stored = {}
    BY <1>2 DEF Stored
<1>6. \A h \in Kinds : hashIndex[h] = <<>> /\ HashIds(h) = {}
    BY <1>2 DEF HashIds, ToSet
<1>7. Ids = Bundle /\ nextId \in Nat /\ nextId > 0
    BY <1>0, <1>2 DEF Ids
<1>8. DatabaseTyped
  <2>1. /\ hashIndex \in [Kinds -> Seq(Nat)]
        /\ platformIndex \in [{PlatformOf[k] : k \in Kinds} -> Seq(Nat)]
    <3>1. <<>> \in Seq(Nat)
        OBVIOUS
    <3> QED BY <1>2, <3>1
  <2>2. \A o \in Bundle : heap[o].id \in Ids
      BY <1>3, <1>7
  <2>3. \A h \in Kinds : HashIds(h) \subseteq Ids
      BY <1>6
  <2> QED BY <1>4, <1>5, <1>7, <2>1, <2>2, <2>3 DEF DatabaseTyped
<1>9. PlatformListed /\ OwnIds /\ OwnHash /\ BundleHash
    BY <1>5, <1>6 DEF PlatformListed, OwnIds, OwnHash, BundleHash
<1>10. HashListed
    BY <1>5, <1>6 DEF HashListed, IsInjective
<1>11. BundleIds /\ BundleFresh
    BY <1>3, <1>5, <1>6 DEF BundleIds, BundleFresh, Unsynced
<1>12. RequestsSound
    BY <1>2, NewRequests DEF RequestsSound
<1>13. SyncsSound
  <2>1. syncs \in [Bundle -> 0..2]
      BY <1>2
  <2> QED BY <1>3, <1>5, <2>1 DEF SyncsSound, OwnOnly
<1>14. AloneInv
    BY <1>2, NewRequests DEF AloneInv, Busy
<1> QED BY <1>8, <1>9, <1>10, <1>11, <1>12, <1>13, <1>14 DEF CuratedInv, DatabaseInv

\* Every step keeps both invariants, and takes no votes while requests do not overlap.
LEMMA CuratedSteps ==
    CuratedInv /\ AloneInv /\ [CuratedNext]_curatedVars => Steps /\ AloneInv'
<1> SUFFICES ASSUME CuratedInv, AloneInv, [CuratedNext]_curatedVars PROVE Steps /\ AloneInv'
    OBVIOUS
<1>1. ASSUME NEW k \in Kinds, NEW n \in 0..MaxVotes, NEW v \in BOOLEAN, LoadFile(k, n, v)
      PROVE  Steps /\ AloneInv'
  <2>1. n \in Nat
      BY CuratedConfig
  <2>2. Steps
      BY <1>1, <2>1, LoadFileSteps
  <2>3. ~serving /\ serving' = serving /\ request' = request /\ concurrent' = concurrent
      BY <1>1 DEF LoadFile
  <2>4. \A a \in Admins : ~Busy(a) /\ ~Edits(request[a])
      BY <2>3 DEF AloneInv, Busy, Edits
  <2>5. AloneInv'
      BY <2>3, <2>4 DEF AloneInv, Busy
  <2> QED BY <2>2, <2>5
<1>2. CASE StartServing
    BY <1>2, StillSteps DEF StartServing
<1>3. ASSUME NEW a \in Admins, AdminActs(a) PROVE Steps /\ AloneInv'
    BY <1>3, AdminSteps, AloneSteps
<1>4. CASE UNCHANGED curatedVars
    BY <1>4, StillSteps DEF curatedVars
<1>5. CASE CuratedNext
    BY <1>1, <1>2, <1>3, <1>5 DEF CuratedNext, AdminActs
<1> QED BY <1>4, <1>5

\* Both invariants hold in every state.
LEMMA CuratedAlways == CuratedSpec => [](CuratedInv /\ AloneInv)
<1>1. CuratedInv /\ AloneInv /\ [CuratedNext]_curatedVars => (CuratedInv /\ AloneInv)'
    BY CuratedSteps DEF Steps, CuratedInv
<1> QED BY <1>1, CuratedStarts, PTL DEF CuratedSpec

\* What the indexes of a sound database find.
LEMMA SoundFinds == DatabaseInv => LookupsFind
<1> SUFFICES ASSUME DatabaseInv PROVE LookupsFind
    OBVIOUS
<1>1. ASSUME NEW id \in Stored \ moved PROVE id \in ToSet(GetByPlatform(PlatformOf[At(id).kind]))
  <2> DEFINE s == platformIndex[PlatformOf[At(id).kind]]
  <2>1. At(id).kind \in Kinds
      BY StoredDevice, DeviceFields
  <2>2. s \in Seq(Nat)
      BY <2>1 DEF DatabaseInv, DatabaseTyped
  <2>3. id \in ToSet(s)
      BY DEF DatabaseInv, PlatformListed, PlatformIds
  <2> HIDE DEF s
  <2>4. PICK j \in 1..Len(s) : s[j] = id
      BY <2>2, <2>3 DEF ToSet
  <2> DEFINE k == Keep(s, Stored)
  <2>5. k \in Seq(Nat)
      BY <2>2, KeepSeq
  <2>6. \A i \in 1..Len(s) : s[i] \in Stored => \E m \in 1..Len(k) : k[m] = s[i]
    <3>1. KeptOf(k, s, Stored)
        BY <2>2, KeepElements
    <3> QED BY <3>1 DEF KeptOf
  <2> HIDE DEF k
  <2>7. id \in ToSet(k)
      BY <2>4, <2>5, <2>6 DEF ToSet
  <2> QED BY <2>7 DEF GetByPlatform, s, k
<1>2. ASSUME NEW id \in Stored, At(id).hash \in Kinds \ tangled
      PROVE  GetByDeviceHash(At(id).hash) # {}
  <2> DEFINE h == At(id).hash
             s == hashIndex[h]
  <2>1. s \in Seq(Nat) /\ ToSet(s) = {x \in Stored : At(x).hash = h}
      BY <1>2 DEF DatabaseInv, DatabaseTyped, HashListed, HashIds
  <2>2. id \in ToSet(s) /\ \A x \in ToSet(s) : x \in Stored
      BY <2>1
  <2> HIDE DEF s
  <2>3. s # <<>> /\ s[1] \in ToSet(s)
    <3>1. PICK j \in 1..Len(s) : s[j] = id
        BY <2>1, <2>2 DEF ToSet
    <3>2. Len(s) \in Nat /\ DOMAIN s = 1..Len(s)
        BY <2>1
    <3>3. 1 \in DOMAIN s
        BY <3>1, <3>2
    <3> QED BY <3>1, <3>2, <3>3 DEF ToSet
  <2> QED BY <2>2, <2>3 DEF GetByDeviceHash, s
<1> QED BY <1>1, <1>2 DEF LookupsFind, FoundByPlatform, FoundByHash

\* Whatever is loaded, synced, imported, voted on, updated and removed, and however the
\* admins' handlers interleave, a stored device is found under its platform and its hash,
\* but for what an update moved or a second sync tangled.
THEOREM LookupsFindAlways == CuratedSpec => []LookupsFind
<1>1. CuratedInv => LookupsFind
    BY SoundFinds DEF CuratedInv
<1> QED BY <1>1, CuratedAlways, PTL

\* No operation takes votes from a device that stays in the database, as long as no two
\* admin requests overlap and no embedded device is synced twice.
THEOREM VotesKeptAlways == CuratedSpec => VotesKept
<1> DEFINE A == ~concurrent' /\ (\A i \in Bundle : syncs'[i] <= 1) =>
                  \A id \in Stored \intersect DOMAIN devices' :
                    heap'[devices'[id]].votes >= At(id).votes
<1>1. CuratedInv /\ AloneInv /\ [CuratedNext]_curatedVars => [A]_curatedVars
  <2> SUFFICES ASSUME CuratedInv, AloneInv, [CuratedNext]_curatedVars PROVE A
      OBVIOUS
  <2>1. Once' /\ ~concurrent' => VotesGrow
      BY CuratedSteps DEF Steps
  <2> QED BY <2>1 DEF Once, Bundle, VotesGrow, Stored, At
<1> QED BY <1>1, CuratedAlways, PTL DEF CuratedSpec, VotesKept

-----------------------------------------------------------------------------
(* The capability validator *)

Codes == {"MISSING_PLATFORM", "NO_VIDEO_CODECS", "IMPOSSIBLE_RESOLUTION",
          "IMPOSSIBLE_BITRATE", "UA_PLATFORM_MISMATCH", "EXCESSIVE_VIDEO_CODECS"}
Records == [type : Codes, count : Nat, age : 0..2]

\* What a record adds to the count.
RecordWeight(a) == IF a.age = 0 THEN a.count ELSE 0

\* Records of a history.
LEMMA HistoryRecords ==
    ASSUME NEW h \in Seq(Records)
    PROVE  /\ Len(h) \in Nat /\ DOMAIN h = 1..Len(h)
           /\ \A i \in 1..Len(h) : h[i] \in Records /\ h[i].count \in Nat /\ h[i].age \in 0..2
                                   /\ RecordWeight(h[i]) \in Nat
<1>1. Len(h) \in Nat /\ DOMAIN h = 1..Len(h) /\ \A i \in 1..Len(h) : h[i] \in Records
    OBVIOUS
<1>2. \A a \in Records : a.count \in Nat /\ a.age \in 0..2 /\ RecordWeight(a) \in Nat
    BY DEF Records, RecordWeight
<1> QED BY <1>1, <1>2

\* The equation by which the anomalies of a history are counted.
LEMMA CountEquation ==
    ASSUME NEW h \in Seq(Records)
    PROVE  LET b == CountUpTo(h)
           IN  /\ b[0] = 0
               /\ \A i \in 1..Len(h) : b[i] = b[i - 1] + RecordWeight(h[i])
               /\ \A i \in 0..Len(h) : b[i] \in Nat
<1> DEFINE n == Len(h)
           w(i) == RecordWeight(h[i])
           step == [i \in 1..n |-> [x \in Nat |-> x + w(i)]]
           F(g) == [i \in 0..n |-> IF i = 0 THEN 0 ELSE g[i - 1] + w(i)]
           b == CountUpTo(h)
<1>0. n \in Nat /\ \A i \in 1..n : w(i) \in Nat
    BY HistoryRecords
<1>1. CountUpTo(h) = CHOOSE g : g = F(g)
    BY DEF CountUpTo, RecordWeight
<1> HIDE DEF n, w
<1>2. step \in [1..n -> [Nat -> Nat]]
    BY <1>0
<1>3. PICK f : Iterates(f, Nat, 0, step, n)
  <2> HIDE DEF step
  <2> QED BY <1>0, <1>2, LoopRuns
<1>4. f \in [0..n -> Nat] /\ f[0] = 0 /\ \A i \in 1..n : f[i] = step[i][f[i - 1]]
    BY <1>3 DEF Iterates
<1>5. f = F(f)
  <2>1. ASSUME NEW i \in 0..n PROVE f[i] = F(f)[i]
    <3>1. CASE i = 0
        BY <1>4, <3>1
    <3>2. CASE i # 0
      <4>1. i \in 1..n /\ i - 1 \in 0..n
          BY <1>0, <3>2
      <4>2. f[i - 1] \in Nat
          BY <1>4, <4>1
      <4> QED BY <1>4, <3>2, <4>1, <4>2
    <3> QED BY <3>1, <3>2
  <2>2. f = [i \in 0..n |-> f[i]]
      BY <1>4
  <2> QED BY <2>1, <2>2
<1>6. b = F(b)
    BY <1>1, <1>5, Zenon
<1> HIDE DEF b
<1>7. b[0] = 0
    BY <1>0, <1>6
<1>8. ASSUME NEW i \in 1..n PROVE b[i] = b[i - 1] + w(i)
  <2>1. i \in 0..n /\ i # 0
      BY <1>0
  <2> QED BY <1>6, <2>1
<1> DEFINE N == {m \in Int : b[m] \in Nat}
<1>9. 0 \in N
    BY <1>7
<1>10. ASSUME NEW i \in 1..n, i - 1 \in N PROVE i \in N
    BY <1>0, <1>8, <1>10
<1> HIDE DEF N
<1>11. 0..n \subseteq N
    BY <1>0, <1>9, <1>10, InductUpTo
<1>12. \A i \in 0..n : b[i] \in Nat
    BY <1>11 DEF N
<1> QED BY <1>7, <1>8, <1>12 DEF b, n, w

\* A history counts a number of anomalies.
LEMMA CountNat == \A h \in Seq(Records) : AnomalyCount(h) \in Nat
<1>1. SUFFICES ASSUME NEW h \in Seq(Records) PROVE AnomalyCount(h) \in Nat
    OBVIOUS
<1>2. \A i \in 0..Len(h) : CountUpTo(h)[i] \in Nat
    BY CountEquation
<1>3. Len(h) \in 0..Len(h)
    BY HistoryRecords
<1> QED BY <1>2, <1>3 DEF AnomalyCount

\* History k has the records of h, with counts that are as high.
Grown(h, k) ==
    /\ Len(h) <= Len(k)
    /\ \A i \in 1..Len(h) : k[i].age = h[i].age /\ k[i].count >= h[i].count

\* The weights of such a history are as high.
LEMMA GrownWeights ==
    ASSUME NEW h \in Seq(Records), NEW k \in Seq(Records), Grown(h, k)
    PROVE  /\ Len(h) \in Nat /\ Len(k) \in Nat /\ Len(h) <= Len(k)
           /\ \A i \in 1..Len(h) : i \in 1..Len(k) /\ RecordWeight(h[i]) \in Nat /\ RecordWeight(k[i]) \in Nat
                                   /\ RecordWeight(h[i]) <= RecordWeight(k[i])
<1>1. /\ Len(h) \in Nat /\ Len(k) \in Nat /\ Len(h) <= Len(k)
      /\ \A i \in 1..Len(h) : i \in 1..Len(k)
    BY HistoryRecords DEF Grown
<1>2. ASSUME NEW i \in 1..Len(h)
      PROVE  RecordWeight(h[i]) \in Nat /\ RecordWeight(k[i]) \in Nat /\ RecordWeight(h[i]) <= RecordWeight(k[i])
  <2>1. RecordWeight(h[i]) \in Nat /\ RecordWeight(k[i]) \in Nat /\ h[i].count \in Nat /\ k[i].count \in Nat
      BY <1>1, HistoryRecords
  <2>2. k[i].age = h[i].age /\ k[i].count >= h[i].count
      BY DEF Grown
  <2> QED BY <2>1, <2>2 DEF RecordWeight
<1> QED BY <1>1, <1>2

\* A history that has grown counts as much, ...
LEMMA CountGrows ==
    ASSUME NEW h \in Seq(Records), NEW k \in Seq(Records), Grown(h, k)
    PROVE  \A n \in 0..Len(h) : CountUpTo(h)[n] <= CountUpTo(k)[n]
<1> DEFINE a == CountUpTo(h)
           b == CountUpTo(k)
           N == {n \in Int : a[n] <= b[n]}
<1>0. /\ Len(h) \in Nat /\ Len(k) \in Nat /\ Len(h) <= Len(k)
      /\ \A i \in 1..Len(h) : i \in 1..Len(k) /\ RecordWeight(h[i]) \in Nat /\ RecordWeight(k[i]) \in Nat
                              /\ RecordWeight(h[i]) <= RecordWeight(k[i])
    BY GrownWeights
<1>1. /\ a[0] = 0 /\ \A i \in 1..Len(h) : a[i] = a[i - 1] + RecordWeight(h[i])
      /\ \A i \in 0..Len(h) : a[i] \in Nat
    BY CountEquation
<1>2. /\ b[0] = 0 /\ \A i \in 1..Len(k) : b[i] = b[i - 1] + RecordWeight(k[i])
      /\ \A i \in 0..Len(k) : b[i] \in Nat
    BY CountEquation
<1> HIDE DEF a, b
<1>3. 0 \in N
    BY <1>1, <1>2
<1>4. ASSUME NEW i \in 1..Len(h), i - 1 \in N PROVE i \in N
  <2>1. i \in Int /\ i - 1 \in 0..Len(h) /\ i - 1 \in 0..Len(k) /\ a[i - 1] <= b[i - 1]
      BY <1>0, <1>4
  <2>2. a[i] = a[i - 1] + RecordWeight(h[i]) /\ b[i] = b[i - 1] + RecordWeight(k[i])
      BY <1>0, <1>1, <1>2
  <2>3. a[i - 1] \in Nat /\ b[i - 1] \in Nat
      BY <1>1, <1>2, <2>1
  <2> QED BY <1>0, <2>1, <2>2, <2>3
<1> HIDE DEF N
<1>5. 0..Len(h) \subseteq N
    BY <1>0, <1>3, <1>4, InductUpTo
<1> QED BY <1>5 DEF N, a, b

\* ... and more if the count of one is higher, from there on.
LEMMA CountHigher ==
    ASSUME NEW h \in Seq(Records), NEW k \in Seq(Records), Grown(h, k),
           NEW j \in 1..Len(h), RecordWeight(h[j]) + 1 <= RecordWeight(k[j])
    PROVE  CountUpTo(h)[Len(h)] + 1 <= CountUpTo(k)[Len(h)]
<1> DEFINE a == CountUpTo(h)
           b == CountUpTo(k)
           N == {n \in Int : n >= j => a[n] + 1 <= b[n]}
<1>0. /\ Len(h) \in Nat /\ Len(k) \in Nat /\ Len(h) <= Len(k)
      /\ \A i \in 1..Len(h) : i \in 1..Len(k) /\ RecordWeight(h[i]) \in Nat /\ RecordWeight(k[i]) \in Nat
                              /\ RecordWeight(h[i]) <= RecordWeight(k[i])
    BY GrownWeights
<1>1. /\ a[0] = 0 /\ \A i \in 1..Len(h) : a[i] = a[i - 1] + RecordWeight(h[i])
      /\ \A i \in 0..Len(h) : a[i] \in Nat
    BY CountEquation
<1>2. /\ b[0] = 0 /\ \A i \in 1..Len(k) : b[i] = b[i - 1] + RecordWeight(k[i])
      /\ \A i \in 0..Len(k) : b[i] \in Nat
    BY CountEquation
<1>3. \A n \in 0..Len(h) : a[n] <= b[n]
    BY CountGrows
<1> HIDE DEF a, b
<1>4. 0 \in N
    BY <1>0
<1>5. ASSUME NEW i \in 1..Len(h), i - 1 \in N PROVE i \in N
  <2>1. i \in Int /\ j \in Int /\ i - 1 \in 0..Len(h) /\ i - 1 \in 0..Len(k)
        /\ (i - 1 >= j => a[i - 1] + 1 <= b[i - 1]) /\ a[i - 1] <= b[i - 1]
      BY <1>0, <1>3, <1>5
  <2>2. a[i] = a[i - 1] + RecordWeight(h[i]) /\ b[i] = b[i - 1] + RecordWeight(k[i])
      BY <1>0, <1>1, <1>2
  <2>3. a[i - 1] \in Nat /\ b[i - 1] \in Nat /\ RecordWeight(h[i]) \in Nat /\ RecordWeight(k[i]) \in Nat
      BY <1>0, <1>1, <1>2, <2>1
  <2>4. CASE i > j
    <3>0. i - 1 >= j
        BY <2>1, <2>4
    <3>1. a[i - 1] + 1 <= b[i - 1]
        BY <2>1, <3>0
    <3>2. RecordWeight(h[i]) <= RecordWeight(k[i])
        BY <1>0
    <3>3. a[i] + 1 <= b[i]
        BY <2>2, <2>3, <3>1, <3>2
    <3> QED BY <2>1, <3>3
  <2>5. CASE i = j
      BY <1>0, <2>1, <2>2, <2>3, <2>5
  <2>6. CASE i < j
    <3>1. ~(i >= j) /\ i \in Int
        BY <2>1, <2>6
    <3> QED BY <3>1, Zenon
  <2> QED BY <2>1, <2>4, <2>5, <2>6
<1> HIDE DEF N
<1>6. 0..Len(h) \subseteq N
    BY <1>0, <1>4, <1>5, InductUpTo
<1>7. Len(h) \in N /\ Len(h) >= j
    BY <1>0, <1>6
<1> QED BY <1>7 DEF N, a, b

Fresh(h) == \A i \in 1..Len(h) : h[i].age = 0

\* Recording an anomaly keeps the records and adds to a count.
LEMMA RecordGrows ==
    ASSUME NEW h \in Seq(Records), NEW t \in Codes
    PROVE  LET k == RecordAnomaly(h, t)
           IN  /\ k \in Seq(Records) /\ Grown(h, k)
               /\ Fresh(k) => Fresh(h)
               /\ Fresh(h) => AnomalyCount(h) + 1 <= AnomalyCount(k)
<1> DEFINE k == RecordAnomaly(h, t)
           n == Len(h)
           new == [type |-> t, count |-> 1, age |-> 0]
<1>0. /\ n \in Nat /\ DOMAIN h = 1..n
      /\ \A i \in 1..n : h[i] \in Records /\ h[i].count \in Nat /\ h[i].age \in 0..2
                         /\ RecordWeight(h[i]) \in Nat
    BY HistoryRecords
<1>1. CASE RecordOf(h, t) # {}
  <2>1. k = [i \in 1..n |-> IF h[i].type = t THEN [h[i] EXCEPT !.count = @ + 1] ELSE h[i]]
      BY <1>0, <1>1 DEF RecordAnomaly
  <2> HIDE DEF k
  <2>2. ASSUME NEW i \in 1..n
        PROVE  /\ k[i] \in Records /\ k[i].age = h[i].age
               /\ k[i].count = IF h[i].type = t THEN h[i].count + 1 ELSE h[i].count
    <3>1. CASE h[i].type = t
      <4>1. k[i] = [h[i] EXCEPT !.count = h[i].count + 1]
          BY <2>1, <3>1
      <4> QED BY <1>0, <3>1, <4>1 DEF Records
    <3>2. CASE h[i].type # t
      <4>1. k[i] = h[i]
          BY <2>1, <3>2
      <4> QED BY <1>0, <3>2, <4>1
    <3> QED BY <3>1, <3>2
  <2>3. k \in [1..n -> Records]
      BY <2>1, <2>2
  <2>4. k \in Seq(Records) /\ Len(k) = n
      BY <1>0, <2>3
  <2>5. Grown(h, k)
      BY <1>0, <2>2, <2>4 DEF Grown
  <2>6. Fresh(k) => Fresh(h)
      BY <2>2, <2>4 DEF Fresh
  <2>7. ASSUME Fresh(h) PROVE AnomalyCount(h) + 1 <= AnomalyCount(k)
    <3>1. PICK j \in 1..n : h[j].type = t
        BY <1>0, <1>1 DEF RecordOf
    <3>2. h[j].age = 0 /\ k[j].age = 0 /\ k[j].count = h[j].count + 1
        BY <2>2, <2>7, <3>1 DEF Fresh
    <3>3. RecordWeight(h[j]) + 1 <= RecordWeight(k[j])
        BY <1>0, <3>2 DEF RecordWeight
    <3> QED BY <2>4, <2>5, <3>3, CountHigher DEF AnomalyCount
  <2> QED BY <2>4, <2>5, <2>6, <2>7 DEF k
<1>2. CASE RecordOf(h, t) = {}
  <2>1. k = Append(h, new) /\ new \in Records
      BY <1>2 DEF RecordAnomaly, Records
  <2>2. k \in Seq(Records) /\ Len(k) = n + 1 /\ k[n + 1] = new /\ \A i \in 1..n : k[i] = h[i]
      BY <2>1
  <2> HIDE DEF k
  <2>3. Grown(h, k)
      BY <1>0, <2>2 DEF Grown
  <2>4. Fresh(k) => Fresh(h)
      BY <1>0, <2>2 DEF Fresh
  <2>5. AnomalyCount(h) + 1 <= AnomalyCount(k)
    <3>1. CountUpTo(h)[n] <= CountUpTo(k)[n]
        BY <1>0, <2>2, <2>3, CountGrows
    <3>2. /\ \A i \in 1..Len(k) : CountUpTo(k)[i] = CountUpTo(k)[i - 1] + RecordWeight(k[i])
          /\ \A i \in 0..Len(k) : CountUpTo(k)[i] \in Nat
        BY <2>2, CountEquation
    <3>3. n + 1 \in 1..Len(k) /\ (n + 1) - 1 = n /\ n \in 0..Len(k)
        BY <1>0, <2>2
    <3>4. CountUpTo(k)[n + 1] = CountUpTo(k)[n] + RecordWeight(new) /\ RecordWeight(new) = 1
        BY <2>2, <3>2, <3>3 DEF RecordWeight
    <3>5. CountUpTo(h)[n] \in Nat /\ CountUpTo(k)[n] \in Nat
      <4>1. \A i \in 0..n : CountUpTo(h)[i] \in Nat
          BY CountEquation
      <4> QED BY <1>0, <3>2, <3>3, <4>1
    <3> QED BY <2>2, <3>1, <3>4, <3>5 DEF AnomalyCount
  <2> QED BY <2>2, <2>3, <2>4, <2>5 DEF k
<1> QED BY <1>1, <1>2

\* What the codes of one validation make of a history: each adds to it.
LEMMA RecordedGrows ==
    ASSUME NEW h \in Seq(Records), NEW codes \in Seq(Codes)
    PROVE  LET b == Recorded(h, codes)
           IN  /\ \A n \in 0..Len(codes) : b[n] \in Seq(Records) /\ Grown(h, b[n])
               /\ \A n \in 0..Len(codes) : Fresh(b[n]) => Fresh(h)
               /\ \A n \in 0..Len(codes) : Fresh(b[n]) => AnomalyCount(h) + n <= AnomalyCount(b[n])
<1> DEFINE n == Len(codes)
           X == Seq(Records)
           step == [i \in 1..n |-> [x \in X |-> RecordAnomaly(x, codes[i])]]
           F(g) == [i \in 0..n |-> IF i = 0 THEN h ELSE RecordAnomaly(g[i - 1], codes[i])]
           b == Recorded(h, codes)
<1>0. n \in Nat /\ \A i \in 1..n : codes[i] \in Codes
    OBVIOUS
<1>1. Recorded(h, codes) = CHOOSE g : g = F(g)
    BY DEF Recorded
<1>2. \A x \in X, i \in 1..n : RecordAnomaly(x, codes[i]) \in X
    BY <1>0, RecordGrows
<1> HIDE DEF n, X
<1>3. step \in [1..n -> [X -> X]]
    BY <1>2
<1>4. PICK f : Iterates(f, X, h, step, n)
  <2>1. h \in X
      BY DEF X
  <2> HIDE DEF step
  <2> QED BY <1>0, <1>3, <2>1, LoopRuns
<1>5. f \in [0..n -> X] /\ f[0] = h /\ \A i \in 1..n : f[i] = step[i][f[i - 1]]
    BY <1>4 DEF Iterates
<1>6. f = F(f)
  <2>1. ASSUME NEW i \in 0..n PROVE f[i] = F(f)[i]
    <3>1. CASE i = 0
        BY <1>5, <3>1
    <3>2. CASE i # 0
      <4>1. i \in 1..n /\ i - 1 \in 0..n
          BY <1>0, <3>2
      <4>2. f[i - 1] \in X
          BY <1>5, <4>1
      <4> QED BY <1>5, <3>2, <4>1, <4>2
    <3> QED BY <3>1, <3>2
  <2>2. f = [i \in 0..n |-> f[i]]
      BY <1>5
  <2> QED BY <2>1, <2>2
<1>7. b = F(b)
    BY <1>1, <1>6, Zenon
<1> HIDE DEF b
<1>8. b[0] = h
    BY <1>0, <1>7
<1>9. ASSUME NEW i \in 1..n PROVE b[i] = RecordAnomaly(b[i - 1], codes[i])
  <2>1. i \in 0..n /\ i # 0
      BY <1>0
  <2> QED BY <1>7, <2>1
<1> DEFINE Good(m) == /\ b[m] \in Seq(Records) /\ Grown(h, b[m])
                      /\ Fresh(b[m]) => Fresh(h) /\ AnomalyCount(h) + m <= AnomalyCount(b[m])
           N == {m \in Int : Good(m)}
<1>10. 0 \in N
  <2>1. AnomalyCount(h) \in Nat /\ Len(h) \in Nat /\ \A i \in 1..Len(h) : h[i].count \in Nat
      BY CountNat, HistoryRecords
  <2>2. Grown(h, h)
      BY <2>1 DEF Grown
  <2> QED BY <1>8, <2>1, <2>2
<1>11. ASSUME NEW i \in 1..n, i - 1 \in N PROVE i \in N
  <2> DEFINE p == b[i - 1]
             q == b[i]
  <2>1. i \in Int /\ codes[i] \in Codes /\ q = RecordAnomaly(p, codes[i])
      BY <1>0, <1>9
  <2>2. Good(i - 1)
      BY <1>11
  <2>3. /\ q \in Seq(Records) /\ Grown(p, q)
        /\ Fresh(q) => Fresh(p)
        /\ Fresh(p) => AnomalyCount(p) + 1 <= AnomalyCount(q)
      BY <2>1, <2>2, RecordGrows
  <2>4. Grown(h, q)
    <3>1. /\ Len(h) \in Nat /\ Len(p) \in Nat /\ Len(q) \in Nat
          /\ \A j \in 1..Len(h) : h[j].count \in Nat
          /\ \A j \in 1..Len(p) : p[j].count \in Nat
          /\ \A j \in 1..Len(q) : q[j].count \in Nat
        BY <2>2, <2>3, HistoryRecords
    <3> HIDE DEF p, q
    <3>2. Grown(h, p) /\ Grown(p, q)
        BY <2>2, <2>3 DEF p
    <3> QED BY <3>1, <3>2 DEF Grown
  <2>5. ASSUME Fresh(q) PROVE Fresh(h) /\ AnomalyCount(h) + i <= AnomalyCount(q)
    <3>1. Fresh(p) /\ Fresh(h) /\ AnomalyCount(h) + (i - 1) <= AnomalyCount(p)
        BY <2>2, <2>3, <2>5
    <3>2. AnomalyCount(h) \in Nat /\ AnomalyCount(p) \in Nat /\ AnomalyCount(q) \in Nat
        BY <2>2, <2>3, CountNat
    <3> QED BY <2>1, <2>3, <3>1, <3>2
  <2>6. Good(i)
      BY <2>3, <2>4, <2>5
  <2> HIDE DEF Good
  <2> QED BY <2>1, <2>6
<1> HIDE DEF N
<1>12. 0..n \subseteq N
    BY <1>0, <1>10, <1>11, InductUpTo
<1>13. \A m \in 0..n : Good(m)
    BY <1>12 DEF N
<1> QED BY <1>13 DEF b, n

\* The slice that checkAnomalies took misses no anomaly from before.
LEMMA SliceSeenCounts ==
    ASSUME NEW h \in Seq(Records), NEW codes \in Seq(Codes)
    PROVE  /\ AnomalyCount(h) <= AnomalyCount(SliceSeen(h, codes))
           /\ SliceSeen(h, codes) \in Seq(Records)
<1> DEFINE b == Recorded(h, codes)
           n == Len(codes)
           grew(m) == \E l \in 1..m : Len(b[l]) > Len(b[l - 1]) /\ Len(b[l - 1]) \in {0, 1, 2, 4, 8}
           last(m) == ~grew(m) /\ (m = n \/ grew(m + 1))
           shared == CHOOSE m \in 0..n : last(m)
<1>0. n \in Nat
    OBVIOUS
<1>1. SliceSeen(h, codes) = SubSeq(b[shared], 1, Len(h))
    BY DEF SliceSeen
<1>2. ~grew(0)
    OBVIOUS
<1>3. \A m \in 0..n : b[m] \in Seq(Records) /\ Grown(h, b[m])
    BY RecordedGrows
<1> HIDE DEF b, n, grew
<1>4. \E m \in 0..n : last(m)
  <2>1. CASE \A m \in 0..n : ~grew(m)
    <3>1. n \in 0..n /\ last(n)
        BY <1>0, <2>1
    <3> QED BY <3>1
  <2>2. CASE \E m \in 0..n : grew(m)
    <3> DEFINE T == {m \in 0..n : grew(m)}
    <3>1. T \subseteq Nat /\ T # {}
        BY <1>0, <2>2
    <3> HIDE DEF T
    <3>2. PICK x \in T : \A y \in T : x <= y
        BY <3>1, LeastElement
    <3>3. x \in 0..n /\ grew(x) /\ x # 0
        BY <1>2, <3>2 DEF T
    <3>4. x - 1 \in 0..n /\ (x - 1) + 1 = x /\ ~(x <= x - 1)
        BY <1>0, <3>3
    <3>5. ~grew(x - 1)
        BY <3>2, <3>4 DEF T
    <3>6. last(x - 1)
        BY <3>3, <3>4, <3>5
    <3> HIDE DEF last
    <3> QED BY <3>4, <3>6
  <2> QED BY <2>1, <2>2
<1>5. shared \in 0..n
  <2> HIDE DEF last
  <2> QED BY <1>4
<1> HIDE DEF shared
<1> DEFINE k == b[shared]
           s == SubSeq(k, 1, Len(h))
<1>6. k \in Seq(Records) /\ Grown(h, k)
    BY <1>3, <1>5
<1>7. Len(h) \in Nat /\ Len(k) \in Nat /\ Len(h) <= Len(k)
    BY <1>6, HistoryRecords DEF Grown
<1> HIDE DEF k
<1>8. s \in Seq(Records) /\ Len(s) = Len(h) /\ \A i \in 1..Len(h) : s[i] = k[i]
    BY <1>6, <1>7
<1> HIDE DEF s
<1>9. Grown(h, s)
    BY <1>6, <1>7, <1>8 DEF Grown
<1>10. CountUpTo(h)[Len(h)] <= CountUpTo(s)[Len(h)]
    BY <1>7, <1>8, <1>9, CountGrows
<1> QED BY <1>1, <1>8, <1>10 DEF AnomalyCount, s, k

-----------------------------------------------------------------------------
(* The score *)

Finite(c) == IsFiniteSet(c.errors) /\ IsFiniteSet(c.warnings)

\* A single warning, or none.
LEMMA WarnFinite == ASSUME NEW cond, NEW code PROVE IsFiniteSet(Warn(cond, code))
BY FS_EmptySet, FS_Singleton DEF Warn

\* Each check finds finitely many errors and warnings.
LEMMA ChecksFinite ==
    ASSUME NEW r \in Reports
    PROVE  /\ Finite(ValidatePlatform(r)) /\ Finite(ValidateVideoCodecs(r))
           /\ Finite(ValidateAudioCodecs(r)) /\ Finite(ValidateContainers(r))
           /\ Finite(ValidateResolution(r)) /\ Finite(ValidateBitrate(r))
           /\ Finite(ValidateFeatureFlags(r)) /\ Finite(ValidateDRMConsistency(r))
<1>0. \A x : IsFiniteSet({x})
    BY FS_Singleton
<1>1. IsFiniteSet({})
    BY FS_EmptySet
<1>2. \A e, w : IsFiniteSet(e) /\ IsFiniteSet(w) => Finite(Said(e, w))
    BY DEF Finite, Said
<1>3. Finite(Quiet)
    BY <1>1, <1>2 DEF Quiet
<1>4. \A S, T : IsFiniteSet(S) /\ IsFiniteSet(T) => IsFiniteSet(S \cup T)
    BY FS_Union
<1>5. \A cond, code : IsFiniteSet(Warn(cond, code))
    BY WarnFinite
<1>6. IsFiniteSet({<<"UNKNOWN_VIDEO_CODEC", v>> : v \in r.video \ KnownVideo})
  <2> DEFINE S == r.video \ KnownVideo
             T == {<<"UNKNOWN_VIDEO_CODEC", v>> : v \in S}
             f == [v \in S |-> <<"UNKNOWN_VIDEO_CODEC", v>>]
  <2>1. IsFiniteSet(r.video)
      BY ValidatorConfig
  <2>2. IsFiniteSet(S)
    <3>1. S \in SUBSET r.video
        OBVIOUS
    <3> HIDE DEF S
    <3> QED BY <2>1, <3>1, FS_Subset
  <2> HIDE DEF S
  <2>3. f \in Surjection(S, T)
      BY DEF Surjection
  <2> HIDE DEF f, T
  <2>4. IsFiniteSet(T)
      BY <2>2, <2>3, FS_Surjection
  <2> QED BY <2>4 DEF T, S
<1>7. Finite(ValidatePlatform(r))
    BY <1>0, <1>1, <1>2, <1>4, <1>5 DEF ValidatePlatform
<1>8. Finite(ValidateVideoCodecs(r))
    BY <1>0, <1>1, <1>2, <1>3, <1>4, <1>5, <1>6 DEF ValidateVideoCodecs
<1>9. Finite(ValidateAudioCodecs(r)) /\ Finite(ValidateContainers(r))
    BY <1>0, <1>1, <1>2, <1>4, <1>5 DEF ValidateAudioCodecs, ValidateContainers
<1>10. Finite(ValidateResolution(r))
    BY <1>0, <1>1, <1>2, <1>5, SMT DEF ValidateResolution
<1>11. Finite(ValidateBitrate(r))
    BY <1>0, <1>1, <1>2, <1>5, SMT DEF ValidateBitrate
<1>12. Finite(ValidateFeatureFlags(r)) /\ Finite(ValidateDRMConsistency(r))
    BY <1>0, <1>1, <1>2, <1>3, <1>4, <1>5 DEF ValidateFeatureFlags, ValidateDRMConsistency
<1> QED BY <1>7, <1>8, <1>9, <1>10, <1>11, <1>12

\* An anomalous device scores 90 at the most.
LEMMA AnomalyScore ==
    ASSUME NEW r \in Reports
    PROVE  CalculateScore(ErrorsOf(r), WarningsOf(r), TRUE) <= 90
<1> DEFINE E == ErrorsOf(r)
           W == WarningsOf(r)
           x == {e \in E : Severity(e) = "critical"}
           y == {e \in E : Severity(e) = "error"}
<1>1. \A S, T : IsFiniteSet(S) /\ IsFiniteSet(T) => IsFiniteSet(S \cup T)
    BY FS_Union
<1>2. E = ValidatePlatform(r).errors \cup ValidateVideoCodecs(r).errors \cup ValidateAudioCodecs(r).errors
            \cup ValidateContainers(r).errors \cup ValidateResolution(r).errors \cup ValidateBitrate(r).errors
            \cup ValidateFeatureFlags(r).errors \cup ValidateDRMConsistency(r).errors
    BY DEF ErrorsOf, Checks
<1>3. W = ValidatePlatform(r).warnings \cup ValidateVideoCodecs(r).warnings
            \cup ValidateAudioCodecs(r).warnings \cup ValidateContainers(r).warnings
            \cup ValidateResolution(r).warnings \cup ValidateBitrate(r).warnings
            \cup ValidateFeatureFlags(r).warnings \cup ValidateDRMConsistency(r).warnings
    BY DEF WarningsOf, Checks
<1>4. IsFiniteSet(E) /\ IsFiniteSet(W)
  <2> HIDE DEF E, W
  <2> QED BY <1>1, <1>2, <1>3, ChecksFinite DEF Finite
<1> HIDE DEF E, W
<1>5. x \in SUBSET E /\ y \in SUBSET E
    OBVIOUS
<1> HIDE DEF x, y
<1>6. IsFiniteSet(x) /\ IsFiniteSet(y)
    BY <1>4, <1>5, FS_Subset
<1>7. Cardinality(x) \in Nat /\ Cardinality(y) \in Nat /\ Cardinality(W) \in Nat
    BY <1>4, <1>6, FS_CardinalityType
<1>8. CalculateScore(E, W, TRUE)
        = ClampScore(100 - 30 * Cardinality(x) - 15 * Cardinality(y) - 2 * Cardinality(W) - 10)
    BY DEF CalculateScore, x, y
<1>9. \A k \in Int : k <= 90 => ClampScore(k) <= 90
    BY DEF ClampScore
<1>10. /\ 100 - 30 * Cardinality(x) - 15 * Cardinality(y) - 2 * Cardinality(W) - 10 \in Int
       /\ 100 - 30 * Cardinality(x) - 15 * Cardinality(y) - 2 * Cardinality(W) - 10 <= 90
    BY <1>7
<1>11. ClampScore(100 - 30 * Cardinality(x) - 15 * Cardinality(y) - 2 * Cardinality(W) - 10) <= 90
    BY <1>9, <1>10
<1> QED BY <1>8, <1>11 DEF E, W

-----------------------------------------------------------------------------
(* The history of a device *)

\* As long as no record is older than the window the history holds all anomalies since
\* it was last cut.
ValidatorInv ==
    /\ anomalyHistory \in [ReportingDevices -> Seq(Records)]
    /\ tally \in [ReportingDevices -> Nat]
    /\ \A d \in ReportingDevices :
         Fresh(anomalyHistory[d]) => tally[d] <= AnomalyCount(anomalyHistory[d])

\* An empty history counts nothing.
LEMMA EmptyHistory == <<>> \in Seq(Records) /\ AnomalyCount(<<>>) = 0
<1>1. <<>> \in Seq(Records) /\ Len(<<>>) = 0
    OBVIOUS
<1>2. CountUpTo(<<>>)[0] = 0
    BY <1>1, CountEquation
<1> QED BY <1>1, <1>2 DEF AnomalyCount

\* The anomalies of a report are codes.
LEMMA AnomaliesCodes == ASSUME NEW r PROVE AnomaliesOf(r) \in Seq(Codes)
<1>1. AnomalyOrder \in Seq(Codes)
    BY DEF AnomalyOrder, Codes
<1> QED BY <1>1, KeepSeq DEF AnomaliesOf

\* A validation adds its anomalies to the history.
LEMMA ValidationKeeps ==
    ASSUME ValidatorInv, NEW d \in ReportingDevices, NEW r \in Reports, ValidateCapabilities(d, r)
    PROVE  ValidatorInv'
<1> DEFINE codes == AnomaliesOf(r)
           h == anomalyHistory[d]
           k == Recorded(h, codes)[Len(codes)]
<1>1. /\ anomalyHistory' = [anomalyHistory EXCEPT ![d] = k]
      /\ tally' = [tally EXCEPT ![d] = tally[d] + Len(codes)]
    BY DEF ValidateCapabilities
<1>2. codes \in Seq(Codes)
    BY AnomaliesCodes
<1> HIDE DEF codes
<1>3. h \in Seq(Records) /\ tally[d] \in Nat /\ (Fresh(h) => tally[d] <= AnomalyCount(h))
    BY DEF ValidatorInv
<1>4. Len(codes) \in Nat /\ Len(codes) \in 0..Len(codes)
    BY <1>2
<1> HIDE DEF h
<1>5. /\ k \in Seq(Records)
      /\ Fresh(k) => Fresh(h) /\ AnomalyCount(h) + Len(codes) <= AnomalyCount(k)
    BY <1>2, <1>3, <1>4, RecordedGrows
<1> HIDE DEF k
<1>6. AnomalyCount(h) \in Nat /\ AnomalyCount(k) \in Nat
    BY <1>3, <1>5, CountNat
<1>7. Fresh(k) => tally[d] + Len(codes) <= AnomalyCount(k)
    BY <1>3, <1>4, <1>5, <1>6
<1> QED BY <1>1, <1>3, <1>4, <1>5, <1>7 DEF ValidatorInv

\* A cut starts the tally again, and a history that ages is not fresh.
LEMMA HistoryStep ==
    ASSUME ValidatorInv, [ValidatorNext]_validatorVars
    PROVE  ValidatorInv'
<1> DEFINE D == ReportingDevices
<1>0. /\ anomalyHistory \in [D -> Seq(Records)] /\ tally \in [D -> Nat]
      /\ \A d \in D : Fresh(anomalyHistory[d]) => tally[d] <= AnomalyCount(anomalyHistory[d])
    BY DEF ValidatorInv
<1>c. \A h \in Seq(Records) : AnomalyCount(h) \in Nat
    BY CountNat
<1>1. CASE UNCHANGED validatorVars
    BY <1>1 DEF ValidatorInv, validatorVars
<1>2. ASSUME NEW d \in D, ClearAnomalyHistory(d) PROVE ValidatorInv'
  <2>1. anomalyHistory' = [anomalyHistory EXCEPT ![d] = <<>>] /\ tally' = [tally EXCEPT ![d] = 0]
      BY <1>2 DEF ClearAnomalyHistory
  <2>2. anomalyHistory' \in [D -> Seq(Records)] /\ tally' \in [D -> Nat]
      BY <1>0, <2>1, EmptyHistory
  <2>3. ASSUME NEW e \in D, Fresh(anomalyHistory'[e])
        PROVE  tally'[e] <= AnomalyCount(anomalyHistory'[e])
    <3>1. CASE e = d
        BY <1>0, <2>1, <3>1, EmptyHistory
    <3>2. CASE e # d
        BY <1>0, <2>1, <2>3, <3>2
    <3> QED BY <3>1, <3>2
  <2> QED BY <2>2, <2>3 DEF ValidatorInv
<1>3. CASE CleanOldAnomalies
  <2>1. /\ anomalyHistory' = [d \in D |-> Recent(anomalyHistory[d])]
        /\ tally' = [d \in D |-> IF anomalyHistory'[d] = anomalyHistory[d] THEN tally[d] ELSE 0]
      BY <1>3 DEF CleanOldAnomalies
  <2>2. \A h \in Seq(Records) : Recent(h) \in Seq(Records)
      BY KeepSeq DEF Recent
  <2>3. anomalyHistory' \in [D -> Seq(Records)] /\ tally' \in [D -> Nat]
      BY <1>0, <2>1, <2>2
  <2>4. ASSUME NEW e \in D, Fresh(anomalyHistory'[e])
        PROVE  tally'[e] <= AnomalyCount(anomalyHistory'[e])
    <3>1. AnomalyCount(anomalyHistory'[e]) \in Nat
        BY <1>c, <2>3
    <3>2. CASE anomalyHistory'[e] = anomalyHistory[e]
        BY <1>0, <2>1, <2>4, <3>2
    <3>3. CASE anomalyHistory'[e] # anomalyHistory[e]
      <4>1. tally'[e] = 0
          BY <2>1, <3>3
      <4> QED BY <3>1, <4>1
    <3> QED BY <3>2, <3>3
  <2> QED BY <2>3, <2>4 DEF ValidatorInv
<1>4. CASE WindowPasses
  <2> DEFINE older(a) == [a EXCEPT !.age = IF a.age < 2 THEN a.age + 1 ELSE 2]
  <2>1. /\ anomalyHistory' = [d \in D |-> [i \in DOMAIN anomalyHistory[d] |-> older(anomalyHistory[d][i])]]
        /\ tally' = tally
      BY <1>4 DEF WindowPasses
  <2>2. \A a \in Records : older(a) \in Records /\ older(a).age # 0
      BY DEF Records
  <2> HIDE DEF older
  <2>3. ASSUME NEW e \in D
        PROVE  LET h == anomalyHistory[e]
                   k == anomalyHistory'[e]
               IN  k \in Seq(Records) /\ Len(k) = Len(h) /\ \A i \in 1..Len(h) : k[i].age # 0
    <3> DEFINE h == anomalyHistory[e]
               k == anomalyHistory'[e]
    <3>1. Len(h) \in Nat /\ DOMAIN h = 1..Len(h) /\ \A i \in 1..Len(h) : h[i] \in Records
        BY <1>0, HistoryRecords
    <3>2. k = [i \in 1..Len(h) |-> older(h[i])]
        BY <2>1, <3>1
    <3> HIDE DEF h, k
    <3>3. k \in [1..Len(h) -> Records] /\ \A i \in 1..Len(h) : k[i].age # 0
        BY <2>2, <3>1, <3>2
    <3>4. k \in Seq(Records) /\ Len(k) = Len(h)
        BY <3>1, <3>3
    <3> QED BY <3>3, <3>4 DEF h, k
  <2>4. anomalyHistory' \in [D -> Seq(Records)] /\ tally' \in [D -> Nat]
      BY <1>0, <2>1, <2>3
  <2>5. ASSUME NEW e \in D, Fresh(anomalyHistory'[e])
        PROVE  tally'[e] <= AnomalyCount(anomalyHistory'[e])
    <3>1. Len(anomalyHistory[e]) \in Nat /\ anomalyHistory[e] \in Seq(Records)
        BY <1>0
    <3>2. Len(anomalyHistory[e]) = 0
        BY <2>3, <2>5, <3>1 DEF Fresh
    <3>3. anomalyHistory[e] = <<>> /\ anomalyHistory'[e] = <<>>
        BY <2>3, <3>1, <3>2
    <3>4. Fresh(anomalyHistory[e])
        BY <2>5, <3>3
    <3> QED BY <1>0, <2>1, <3>3, <3>4
  <2> QED BY <2>4, <2>5 DEF ValidatorInv
<1> QED BY <1>1, <1>2, <1>3, <1>4, ValidationKeeps DEF ValidatorNext

\* A device with more than MaxAnomalies anomalies in the window is flagged by its next
\* validation and scores the less for it, for any devices, reports and limit.
THEOREM OffenderFlaggedAlways == ValidatorSpec => OffenderFlagged
<1>1. ValidatorInit => ValidatorInv
    BY EmptyHistory DEF ValidatorInit, ValidatorInv
<1> DEFINE Flags == \A d \in ReportingDevices :
                      /\ validations' # validations /\ result'.device = d
                      /\ tally[d] > MaxAnomalies
                      /\ \A i \in DOMAIN anomalyHistory[d] : anomalyHistory[d][i].age = 0
                      => result'.anomaly /\ result'.score <= 90
<1>2. ASSUME ValidatorInv, ValidatorNext PROVE Flags
  <2>1. SUFFICES ASSUME NEW d \in ReportingDevices, validations' # validations, result'.device = d,
                        tally[d] > MaxAnomalies,
                        \A i \in DOMAIN anomalyHistory[d] : anomalyHistory[d][i].age = 0
                 PROVE  result'.anomaly /\ result'.score <= 90
      OBVIOUS
  <2>2. PICK e \in ReportingDevices, r \in Reports : ValidateCapabilities(e, r)
      BY <1>2, <2>1 DEF ValidatorNext, ClearAnomalyHistory, CleanOldAnomalies, WindowPasses
  <2> DEFINE h == anomalyHistory[e]
             codes == AnomaliesOf(r)
             anomaly == \/ "EXCESSIVE_VIDEO_CODECS" \in WarningsOf(r)
                        \/ AnomalyCount(SliceSeen(h, codes)) > MaxAnomalies
  <2>3. result' = [device |-> e, isValid |-> ErrorsOf(r) = {}, anomaly |-> anomaly,
                   score |-> CalculateScore(ErrorsOf(r), WarningsOf(r), anomaly)]
      BY <2>2 DEF ValidateCapabilities
  <2>4. e = d
      BY <2>1, <2>3
  <2>5. h \in Seq(Records) /\ codes \in Seq(Codes) /\ tally[d] \in Nat
      BY <1>2, AnomaliesCodes DEF ValidatorInv
  <2>6. Fresh(h)
      BY <2>1, <2>4, <2>5, HistoryRecords DEF Fresh
  <2>7. tally[d] <= AnomalyCount(h)
      BY <1>2, <2>4, <2>6 DEF ValidatorInv
  <2>8. AnomalyCount(h) <= AnomalyCount(SliceSeen(h, codes))
      BY <2>5, SliceSeenCounts
  <2>9. AnomalyCount(h) \in Nat /\ AnomalyCount(SliceSeen(h, codes)) \in Nat
      BY <2>5, SliceSeenCounts, CountNat
  <2>10. anomaly = TRUE
      BY <2>1, <2>5, <2>7, <2>8, <2>9, ValidatorConfig
  <2> HIDE DEF anomaly
  <2>11. CalculateScore(ErrorsOf(r), WarningsOf(r), TRUE) <= 90
      BY AnomalyScore
  <2> QED BY <2>3, <2>10, <2>11
<1> QED BY <1>1, <1>2, HistoryStep, PTL DEF ValidatorSpec, OffenderFlagged

=============================================================================
