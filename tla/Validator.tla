------------------------------ MODULE Validator ------------------------------
(***************************************************************************)
(* internal/probes/validator.go: the checks a device's reported            *)
(* capabilities go through, and the anomaly history kept per device.       *)
(*                                                                         *)
(* A report is a record: platform as reported, normal (the normalised      *)
(* name), agent ("none", "match" or "mismatch" with the platform's user    *)
(* agent pattern), the codec, container and DRM names, the limits and the  *)
(* feature flags.  Scores are in hundredths.  The age of an anomaly record *)
(* is in anomaly windows since it was first seen.                          *)
(***************************************************************************)
EXTENDS Integers, Sequences, FiniteSets, TLC, Slices

CONSTANTS
    ReportingDevices,
    Reports,           \* the reports that arrive
    MaxAnomalies,
    MaxValidations     \* bound on the validations

ASSUME ValidatorConfig == MaxAnomalies \in Nat /\ \A r \in Reports : IsFiniteSet(r.video)

VARIABLES
    anomalyHistory,    \* device -> sequence of [type, count, age]
    result,            \* the last ValidationResult, and whose
    validations,
    tally              \* anomalies each device has shown since its history was last cut

validatorVars == <<anomalyHistory, result, validations, tally>>

-----------------------------------------------------------------------------
(* The checks *)

Limits(min, max, h264) == [minVideo |-> min, maxVideo |-> max, requiresH264 |-> h264]

\* The constraints that the checks read; the lists of allowed codecs, the audio count
\* and the bitrate limit of the table are never consulted.
PlatformConstraints ==
    ("ios" :> Limits(2, 8, TRUE)) @@ ("tvos" :> Limits(0, 10, TRUE)) @@
    ("android" :> Limits(2, 12, TRUE)) @@ ("web" :> Limits(0, 8, TRUE)) @@
    ("chromecast" :> Limits(0, 6, TRUE)) @@ ("roku" :> Limits(0, 8, TRUE)) @@
    ("firetv" :> Limits(0, 8, TRUE)) @@ ("xbox" :> Limits(0, 10, TRUE)) @@
    ("playstation" :> Limits(0, 6, TRUE)) @@ ("apple_tv" :> Limits(0, 6, TRUE)) @@
    ("windows" :> Limits(0, 15, FALSE)) @@ ("macos" :> Limits(0, 10, TRUE)) @@
    ("linux" :> Limits(0, 12, FALSE))

KnownVideo == {"h264", "hevc", "vp9", "av1", "vp8", "mpeg2", "mpeg4", "vc1"}

\* Each check yields the errors and warnings it adds; a warning that is repeated per
\* codec is a pair.
Said(errs, warns) == [errors |-> errs, warnings |-> warns]
Quiet == Said({}, {})
Warn(cond, code) == IF cond THEN {code} ELSE {}

ValidatePlatform(r) ==
    IF r.platform = "" THEN Said({"MISSING_PLATFORM"}, {})
    ELSE Said({}, Warn(r.normal \notin DOMAIN PlatformConstraints, "UNKNOWN_PLATFORM")
                  \cup Warn(r.agent = "mismatch", "UA_PLATFORM_MISMATCH"))

\* The codecs are checked against the name as reported, not the normalised one.
ValidateVideoCodecs(r) ==
    IF r.platform \notin DOMAIN PlatformConstraints THEN Quiet
    ELSE IF r.video = {} THEN Said({"NO_VIDEO_CODECS"}, {})
    ELSE LET c == PlatformConstraints[r.platform]
             n == Cardinality(r.video)
         IN  Said({}, Warn(n < c.minVideo, "LOW_VIDEO_CODECS")
                      \cup Warn(n > c.maxVideo, "EXCESSIVE_VIDEO_CODECS")
                      \cup {<<"UNKNOWN_VIDEO_CODEC", v>> : v \in r.video \ KnownVideo}
                      \cup Warn(c.requiresH264 /\ "h264" \notin r.video, "MISSING_H264"))

ValidateAudioCodecs(r) ==
    IF r.audio = {} THEN Said({}, {"NO_AUDIO_CODECS"})
    ELSE Said({}, Warn({"aac", "mp3"} \cap r.audio = {}, "MISSING_COMMON_AUDIO")
                  \cup Warn(r.atmos /\ {"ac3", "eac3"} \cap r.audio = {}, "ATMOS_WITHOUT_BASE"))

ValidateContainers(r) ==
    IF r.containers = {} THEN Said({}, {"NO_CONTAINERS"})
    ELSE Said({}, Warn({"mp4", "mkv"} \cap r.containers = {}, "MISSING_COMMON_CONTAINERS"))

\* |w/h - a/b| < 0.05, in integers.
CloseTo(w, h, a, b) == LET d == w * b - a * h IN 20 * (IF d < 0 THEN -d ELSE d) < h * b

CommonRatio(w, h) == \E q \in {<<4, 3>>, <<16, 9>>, <<21, 9>>, <<1, 1>>} : CloseTo(w, h, q[1], q[2])

ValidateResolution(r) ==
    IF r.width <= 0 /\ r.height <= 0 THEN Said({}, {"NO_RESOLUTION"})
    ELSE Said(Warn(r.width > 16384 \/ r.height > 16384, "IMPOSSIBLE_RESOLUTION"),
              Warn(r.width > 0 /\ r.height > 0 /\ ~CommonRatio(r.width, r.height),
                   "UNUSUAL_ASPECT_RATIO"))

ValidateBitrate(r) ==
    IF r.bitrate <= 0 THEN Said({}, {"NO_BITRATE"})
    ELSE Said(Warn(r.bitrate > 1000000000, "IMPOSSIBLE_BITRATE"), {})

ValidateFeatureFlags(r) ==
    Said({}, Warn(r.hdr /\ ~r.tenBit, "HDR_WITHOUT_10BIT")
             \cup Warn(r.dv /\ {"hevc", "h264"} \cap r.video = {}, "DOLBY_VISION_WITHOUT_CODEC")
             \cup Warn(r.atmos /\ {"ac3", "eac3"} \cap r.audio = {}, "ATMOS_WITHOUT_AC3")
             \cup Warn(r.dts /\ "dts" \notin r.audio, "DTS_FLAG_WITHOUT_CODEC"))

\* The DRM system a platform should have, with the platform's name in lower case;
\* a report without DRM data is not checked.
ValidateDRMConsistency(r) ==
    IF r.drm = "none" THEN Quiet
    ELSE Said({},
        Warn(r.lower \in {"ios", "tvos", "apple_tv", "macos"} /\ r.drm # "fairplay",
             "APPLE_WITHOUT_FAIRPLAY")
        \cup Warn(r.lower \in {"android", "chromecast", "firetv"} /\ r.drm # "widevine",
                  "ANDROID_WITHOUT_WIDEVINE")
        \cup Warn(r.lower \in {"xbox", "windows"} /\ r.drm # "playready",
                  "WINDOWS_WITHOUT_PLAYREADY"))

Checks(r) == {ValidatePlatform(r), ValidateVideoCodecs(r), ValidateAudioCodecs(r),
              ValidateContainers(r), ValidateResolution(r), ValidateBitrate(r),
              ValidateFeatureFlags(r), ValidateDRMConsistency(r)}
ErrorsOf(r) == UNION {c.errors : c \in Checks(r)}
WarningsOf(r) == UNION {c.warnings : c \in Checks(r)}

Severity(e) == IF e = "MISSING_PLATFORM" THEN "critical" ELSE "error"
ClampScore(n) == IF n < 0 THEN 0 ELSE IF n > 100 THEN 100 ELSE n

\* The deductions made while checking are overwritten by this.
CalculateScore(errs, warns, anomaly) ==
    ClampScore(100 - 30 * Cardinality({e \in errs : Severity(e) = "critical"})
              - 15 * Cardinality({e \in errs : Severity(e) = "error"})
              - 2 * Cardinality(warns)
              - (IF anomaly THEN 10 ELSE 0))

-----------------------------------------------------------------------------
(* The anomaly history *)

\* The codes that count as anomalies, in the order they are recorded.
AnomalyOrder == <<"MISSING_PLATFORM", "NO_VIDEO_CODECS", "IMPOSSIBLE_RESOLUTION",
                  "IMPOSSIBLE_BITRATE", "UA_PLATFORM_MISMATCH", "EXCESSIVE_VIDEO_CODECS">>
AnomaliesOf(r) == Keep(AnomalyOrder, ErrorsOf(r) \cup WarningsOf(r))

RecordOf(h, type) == {i \in DOMAIN h : h[i].type = type}

\* Faulty variant: a repeated anomaly starts its count again.
RecordAnomalyAfresh(h, type) ==
    LET fresh == [type |-> type, count |-> 1, age |-> 0]
    IN  IF RecordOf(h, type) # {} THEN [i \in DOMAIN h |-> IF h[i].type = type THEN fresh ELSE h[i]]
        ELSE Append(h, fresh)

\* recordAnomaly: a repeated anomaly keeps the time it was first seen.
RecordAnomaly(h, type) ==
    IF RecordOf(h, type) # {}
      THEN [i \in DOMAIN h |-> IF h[i].type = type THEN [h[i] EXCEPT !.count = @ + 1] ELSE h[i]]
      ELSE Append(h, [type |-> type, count |-> 1, age |-> 0])

\* The history after each of the codes.
Recorded(h, codes) ==
    LET after[n \in 0..Len(codes)] == IF n = 0 THEN h ELSE RecordAnomaly(after[n - 1], codes[n])
    IN  after

\* What checkAnomalies sees through the slice it took first: no record appended since,
\* and the counts only until an append has moved the history to a larger array.
SliceSeen(h, codes) ==
    LET after == Recorded(h, codes)
        moved(n) == \E m \in 1..n : /\ Len(after[m]) > Len(after[m - 1])
                                    /\ Len(after[m - 1]) \in {0, 1, 2, 4, 8}
        shared == CHOOSE n \in 0..Len(codes) :
                    ~moved(n) /\ (n = Len(codes) \/ moved(n + 1))
    IN  SubSeq(after[shared], 1, Len(h))

\* The anomalies of the records first seen within the window: of the first n, and of all.
CountUpTo(h) ==
    LET sum[n \in 0..Len(h)] ==
          IF n = 0 THEN 0 ELSE sum[n - 1] + (IF h[n].age = 0 THEN h[n].count ELSE 0)
    IN  sum
AnomalyCount(h) == CountUpTo(h)[Len(h)]

ValidateCapabilities(d, r) ==
    LET codes == AnomaliesOf(r)
        h == anomalyHistory[d]
        anomaly == \/ "EXCESSIVE_VIDEO_CODECS" \in WarningsOf(r)
                   \/ AnomalyCount(SliceSeen(h, codes)) > MaxAnomalies
    IN  /\ validations < MaxValidations
        /\ anomalyHistory' = [anomalyHistory EXCEPT ![d] = Recorded(h, codes)[Len(codes)]]
        /\ result' = [device |-> d, isValid |-> ErrorsOf(r) = {}, anomaly |-> anomaly,
                      score |-> CalculateScore(ErrorsOf(r), WarningsOf(r), anomaly)]
        /\ validations' = validations + 1
        /\ tally' = [tally EXCEPT ![d] = @ + Len(codes)]

ClearAnomalyHistory(d) ==
    /\ anomalyHistory[d] # <<>>
    /\ anomalyHistory' = [anomalyHistory EXCEPT ![d] = <<>>]
    /\ tally' = [tally EXCEPT ![d] = 0]
    /\ UNCHANGED <<result, validations>>

Recent(h) == Keep(h, {h[i] : i \in {j \in 1..Len(h) : h[j].age < 2}})

\* Records first seen two windows ago go, with the counts they have gathered since.
CleanOldAnomalies ==
    /\ \E d \in ReportingDevices : \E i \in DOMAIN anomalyHistory[d] : anomalyHistory[d][i].age = 2
    /\ anomalyHistory' = [d \in ReportingDevices |-> Recent(anomalyHistory[d])]
    /\ tally' = [d \in ReportingDevices |-> IF anomalyHistory'[d] = anomalyHistory[d] THEN tally[d] ELSE 0]
    /\ UNCHANGED <<result, validations>>

\* An anomaly window passes.
WindowPasses ==
    /\ \E d \in ReportingDevices : \E i \in DOMAIN anomalyHistory[d] : anomalyHistory[d][i].age < 2
    /\ anomalyHistory' = [d \in ReportingDevices |-> [i \in DOMAIN anomalyHistory[d] |->
                            [anomalyHistory[d][i] EXCEPT !.age = IF @ < 2 THEN @ + 1 ELSE 2]]]
    /\ UNCHANGED <<result, validations, tally>>

ValidatorInit ==
    /\ anomalyHistory = [d \in ReportingDevices |-> <<>>]
    /\ result = [device |-> "none", isValid |-> TRUE, anomaly |-> FALSE, score |-> 100]
    /\ validations = 0
    /\ tally = [d \in ReportingDevices |-> 0]

ValidatorNext ==
    \/ \E d \in ReportingDevices :
         (\E r \in Reports : ValidateCapabilities(d, r)) \/ ClearAnomalyHistory(d)
    \/ CleanOldAnomalies
    \/ WindowPasses

ValidatorSpec == ValidatorInit /\ [][ValidatorNext]_validatorVars

-----------------------------------------------------------------------------
(* Properties *)

\* While all the anomalies of a device were first seen within the window, a device
\* that has shown more than MaxAnomalies of them is reported as anomalous by its next
\* validation, clean or not, and scores the less for it: the slice that
\* checkAnomalies took misses what this validation adds, but nothing from before.
OffenderFlagged ==
    [][\A d \in ReportingDevices :
         /\ validations' # validations /\ result'.device = d
         /\ tally[d] > MaxAnomalies
         /\ \A i \in DOMAIN anomalyHistory[d] : anomalyHistory[d][i].age = 0
         => result'.anomaly /\ result'.score <= 90]_validatorVars
=============================================================================
