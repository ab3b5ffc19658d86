----------------------------- MODULE PlaybackAPI -----------------------------
(***************************************************************************)
(* internal/api/playback.go: the playback endpoints, with the decision     *)
(* they make themselves when no orchestrator is configured (the            *)
(* orchestrator's own is module TranscodeDecision).                        *)
(*                                                                         *)
(* Codec names are in the canonical form codec.Equal compares.  A request  *)
(* gives video, audio, a resolution ({} or one pair), bitrate and flags; a *)
(* device that is not in the cache has no capabilities.                    *)
(***************************************************************************)
EXTENDS Integers, Sequences, FiniteSets

CONSTANTS
    PlaybackRequests,
    PlaybackCaps       \* capabilities a device may have in the cache

VARIABLES
    cachedCaps,        \* {} or the one record the cache holds for the device
    playRequest,
    playAnswers        \* what each endpoint has answered

playbackVars == <<cachedCaps, playRequest, playAnswers>>

MaxDimension == 16384
MaxRequestBitrate == 100000000

\* PlaybackDecisionRequest.Validate, which the decision endpoint alone calls.
ValidRequest(q) ==
    /\ q.video # ""
    /\ q.bitrate \in 0..MaxRequestBitrate
    /\ \A r \in q.resolution : r[1] \in 1..MaxDimension /\ r[2] \in 1..MaxDimension

\* determineProfileName: by width and HDR alone.
DetermineProfileName(c) ==
    IF c.width >= 3840 THEN (IF c.hdr THEN "ultra_hd_hdr" ELSE "ultra_hd")
    ELSE IF c.width >= 1920 THEN (IF c.hdr THEN "full_hd_hdr" ELSE "full_hd")
    ELSE IF c.width >= 1280 THEN "hd" ELSE "sd"

\* The capabilities assumed of an unknown device: it can play what it asks for.
AssumedCaps(q) ==
    LET size == IF q.resolution = {} THEN <<0, 0>> ELSE CHOOSE r \in q.resolution : TRUE
    IN  [video |-> {q.video}, audio |-> {q.audio}, width |-> size[1], height |-> size[2],
         hdr |-> q.hdr, dv |-> q.dv, bitrate |-> 0]

AudioOK(c, q) == q.audio = "" \/ q.audio \in c.audio
ResolutionOK(c, q) ==
    \A r \in q.resolution : c.width > 0 /\ c.height > 0 => r[1] <= c.width /\ r[2] <= c.height
\* A device that lists no video codec is taken to play any.
VideoOK(c, q) == c.video = {} \/ q.video \in c.video
HdrOK(c, q) == (q.hdr => c.hdr) /\ (q.dv => c.dv)
BitrateOK(c, q) == q.bitrate > 0 /\ c.bitrate > 0 => q.bitrate <= c.bitrate

\* The loops over the targets go on after a match: the last one listed wins.
LastListed(targets, listed, default) ==
    LET hits == {i \in 1..Len(targets) : targets[i] \in listed}
    IN  IF hits = {} THEN default ELSE targets[CHOOSE i \in hits : \A j \in hits : j <= i]

VideoTargets == <<"h264", "hevc", "vp9", "av1">>

\* Faulty variant: the audio is not looked at.
PlaysDirectlyAnyAudio(c, q) ==
    VideoOK(c, q) /\ ResolutionOK(c, q) /\ HdrOK(c, q) /\ BitrateOK(c, q)

PlaysDirectly(c, q) ==
    VideoOK(c, q) /\ AudioOK(c, q) /\ ResolutionOK(c, q) /\ HdrOK(c, q) /\ BitrateOK(c, q)

\* makeDecision without an orchestrator.
MakeDecision(c, q) ==
    IF PlaysDirectly(c, q) THEN [decision |-> "direct_play"]
      ELSE [decision |-> "transcode",
            video |-> IF VideoOK(c, q) THEN "h264" ELSE LastListed(VideoTargets, c.video, "h264"),
            audio |-> IF AudioOK(c, q) THEN "aac"
                      ELSE LastListed(<<"aac", "mp3", "ac3", "opus">>, c.audio, "aac"),
            removeHDR |-> ~HdrOK(c, q),
            bitrate |-> IF BitrateOK(c, q) THEN 0 ELSE c.bitrate \div 2,
            because |-> IF ~VideoOK(c, q) THEN "video" ELSE IF ~AudioOK(c, q) THEN "audio"
                        ELSE IF ~ResolutionOK(c, q) THEN "resolution"
                        ELSE IF ~HdrOK(c, q) THEN "hdr" ELSE "bitrate"]

Answered(endpoint, a) == playAnswers' = [playAnswers EXCEPT ![endpoint] = a]
Refused == [decision |-> "refused"]

HandlePlaybackDecision ==
    /\ LET c == IF cachedCaps = {} THEN AssumedCaps(playRequest) ELSE CHOOSE k \in cachedCaps : TRUE
       IN  Answered("decision",
             IF ValidRequest(playRequest)
               THEN MakeDecision(c, playRequest)
               ELSE Refused)
    /\ UNCHANGED <<cachedCaps, playRequest>>

HandleTranscodeRecommendation ==
    /\ Answered("recommendation",
         IF cachedCaps = {} THEN Refused
         ELSE LET c == CHOOSE k \in cachedCaps : TRUE
              IN  [decision |-> "recommended", profile |-> DetermineProfileName(c),
                   video |-> LastListed(VideoTargets, c.video, "h264"),
                   audio |-> LastListed(<<"aac", "mp3", "ac3", "eac3", "opus">>, c.audio, "aac"),
                   bitrate |-> c.bitrate \div 2])
    /\ UNCHANGED <<cachedCaps, playRequest>>

\* No default for an empty list of codecs, and neither Dolby Vision nor the bitrate.
HandleValidateStream ==
    /\ Answered("validate",
         IF cachedCaps = {} THEN Refused
         ELSE LET c == CHOOSE k \in cachedCaps : TRUE
              IN  [decision |-> "checked",
                   valid |-> /\ playRequest.video \in c.video
                             /\ AudioOK(c, playRequest) /\ ResolutionOK(c, playRequest)
                             /\ playRequest.hdr => c.hdr])
    /\ UNCHANGED <<cachedCaps, playRequest>>

NoAnswer == [decision |-> "none"]

PlaybackInit ==
    /\ cachedCaps \in {{}} \cup {{c} : c \in PlaybackCaps}
    /\ playRequest \in PlaybackRequests
    /\ playAnswers = [e \in {"decision", "recommendation", "validate"} |-> NoAnswer]

PlaybackNext == HandlePlaybackDecision \/ HandleTranscodeRecommendation \/ HandleValidateStream

PlaybackSpec == PlaybackInit /\ [][PlaybackNext]_playbackVars

-----------------------------------------------------------------------------
(* Properties *)

\* The endpoints do not contradict each other: for a device in the cache that lists
\* video codecs, a stream is played directly exactly when validation passes it and
\* neither its Dolby Vision nor its bitrate, which validation ignores, is too much;
\* and a stream transcoded for its codec goes to the codec that is recommended, which
\* the device lists whenever it lists one of the targets.
EndpointsAgree ==
    LET d == playAnswers["decision"]
        v == playAnswers["validate"]
        r == playAnswers["recommendation"]
    IN  \A c \in cachedCaps : c.video # {} =>
          /\ d.decision \in {"direct_play", "transcode"} /\ v.decision = "checked" =>
               (d.decision = "direct_play"
                  <=> v.valid /\ (playRequest.dv => c.dv) /\ BitrateOK(c, playRequest))
          /\ d.decision = "transcode" /\ playRequest.video \notin c.video =>
               /\ r.decision = "recommended" => d.video = r.video
               /\ (\E i \in 1..4 : VideoTargets[i] \in c.video) => d.video \in c.video
=============================================================================
