------------------------- MODULE TranscodeDecision -------------------------
(***************************************************************************)
(* The playback decision: Decide of internal/transcode/orchestrator.go,    *)
(* with the DeviceMatcher, the codec ladders, the subtitle decision and    *)
(* the EncoderSelector it consults.  Given the media, the device, the      *)
(* server's encoders and the policy it chooses direct play, a remux, a     *)
(* transcode or the absolute fallback.                                     *)
(*                                                                         *)
(* What the decision does not tell apart is left out: resolution and       *)
(* bitrate are one flag (fits), a subtitle is its class, a trust score is  *)
(* above the threshold or not, names are lower case, as ffprobe's are.     *)
(* Where the code's choice depends on the order of a list or on a score    *)
(* that is not modelled, every candidate is a possible outcome.            *)
(***************************************************************************)
EXTENDS Integers, Sequences, FiniteSets

\* A request: the media item, the device's capabilities, the server's encoders
\* (empty also when the inventory has not been taken) and the policy.  Requests
\* is a sequence of sets of them.
CONSTANT Requests

\* HdrPolicy has three values; a channel count is an int, the HDR flags are bools.
ASSUME RequestsTyped ==
    \A k \in DOMAIN Requests : \A r \in Requests[k] :
        /\ r.policy.hdr \in {"best_for_device", "always_tonemap", "never_tonemap"}
        /\ r.item.channels \in Int /\ r.item.hdr \in BOOLEAN
        /\ \A e \in r.encoders : e.hdr \in BOOLEAN

VARIABLES
    available, \* IsTranscodeAvailable: the transcode breaker is not open
    request,
    decision

vars == <<available, request, decision>>

Undecided == [type |-> "undecided"]

-----------------------------------------------------------------------------
(* matcher.go *)

\* Faulty variant: HDR is not checked.
CanDirectPlayVideoAnyHdr(c, i) ==
    c.trusted /\ i.video \in c.video /\ i.fits /\ (i.dv # "no" => c.dv)

CanDirectPlayVideo(c, i) ==
    c.trusted /\ i.video \in c.video /\ i.fits /\ (i.hdr => c.hdr) /\ (i.dv # "no" => c.dv)

CanDirectPlayAudio(c, i) ==
    i.audio \in c.audio /\ (i.audio \in {"dts", "dts-hd"} => c.dts) /\ (i.atmos => c.atmos)

-----------------------------------------------------------------------------
(* codec_ladder.go *)

VideoLadder(source) ==
    CASE source \in {"av1", "hevc", "vp9"} -> <<"hevc", "vp9", "h264">>
      [] source = "vp8" -> <<"vp9", "h264">>
      [] OTHER -> <<"h264">>

Rung(c, n) == [codec |-> c, max |-> n]

AudioLadder(source) ==
    CASE source \in {"truehd", "dts"} ->
           <<Rung(source, 8), Rung("eac3", 8), Rung("eac3", 6), Rung("ac3", 6), Rung("aac", 6),
             Rung("aac", 2)>>
      [] source = "eac3" ->
           <<Rung("eac3", 8), Rung("eac3", 6), Rung("ac3", 6), Rung("aac", 6), Rung("aac", 2)>>
      [] source = "ac3" -> <<Rung("ac3", 6), Rung("aac", 6), Rung("aac", 2)>>
      [] source \in {"flac", "alac", "opus"} -> <<Rung(source, 8), Rung("aac", 6), Rung("aac", 2)>>
      [] source = "aac" -> <<Rung("aac", 6), Rung("aac", 2)>>
      [] source = "mp3" -> <<Rung("mp3", 2), Rung("aac", 2)>>
      [] OTHER -> <<Rung("aac", 2)>>

-----------------------------------------------------------------------------
(* encoder.go *)

Codecs(encoders) == {e.codec : e \in encoders}

\* The encoders left after the hard requirements, or, when they leave none,
\* after fewer of them; sorting by score takes one of these.
SelectEncoder(encoders, codec, needsHDR) ==
    LET candidates == {e \in encoders : e.codec = codec}
        strict == {e \in candidates : needsHDR => e.hdr /\ e.tenBit}
        noHDR == {e \in candidates : needsHDR => e.tenBit}
    IN  IF strict # {} THEN strict ELSE IF noHDR # {} THEN noHDR ELSE candidates

-----------------------------------------------------------------------------
(* subtitle.go *)

\* DecideSubtitle: whether the subtitle has to be burned into the picture.
ForcesBurnIn(r) ==
    \/ r.item.subtitle = "styled" /\ r.policy.burnInStyledText
    \/ r.item.subtitle = "graphical" /\ ~r.caps.graphicalSubtitles

-----------------------------------------------------------------------------
(* pkg/codec: CanContainerContain *)

ContainerCodecs(container) ==
    CASE container = "mp4" -> {"h264", "hevc", "vp9", "aac", "mp3", "flac", "alac"}
      [] container = "mkv" -> {"h264", "hevc", "vp9", "av1", "mpeg2", "aac", "mp3", "flac", "alac",
                               "opus", "ac3", "eac3", "dts", "truehd"}
      [] container = "ts" -> {"h264", "hevc", "mpeg2", "aac", "mp3", "ac3", "eac3", "dts"}
      [] container = "webm" -> {"vp8", "vp9", "av1", "opus", "aac", "flac"}
      [] container = "mov" -> {"h264", "hevc", "aac", "mp3"}
      [] container = "avi" -> {"h264", "mpeg4", "mp3", "aac"}
      [] container = "flv" -> {"h264", "vp6", "aac", "mp3"}
      [] OTHER -> {}

-----------------------------------------------------------------------------
(* orchestrator.go *)

\* tryDirectPlay's and tryRemux's HDR check.
HdrAllowed(r) ==
    r.item.hdr => CASE r.policy.hdr = "always_tonemap" -> FALSE
                    [] r.policy.hdr = "best_for_device" -> r.caps.hdr
                    [] OTHER -> TRUE

\* Source and target streams are the same.
AsIs(r, type, container) ==
    [type |-> type, video |-> r.item.video, audio |-> r.item.audio, container |-> container,
     channels |-> r.item.channels, videoTranscode |-> FALSE, audioTranscode |-> FALSE,
     hdrPreserved |-> r.item.hdr, toneMapped |-> FALSE]

CanDirectPlay(r) ==
    /\ CanDirectPlayVideo(r.caps, r.item)
    /\ CanDirectPlayAudio(r.caps, r.item)
    /\ r.item.container \in r.caps.containers
    /\ HdrAllowed(r)

\* findCompatibleContainer takes the first of the device's list.
RemuxContainers(r) ==
    {c \in r.caps.containers : {r.item.video, r.item.audio} \subseteq ContainerCodecs(c)}

CanRemux(r) ==
    /\ CanDirectPlayVideo(r.caps, r.item)
    /\ CanDirectPlayAudio(r.caps, r.item)
    /\ HdrAllowed(r)
    /\ RemuxContainers(r) # {}

\* The zero decision: its type is DecisionDirectPlay.
Zero == [type |-> "direct_play", video |-> "", audio |-> "", container |-> "", channels |-> 0,
         videoTranscode |-> FALSE, audioTranscode |-> FALSE,
         hdrPreserved |-> FALSE, toneMapped |-> FALSE]

AbsoluteFallback ==
    [type |-> "fallback", video |-> "h264", audio |-> "aac", container |-> "mp4", channels |-> 2,
     videoTranscode |-> TRUE, audioTranscode |-> TRUE,
     hdrPreserved |-> FALSE, toneMapped |-> FALSE]

Lowest(S) == CHOOSE k \in S : \A j \in S : k <= j

\* The rungs that the device plays and the server encodes.
OpenVideo(r) ==
    LET ladder == VideoLadder(r.item.video)
    IN  {k \in DOMAIN ladder : ladder[k] \in r.caps.video /\ ladder[k] \in Codecs(r.encoders)}

\* Faulty variant: the ladder from the bottom.
SelectVideoTargetLast(r) ==
    IF OpenVideo(r) # {}
      THEN VideoLadder(r.item.video)[CHOOSE k \in OpenVideo(r) : \A j \in OpenVideo(r) : k >= j]
      ELSE IF "h264" \in Codecs(r.encoders) THEN "h264" ELSE ""

SelectVideoTarget(r) ==
    IF OpenVideo(r) # {} THEN VideoLadder(r.item.video)[Lowest(OpenVideo(r))]
    ELSE IF "h264" \in Codecs(r.encoders) THEN "h264" ELSE ""

\* An audio rung the device plays and the server encodes or need not encode.
Usable(r, rung) ==
    rung.codec \in r.caps.audio /\ (rung.codec \in Codecs(r.encoders) \/ rung.codec = r.item.audio)

Lesser(m, n) == IF m > n THEN n ELSE m

SelectAudioTarget(r) ==
    LET ladder == AudioLadder(r.item.audio)
        usable == {k \in DOMAIN ladder : Usable(r, ladder[k])}
        first == ladder[Lowest(usable)]
    IN  IF usable = {} THEN Rung("aac", 2)
        ELSE Rung(first.codec, Lesser(first.max, r.item.channels))

SelectContainer(r, video, audio) ==
    LET fit == SelectSeq(<<"mp4", "mkv", "ts", "webm">>,
                         LAMBDA c : c \in r.caps.containers /\ {video, audio} \subseteq ContainerCodecs(c))
    IN  IF fit # <<>> THEN Head(fit)
        ELSE IF {video, audio} \subseteq ContainerCodecs("ts") THEN "ts" ELSE "mp4"

\* Dolby Vision profiles 7 and 8 carry an HDR10 base layer.
BaseLayerToneMap(r) ==
    r.item.dv \in {"7", "8"} /\ ~r.caps.dv /\ ~r.caps.hdr

NeedsToneMap(r) ==
    \/ BaseLayerToneMap(r)
    \/ /\ r.item.hdr
       /\ \/ r.policy.hdr = "always_tonemap"
          \/ r.policy.hdr = "best_for_device" /\ ~r.caps.hdr

NeedsHDR(r) ==
    /\ ~BaseLayerToneMap(r)
    /\ r.item.hdr
    /\ \/ r.policy.hdr = "never_tonemap"
       \/ r.policy.hdr = "best_for_device" /\ r.caps.hdr

\* Only the audio is transcoded.
CopiesVideo(r) ==
    CanDirectPlayVideo(r.caps, r.item) /\ ~NeedsToneMap(r) /\ ~ForcesBurnIn(r)

KeepsHDR(r, encoder) == NeedsHDR(r) /\ encoder.hdr

\* buildTranscode's video half, for each encoder the selector may return.
VideoPlans(r) ==
    IF CopiesVideo(r)
      THEN {[codec |-> r.item.video, transcode |-> FALSE, hdr |-> r.item.hdr, toneMap |-> FALSE]}
      ELSE {[codec |-> SelectVideoTarget(r), transcode |-> TRUE,
             hdr |-> KeepsHDR(r, e),
             toneMap |-> ~KeepsHDR(r, e) /\ (NeedsToneMap(r) \/ NeedsHDR(r))] :
               e \in SelectEncoder(r.encoders, SelectVideoTarget(r), NeedsHDR(r))}

\* buildTranscode: what is not transcoded at all is a remux.
Transcodes(r) ==
    LET rung == SelectAudioTarget(r)
        copied == rung.codec = r.item.audio /\ rung.max >= r.item.channels
    IN  {[type |-> IF p.transcode \/ ~copied THEN "transcode" ELSE "remux",
          video |-> p.codec, audio |-> rung.codec,
          container |-> SelectContainer(r, p.codec, rung.codec),
          channels |-> IF copied THEN r.item.channels ELSE rung.max,
          videoTranscode |-> p.transcode, audioTranscode |-> ~copied,
          hdrPreserved |-> p.hdr, toneMapped |-> p.toneMap] : p \in VideoPlans(r)}

\* Decide, for every choice that is left open.
Decisions(r, transcoding) ==
    IF ~transcoding
      THEN IF CanDirectPlay(r) THEN {AsIs(r, "direct_play", r.item.container)} ELSE {Zero}
      ELSE IF ~ForcesBurnIn(r) /\ CanDirectPlay(r)
             THEN {AsIs(r, "direct_play", r.item.container)}
           ELSE IF ~ForcesBurnIn(r) /\ CanRemux(r)
             THEN {AsIs(r, "remux", c) : c \in RemuxContainers(r)}
           ELSE IF r.encoders = {} \/ SelectVideoTarget(r) = ""
             THEN {AbsoluteFallback}
           ELSE Transcodes(r)

-----------------------------------------------------------------------------
(* A request is decided with the transcode breaker open or not *)

Init ==
    /\ available \in BOOLEAN
    /\ \E k \in DOMAIN Requests : request \in Requests[k]
    /\ decision = Undecided

Decide ==
    /\ decision = Undecided
    /\ decision' \in Decisions(request, available)
    /\ UNCHANGED <<available, request>>

Next == Decide

Spec == Init /\ [][Next]_vars

-----------------------------------------------------------------------------
(* Properties *)

\* A decision made while transcoding is available; with the breaker open an
\* unplayable item gets the zero decision.
Decided == decision # Undecided /\ available

\* A picture that is not re-encoded is one the device can show: its codec, its
\* size and its dynamic range, on a device whose claims are trusted, whichever
\* of direct play, remux or audio-only transcode was chosen.
CopiedVideoPlayable ==
    Decided /\ ~decision.videoTranscode =>
        /\ request.caps.trusted /\ request.item.fits
        /\ request.item.video \in request.caps.video
        /\ request.item.dv # "no" => request.caps.dv
        /\ request.item.hdr => request.caps.hdr /\ request.policy.hdr # "always_tonemap"

\* subtitle.go: "burn-in forces a full video transcode".  No path copies the
\* picture of a request whose subtitle has to be burned in.
BurnInTranscodes == Decided /\ ForcesBurnIn(request) => decision.videoTranscode

\* codec_ladder.go: "Each source codec has an ordered list of transcode targets,
\* best first".  The target is a codec the server can encode, and no better rung
\* is open to both the device and the server.
BestVideoTarget ==
    Decided /\ decision.type = "transcode" /\ decision.videoTranscode =>
        LET ladder == VideoLadder(request.item.video)
            both == {k \in DOMAIN ladder : /\ ladder[k] \in request.caps.video
                                           /\ ladder[k] \in Codecs(request.encoders)}
        IN  /\ decision.video \in Codecs(request.encoders)
            /\ \A k \in both : \E j \in 1..k : ladder[j] = decision.video

\* A transcoded HDR picture is either kept or tone mapped, never both; it is kept
\* only when an encoder of the target codec passes HDR through, and, under the
\* default policy, only for a device that shows it.
HdrHandledOnce ==
    Decided /\ decision.type = "transcode" /\ decision.videoTranscode =>
        /\ request.item.hdr => decision.hdrPreserved # decision.toneMapped
        /\ decision.hdrPreserved =>
              /\ \E e \in request.encoders : e.codec = decision.video /\ e.hdr
              /\ request.policy.hdr = "best_for_device" => request.caps.hdr

\* The picture of every decision is sound: copied only if the device shows it as it
\* is and no subtitle is burned in, and its HDR dealt with once.
PictureSound == CopiedVideoPlayable /\ BurnInTranscodes /\ HdrHandledOnce

\* codec_ladder.go: "preserve channel count as long as possible".  No rung that is
\* open to device and server would keep more channels than the chosen one.
ChannelsPreserved ==
    Decided /\ decision.type \in {"transcode", "remux"} =>
        \A k \in DOMAIN AudioLadder(request.item.audio) :
            LET rung == AudioLadder(request.item.audio)[k]
            IN  Usable(request, rung) =>
                  decision.channels >= Lesser(rung.max, request.item.channels)

\* Both ladders are used from the top: no better picture and no more channels were
\* open to device and server.
BestTargets == BestVideoTarget /\ ChannelsPreserved
=============================================================================
