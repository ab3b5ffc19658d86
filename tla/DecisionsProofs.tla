-------------------------- MODULE DecisionsProofs ---------------------------
(****************************************************************************)
(* Proofs that the playback decision is sound for every request, that the   *)
(* playback endpoints agree for every device and stream, that a device      *)
(* asked for by its own name is passed over only for one that scores as     *)
(* high, and that applying the vendor rules again changes nothing.          *)
(****************************************************************************)
EXTENDS TranscodeDecision, PlaybackAPI, FuzzyMatch, VendorRules, SlicesProofs,
        FiniteSetTheorems, TLAPS

-----------------------------------------------------------------------------
(* The orchestrator's decision *)

RequestTyped(r) ==
    /\ r.policy.hdr \in {"best_for_device", "always_tonemap", "never_tonemap"}
    /\ r.item.channels \in Int /\ r.item.hdr \in BOOLEAN
    /\ \A e \in r.encoders : e.hdr \in BOOLEAN

\* A decision is one that Decide makes for the request, which nothing changes.
DecisionInv ==
    /\ available \in BOOLEAN /\ RequestTyped(request)
    /\ decision = Undecided \/ decision \in Decisions(request, available)

\* The request is decided once and stays what it is.
LEMMA DecisionInvariant == Spec => []DecisionInv
<1>1. Init => DecisionInv
    BY RequestsTyped DEF Init, DecisionInv, RequestTyped
<1>2. DecisionInv /\ [Next]_vars => DecisionInv'
    BY DEF DecisionInv, Next, Decide, vars
<1> QED BY <1>1, <1>2, PTL DEF Spec

\* A set of rungs has a lowest one.
LEMMA LowestIs ==
    ASSUME NEW S, S \subseteq 1..6, S # {}
    PROVE  Lowest(S) \in S /\ \A j \in S : Lowest(S) <= j
<1>1. \E k \in S : \A j \in S : k <= j
  <2>1. CASE 1 \in S
      BY <2>1
  <2>2. CASE 1 \notin S /\ 2 \in S
      BY <2>2
  <2>3. CASE 1 \notin S /\ 2 \notin S /\ 3 \in S
      BY <2>3
  <2>4. CASE 1 \notin S /\ 2 \notin S /\ 3 \notin S /\ 4 \in S
      BY <2>4
  <2>5. CASE 1 \notin S /\ 2 \notin S /\ 3 \notin S /\ 4 \notin S /\ 5 \in S
      BY <2>5
  <2>6. CASE 1 \notin S /\ 2 \notin S /\ 3 \notin S /\ 4 \notin S /\ 5 \notin S
    <3>1. \A j \in S : j = 6
        BY <2>6
    <3>2. 6 \in S
        BY <3>1
    <3> QED BY <3>1, <3>2
  <2> QED BY <2>1, <2>2, <2>3, <2>4, <2>5, <2>6
<1> QED BY <1>1 DEF Lowest

\* A ladder has at most six rungs, numbered from one.
LEMMA VideoLadderDomain == ASSUME NEW v PROVE DOMAIN VideoLadder(v) \subseteq 1..6
BY DEF VideoLadder

\* Down the audio ladder the number of channels does not grow.
LEMMA AudioLadderFalls ==
    ASSUME NEW source
    PROVE  LET ladder == AudioLadder(source)
           IN  /\ DOMAIN ladder \subseteq 1..6
               /\ \A k \in DOMAIN ladder : ladder[k].max \in Nat
               /\ \A j, k \in DOMAIN ladder : j <= k => ladder[k].max <= ladder[j].max
<1>1. CASE source \in {"truehd", "dts"}
    BY <1>1 DEF AudioLadder, Rung
<1>2. CASE source = "eac3"
    BY <1>2 DEF AudioLadder, Rung
<1>3. CASE source = "ac3"
    BY <1>3 DEF AudioLadder, Rung
<1>4. CASE source \in {"flac", "alac", "opus"}
    BY <1>4 DEF AudioLadder, Rung
<1>5. CASE source = "aac"
    BY <1>5 DEF AudioLadder, Rung
<1>6. CASE source = "mp3"
    BY <1>6 DEF AudioLadder, Rung
<1>7. CASE source \notin {"truehd", "dts", "eac3", "ac3", "flac", "alac", "opus", "aac", "mp3"}
    BY <1>7 DEF AudioLadder, Rung
<1> QED BY <1>1, <1>2, <1>3, <1>4, <1>5, <1>6, <1>7

\* A rung is among those down to any rung below it.
LEMMA UpTo == ASSUME NEW x \in 1..6, NEW y \in 1..6, x <= y PROVE x \in 1..y
OBVIOUS

\* The video target is encoded by the server, and no open rung is above it.
LEMMA VideoTarget ==
    ASSUME NEW r, SelectVideoTarget(r) # ""
    PROVE  /\ SelectVideoTarget(r) \in Codecs(r.encoders)
           /\ \A k \in OpenVideo(r) : \E j \in 1..k : VideoLadder(r.item.video)[j] = SelectVideoTarget(r)
<1>1. CASE OpenVideo(r) = {}
    BY <1>1 DEF SelectVideoTarget
<1>2. CASE OpenVideo(r) # {}
  <2>1. OpenVideo(r) \subseteq 1..6
      BY VideoLadderDomain DEF OpenVideo
  <2>2. Lowest(OpenVideo(r)) \in OpenVideo(r) /\ \A j \in OpenVideo(r) : Lowest(OpenVideo(r)) <= j
      BY <1>2, <2>1, LowestIs
  <2>3. SelectVideoTarget(r) = VideoLadder(r.item.video)[Lowest(OpenVideo(r))]
      BY <1>2 DEF SelectVideoTarget
  <2>4. SelectVideoTarget(r) \in Codecs(r.encoders)
      BY <2>2, <2>3 DEF OpenVideo
  <2>5. ASSUME NEW k \in OpenVideo(r)
        PROVE  \E j \in 1..k : VideoLadder(r.item.video)[j] = SelectVideoTarget(r)
    <3>1. Lowest(OpenVideo(r)) \in 1..k
      <4>1. Lowest(OpenVideo(r)) \in 1..6 /\ k \in 1..6 /\ Lowest(OpenVideo(r)) <= k
          BY <2>1, <2>2, <2>5
      <4> QED BY <4>1, UpTo
    <3> QED BY <2>3, <3>1
  <2> QED BY <2>4, <2>5
<1> QED BY <1>1, <1>2

\* The audio target keeps as many channels as any open rung would.
LEMMA AudioTarget ==
    ASSUME NEW r, r.item.channels \in Int
    PROVE  /\ SelectAudioTarget(r).max \in Int
           /\ \A k \in DOMAIN AudioLadder(r.item.audio) :
                Usable(r, AudioLadder(r.item.audio)[k]) =>
                  SelectAudioTarget(r).max >= Lesser(AudioLadder(r.item.audio)[k].max, r.item.channels)
<1> DEFINE ladder == AudioLadder(r.item.audio)
           usable == {k \in DOMAIN ladder : Usable(r, ladder[k])}
           first == ladder[Lowest(usable)]
<1>1. CASE usable = {}
  <2>1. SelectAudioTarget(r) = Rung("aac", 2)
      BY <1>1 DEF SelectAudioTarget
  <2> QED BY <1>1, <2>1 DEF Rung
<1>2. CASE usable # {}
  <2>1. SelectAudioTarget(r).max = Lesser(first.max, r.item.channels)
      BY <1>2 DEF SelectAudioTarget, Rung
  <2>2. usable \subseteq 1..6
      BY AudioLadderFalls
  <2>3. Lowest(usable) \in usable /\ \A j \in usable : Lowest(usable) <= j
      BY <1>2, <2>2, LowestIs
  <2>4. first.max \in Nat /\ \A k \in usable : ladder[k].max \in Nat /\ ladder[k].max <= first.max
      BY <2>3, AudioLadderFalls
  <2> HIDE DEF first
  <2>5. SelectAudioTarget(r).max \in Int
      BY <2>1, <2>4 DEF Lesser
  <2>6. \A k \in usable : Lesser(first.max, r.item.channels) >= Lesser(ladder[k].max, r.item.channels)
      BY <2>4 DEF Lesser
  <2> QED BY <2>1, <2>5, <2>6
<1> QED BY <1>1, <1>2

\* What Decide chooses while transcoding is available.
LEMMA DecisionCases ==
    ASSUME NEW r, NEW d \in Decisions(r, TRUE)
    PROVE  \/ ~ForcesBurnIn(r) /\ CanDirectPlay(r) /\ d = AsIs(r, "direct_play", r.item.container)
           \/ ~ForcesBurnIn(r) /\ CanRemux(r) /\ \E c \in RemuxContainers(r) : d = AsIs(r, "remux", c)
           \/ d = AbsoluteFallback
           \/ SelectVideoTarget(r) # "" /\ d \in Transcodes(r)
BY DEF Decisions

\* buildTranscode: the video half is a plan, the audio half the audio target.
LEMMA TranscodeIs ==
    ASSUME NEW r, NEW d \in Transcodes(r)
    PROVE  /\ \E p \in VideoPlans(r) :
                /\ d.video = p.codec /\ d.videoTranscode = p.transcode
                /\ d.hdrPreserved = p.hdr /\ d.toneMapped = p.toneMap
           /\ d.channels \in {r.item.channels, SelectAudioTarget(r).max}
BY DEF Transcodes

\* A picture is copied, or goes to the target codec with one of the encoders left.
LEMMA PlanIs ==
    ASSUME NEW r, NEW p \in VideoPlans(r)
    PROVE  \/ CopiesVideo(r) /\ p.transcode = FALSE
           \/ /\ p.transcode = TRUE /\ p.codec = SelectVideoTarget(r)
              /\ \E e \in r.encoders :
                   /\ e.codec = SelectVideoTarget(r)
                   /\ p.hdr = KeepsHDR(r, e)
                   /\ p.toneMap = (~KeepsHDR(r, e) /\ (NeedsToneMap(r) \/ NeedsHDR(r)))
<1>1. CASE CopiesVideo(r)
    BY <1>1 DEF VideoPlans
<1>2. CASE ~CopiesVideo(r)
  <2>1. PICK e \in SelectEncoder(r.encoders, SelectVideoTarget(r), NeedsHDR(r)) :
          p = [codec |-> SelectVideoTarget(r), transcode |-> TRUE, hdr |-> KeepsHDR(r, e),
               toneMap |-> ~KeepsHDR(r, e) /\ (NeedsToneMap(r) \/ NeedsHDR(r))]
      BY <1>2 DEF VideoPlans
  <2>2. e \in r.encoders /\ e.codec = SelectVideoTarget(r)
      BY DEF SelectEncoder
  <2> QED BY <2>1, <2>2
<1> QED BY <1>1, <1>2

\* HDR that is neither kept nor mapped does not exist: every policy says which.
LEMMA HdrDecided ==
    ASSUME NEW r, RequestTyped(r), r.item.hdr
    PROVE  NeedsToneMap(r) \/ NeedsHDR(r)
BY DEF RequestTyped, NeedsToneMap, NeedsHDR

\* Copied pictures are playable.
LEMMA CopiedIsPlayable ==
    ASSUME NEW r, \/ CanDirectPlay(r) \/ CanRemux(r) \/ CopiesVideo(r)
    PROVE  /\ r.caps.trusted /\ r.item.fits /\ r.item.video \in r.caps.video
           /\ r.item.dv # "no" => r.caps.dv
           /\ r.item.hdr => r.caps.hdr /\ r.policy.hdr # "always_tonemap"
BY DEF CanDirectPlay, CanRemux, CopiesVideo, CanDirectPlayVideo, HdrAllowed, NeedsToneMap

\* Whatever the request, the picture of a decision is one the device can show, a
\* subtitle that has to be burned in is never lost on a copied picture, and HDR is
\* either kept, with an encoder and a device that can, or tone mapped.
THEOREM PictureSoundAlways == Spec => []PictureSound
<1>1. DecisionInv => PictureSound
  <2> SUFFICES ASSUME DecisionInv, Decided
               PROVE  PictureSound
      BY DEF PictureSound, CopiedVideoPlayable, BurnInTranscodes, HdrHandledOnce
  <2> DEFINE r == request
             d == decision
  <2>1. d \in Decisions(r, TRUE) /\ RequestTyped(r)
      BY DEF DecisionInv, Decided
  <2>2. CASE ~ForcesBurnIn(r) /\ CanDirectPlay(r) /\ d = AsIs(r, "direct_play", r.item.container)
      BY <2>2, CopiedIsPlayable
         DEF AsIs, PictureSound, CopiedVideoPlayable, BurnInTranscodes, HdrHandledOnce
  <2>3. CASE ~ForcesBurnIn(r) /\ CanRemux(r) /\ \E c \in RemuxContainers(r) : d = AsIs(r, "remux", c)
      BY <2>3, CopiedIsPlayable
         DEF AsIs, PictureSound, CopiedVideoPlayable, BurnInTranscodes, HdrHandledOnce
  <2>4. CASE d = AbsoluteFallback
      BY <2>4 DEF AbsoluteFallback, PictureSound, CopiedVideoPlayable, BurnInTranscodes, HdrHandledOnce
  <2>5. CASE SelectVideoTarget(r) # "" /\ d \in Transcodes(r)
    <3>1. PICK p \in VideoPlans(r) : /\ d.video = p.codec /\ d.videoTranscode = p.transcode
                                     /\ d.hdrPreserved = p.hdr /\ d.toneMapped = p.toneMap
        BY <2>5, TranscodeIs
    <3>2. CASE CopiesVideo(r) /\ p.transcode = FALSE
      <4>1. ~ForcesBurnIn(r) /\ ~d.videoTranscode
          BY <3>1, <3>2 DEF CopiesVideo
      <4> QED BY <3>2, <4>1, CopiedIsPlayable
              DEF PictureSound, CopiedVideoPlayable, BurnInTranscodes, HdrHandledOnce
    <3>3. CASE p.transcode = TRUE /\ p.codec = SelectVideoTarget(r)
      <4>1. PICK e \in r.encoders :
              /\ e.codec = SelectVideoTarget(r) /\ p.hdr = KeepsHDR(r, e)
              /\ p.toneMap = (~KeepsHDR(r, e) /\ (NeedsToneMap(r) \/ NeedsHDR(r)))
          BY <3>3, PlanIs
      <4>2. d.videoTranscode = TRUE
          BY <3>1, <3>3
      <4>3. ASSUME r.item.hdr PROVE d.hdrPreserved # d.toneMapped
          BY <2>1, <3>1, <4>1, <4>3, HdrDecided DEF KeepsHDR
      <4>4. ASSUME d.hdrPreserved
            PROVE  /\ e.codec = d.video /\ e.hdr
                   /\ r.policy.hdr = "best_for_device" => r.caps.hdr
          BY <3>1, <3>3, <4>1, <4>4 DEF KeepsHDR, NeedsHDR
      <4> QED BY <4>2, <4>3, <4>4 DEF PictureSound, CopiedVideoPlayable, BurnInTranscodes, HdrHandledOnce
    <3> QED BY <3>2, <3>3, PlanIs
  <2> QED BY <2>1, <2>2, <2>3, <2>4, <2>5, DecisionCases
<1> QED BY <1>1, DecisionInvariant, PTL

\* Whatever the request, the targets of a decision are the best that device and
\* server both have: no rung above the picture's, and none with more channels.
THEOREM BestTargetsAlways == Spec => []BestTargets
<1>1. DecisionInv => BestTargets
  <2> SUFFICES ASSUME DecisionInv, Decided
               PROVE  BestTargets
      BY DEF BestTargets, BestVideoTarget, ChannelsPreserved
  <2> DEFINE r == request
             d == decision
             ladder == AudioLadder(r.item.audio)
  <2>1. d \in Decisions(r, TRUE) /\ r.item.channels \in Int
      BY DEF DecisionInv, Decided, RequestTyped
  <2>2. \A k \in DOMAIN ladder : Lesser(ladder[k].max, r.item.channels) <= r.item.channels
      BY <2>1, AudioLadderFalls DEF Lesser
  <2>3. CASE d = AsIs(r, "direct_play", r.item.container) \/ \E c \in RemuxContainers(r) : d = AsIs(r, "remux", c)
    <3>1. d.videoTranscode = FALSE /\ d.channels = r.item.channels
        BY <2>3 DEF AsIs
    <3>2. ChannelsPreserved
        BY <2>1, <2>2, <3>1, AudioLadderFalls DEF ChannelsPreserved, Lesser
    <3> QED BY <3>1, <3>2 DEF BestTargets, BestVideoTarget
  <2>4. CASE d = AbsoluteFallback
      BY <2>4 DEF AbsoluteFallback, BestTargets, BestVideoTarget, ChannelsPreserved
  <2>5. CASE SelectVideoTarget(r) # "" /\ d \in Transcodes(r)
    <3>1. PICK p \in VideoPlans(r) : d.video = p.codec /\ d.videoTranscode = p.transcode
        BY <2>5, TranscodeIs
    <3>2. BestVideoTarget
      <4> SUFFICES ASSUME d.videoTranscode PROVE BestVideoTarget
          BY DEF BestVideoTarget
      <4>1. d.video = SelectVideoTarget(r)
          BY <3>1, PlanIs
      <4> QED BY <2>5, <4>1, VideoTarget DEF BestVideoTarget, OpenVideo
    <3>3. ChannelsPreserved
      <4>1. d.channels \in {r.item.channels, SelectAudioTarget(r).max}
          BY <2>5, TranscodeIs
      <4>2. ASSUME NEW k \in DOMAIN ladder, Usable(r, ladder[k])
            PROVE  d.channels >= Lesser(ladder[k].max, r.item.channels)
        <5>1. SelectAudioTarget(r).max >= Lesser(ladder[k].max, r.item.channels)
            BY <2>1, <4>2, AudioTarget
        <5>2. r.item.channels >= Lesser(ladder[k].max, r.item.channels)
            BY <2>1, AudioLadderFalls DEF Lesser
        <5> QED BY <4>1, <5>1, <5>2
      <4> QED BY <4>2 DEF ChannelsPreserved
    <3> QED BY <3>2, <3>3 DEF BestTargets
  <2> QED BY <2>1, <2>3, <2>4, <2>5, DecisionCases
<1> QED BY <1>1, DecisionInvariant, PTL

-----------------------------------------------------------------------------
(* The playback endpoints *)

TheCaps == CHOOSE k \in cachedCaps : TRUE

\* What each endpoint answers for the device and the request.
DecisionAnswer ==
    IF ValidRequest(playRequest)
      THEN MakeDecision(IF cachedCaps = {} THEN AssumedCaps(playRequest) ELSE TheCaps, playRequest)
      ELSE Refused
RecommendationAnswer ==
    IF cachedCaps = {} THEN Refused
    ELSE [decision |-> "recommended", profile |-> DetermineProfileName(TheCaps),
          video |-> LastListed(VideoTargets, TheCaps.video, "h264"),
          audio |-> LastListed(<<"aac", "mp3", "ac3", "eac3", "opus">>, TheCaps.audio, "aac"),
          bitrate |-> TheCaps.bitrate \div 2]
ValidateAnswer ==
    IF cachedCaps = {} THEN Refused
    ELSE [decision |-> "checked",
          valid |-> /\ playRequest.video \in TheCaps.video
                    /\ AudioOK(TheCaps, playRequest) /\ ResolutionOK(TheCaps, playRequest)
                    /\ playRequest.hdr => TheCaps.hdr]

\* There is at most one record for the device, and an endpoint has answered with what
\* it computes from that record, or not at all.
EndpointsInv ==
    /\ \A b, c \in cachedCaps : b = c
    /\ DOMAIN playAnswers = {"decision", "recommendation", "validate"}
    /\ playAnswers = [e \in DOMAIN playAnswers |-> playAnswers[e]]
    /\ playAnswers["decision"] \in {NoAnswer, DecisionAnswer}
    /\ playAnswers["recommendation"] \in {NoAnswer, RecommendationAnswer}
    /\ playAnswers["validate"] \in {NoAnswer, ValidateAnswer}

\* The endpoints answer from the same record and the same request, whenever they are
\* asked and in whatever order.
LEMMA EndpointsInvariant == PlaybackSpec => []EndpointsInv
<1>1. PlaybackInit => EndpointsInv
    BY DEF PlaybackInit, EndpointsInv
<1>2. EndpointsInv /\ [PlaybackNext]_playbackVars => EndpointsInv'
  <2> SUFFICES ASSUME EndpointsInv, [PlaybackNext]_playbackVars PROVE EndpointsInv'
      OBVIOUS
  <2>1. UNCHANGED <<cachedCaps, playRequest>>
      BY DEF PlaybackNext, HandlePlaybackDecision, HandleTranscodeRecommendation,
             HandleValidateStream, playbackVars
  <2>2. /\ DecisionAnswer' = DecisionAnswer /\ ValidateAnswer' = ValidateAnswer
        /\ RecommendationAnswer' = RecommendationAnswer
      BY <2>1 DEF DecisionAnswer, RecommendationAnswer, ValidateAnswer, TheCaps
  <2>3. CASE HandlePlaybackDecision
    <3>1. playAnswers' = [playAnswers EXCEPT !["decision"] = DecisionAnswer]
        BY <2>3 DEF HandlePlaybackDecision, Answered, DecisionAnswer, TheCaps
    <3> QED BY <2>1, <2>2, <3>1 DEF EndpointsInv
  <2>4. CASE HandleTranscodeRecommendation
    <3>1. playAnswers' = [playAnswers EXCEPT !["recommendation"] = RecommendationAnswer]
        BY <2>4 DEF HandleTranscodeRecommendation, Answered, RecommendationAnswer, TheCaps
    <3> QED BY <2>1, <2>2, <3>1 DEF EndpointsInv
  <2>5. CASE HandleValidateStream
    <3>1. playAnswers' = [playAnswers EXCEPT !["validate"] = ValidateAnswer]
        BY <2>5 DEF HandleValidateStream, Answered, ValidateAnswer, TheCaps
    <3> QED BY <2>1, <2>2, <3>1 DEF EndpointsInv
  <2>6. CASE UNCHANGED playbackVars
      BY <2>1, <2>2, <2>6 DEF EndpointsInv, playbackVars
  <2> QED BY <2>3, <2>4, <2>5, <2>6 DEF PlaybackNext
<1> QED BY <1>1, <1>2, PTL DEF PlaybackSpec

\* The loop over the video targets ends with one that is listed, if any is.
LEMMA LastListedListed ==
    ASSUME NEW listed, \E i \in 1..4 : VideoTargets[i] \in listed
    PROVE  LastListed(VideoTargets, listed, "h264") \in listed
<1> DEFINE hits == {i \in 1..Len(VideoTargets) : VideoTargets[i] \in listed}
<1>1. Len(VideoTargets) = 4
    BY DEF VideoTargets
<1>2. hits \subseteq 1..4 /\ hits # {}
    BY <1>1
<1> HIDE DEF hits
<1>3. \E i \in hits : \A j \in hits : j <= i
  <2>1. CASE 4 \in hits
      BY <1>2, <2>1
  <2>2. CASE 4 \notin hits /\ 3 \in hits
      BY <1>2, <2>2
  <2>3. CASE 4 \notin hits /\ 3 \notin hits /\ 2 \in hits
      BY <1>2, <2>3
  <2>4. CASE 4 \notin hits /\ 3 \notin hits /\ 2 \notin hits
    <3>1. \A j \in hits : j = 1
        BY <1>2, <2>4
    <3>2. 1 \in hits
        BY <1>2, <3>1
    <3> QED BY <3>1, <3>2
  <2> QED BY <2>1, <2>2, <2>3, <2>4
<1>4. (CHOOSE i \in hits : \A j \in hits : j <= i) \in hits
    BY <1>3
<1>5. VideoTargets[CHOOSE i \in hits : \A j \in hits : j <= i] \in listed
    BY <1>4 DEF hits
<1> QED BY <1>2, <1>5 DEF LastListed, hits

\* For every stream and every device in the cache, whatever the order in which the
\* endpoints are asked, their answers do not contradict each other.
THEOREM EndpointsAgreeAlways == PlaybackSpec => []EndpointsAgree
<1>1. EndpointsInv => EndpointsAgree
  <2> DEFINE d == playAnswers["decision"]
             v == playAnswers["validate"]
             a == playAnswers["recommendation"]
             q == playRequest
  <2> SUFFICES ASSUME EndpointsInv, NEW c \in cachedCaps, c.video # {}
               PROVE
          /\ d.decision \in {"direct_play", "transcode"} /\ v.decision = "checked" =>
               (d.decision = "direct_play"
                  <=> v.valid /\ (q.dv => c.dv) /\ BitrateOK(c, q))
          /\ d.decision = "transcode" /\ q.video \notin c.video =>
               /\ a.decision = "recommended" => d.video = a.video
               /\ (\E i \in 1..4 : VideoTargets[i] \in c.video) => d.video \in c.video
      BY DEF EndpointsAgree
  <2>1. TheCaps = c /\ cachedCaps # {}
      BY DEF TheCaps, EndpointsInv
  <2>2. ASSUME d.decision \in {"direct_play", "transcode"}
        PROVE  /\ d.decision = "direct_play" <=> PlaysDirectly(c, q)
               /\ d.decision = "transcode" /\ ~VideoOK(c, q) =>
                     d.video = LastListed(VideoTargets, c.video, "h264")
    <3>1. d = MakeDecision(c, q)
        BY <2>1, <2>2 DEF EndpointsInv, DecisionAnswer, NoAnswer, Refused
    <3> QED BY <3>1 DEF MakeDecision
  <2>3. ASSUME v.decision = "checked"
        PROVE  v.valid <=> /\ q.video \in c.video /\ AudioOK(c, q) /\ ResolutionOK(c, q)
                           /\ q.hdr => c.hdr
    <3>1. v = ValidateAnswer
        BY <2>3 DEF EndpointsInv, NoAnswer
    <3> QED BY <2>1, <3>1 DEF ValidateAnswer
  <2>4. ASSUME a.decision = "recommended"
        PROVE  a.video = LastListed(VideoTargets, c.video, "h264")
    <3>1. a = RecommendationAnswer
        BY <2>4 DEF EndpointsInv, NoAnswer
    <3> QED BY <2>1, <3>1 DEF RecommendationAnswer
  <2>5. VideoOK(c, q) <=> q.video \in c.video
      BY DEF VideoOK
  <2>6. PlaysDirectly(c, q) <=> /\ q.video \in c.video /\ AudioOK(c, q) /\ ResolutionOK(c, q)
                                /\ q.hdr => c.hdr
                                /\ q.dv => c.dv
                                /\ BitrateOK(c, q)
      BY <2>5 DEF PlaysDirectly, HdrOK
  <2> QED BY <2>2, <2>3, <2>4, <2>5, <2>6, LastListedListed
<1> QED BY <1>1, EndpointsInvariant, PTL

-----------------------------------------------------------------------------
(* The match of a device name *)

FindingSet ==
    [same : {"name", "model", "base", "no"}, maker : BOOLEAN, similar : Nat,
     variant : {"none", "same", "prefix", "other"}, year : {"none", "same", "other", "base"},
     close : Nat, verified : BOOLEAN]

\* A ranking holds the devices that score, all of them, by rank.
IsRanking(s, hits) ==
    /\ s \in [1..Cardinality(hits) -> hits]
    /\ \A f \in hits : \E i \in DOMAIN s : s[i] = f
    /\ \A i, j \in DOMAIN s : i < j => Rank(s[i]) >= Rank(s[j])

Hits(p) == {f \in p : MatchScore(f) > 0}

FuzzyInv ==
    /\ pool \subseteq FindingSet /\ IsFiniteSet(pool)
    /\ found = <<>> \/ IsRanking(found, Hits(pool))

\* The pool is finite, and what was found ranks its matches.
LEMMA FuzzyInvariant == FuzzySpec => []FuzzyInv
<1>1. FuzzyInit => FuzzyInv
    BY PoolsTyped DEF FuzzyInit, FuzzyInv, FindingSet
<1>2. FuzzyInv /\ [FuzzyNext]_fuzzyVars => FuzzyInv'
    BY DEF FuzzyInv, FuzzyNext, MatchDevice, fuzzyVars, IsRanking, Hits
<1> QED BY <1>1, <1>2, PTL DEF FuzzySpec

\* What a score can be.
LEMMA Scores ==
    ASSUME NEW f \in FindingSet
    PROVE  /\ MatchScore(f) \in 0..1000
           /\ f.same = "name" => MatchScore(f) = 1000
           /\ f.same # "no" => MatchScore(f) >= 900
<1>1. VersionPoints(f) \in Nat
  <2>1. f.similar \in Nat /\ f.close \in Nat
      BY DEF FindingSet
  <2> DEFINE v == IF f.variant = "same" THEN 250 ELSE IF f.variant = "prefix" THEN 150 ELSE 0
             y == IF f.year = "same" THEN 200 ELSE IF f.year = "other" THEN 100
                  ELSE IF f.year = "base" THEN 50 ELSE 0
             m == IF f.maker THEN 200 ELSE 0
             s == IF f.similar > 7 THEN f.similar * 30 ELSE 0
             c == f.close * 15
  <2>2. v \in Nat /\ y \in Nat /\ m \in Nat
      OBVIOUS
  <2>3. s \in Nat /\ c \in Nat
      BY <2>1
  <2>4. VersionPoints(f) = m + s + v + y + c
      BY DEF VersionPoints
  <2> HIDE DEF v, y, m, s, c
  <2> QED BY <2>2, <2>3, <2>4
<1>2. VersionMatch(f) \in 0..1000
    BY <1>1 DEF VersionMatch, Cap
<1>3. f.same \in {"name", "model", "base", "no"}
    BY DEF FindingSet
<1> QED BY <1>2, <1>3 DEF MatchScore

\* What a rank can be: the score, or with the bonus ten more.
LEMMA Ranks ==
    ASSUME NEW f \in FindingSet
    PROVE  /\ MatchScore(f) \in Int
           /\ MatchScore(f) >= 0
           /\ MatchScore(f) <= 1000
           /\ Rank(f) \in Int
           /\ Rank(f) >= MatchScore(f)
           /\ Rank(f) <= MatchScore(f) + 10
           /\ f.verified => Rank(f) = MatchScore(f) + 10
           /\ ~f.verified => Rank(f) = MatchScore(f)
<1>1. MatchScore(f) \in 0..1000
    BY Scores
<1>2. MatchScore(f) \in Int
    BY <1>1
<1>3. MatchScore(f) >= 0 /\ MatchScore(f) <= 1000
    BY <1>1
<1>4. CASE f.verified
  <2>1. Rank(f) = MatchScore(f) + 10
      BY <1>4 DEF Rank
  <2> QED BY <1>2, <1>3, <1>4, <2>1
<1>5. CASE ~f.verified
  <2>1. Rank(f) = MatchScore(f) + 0
      BY <1>5 DEF Rank
  <2>2. Rank(f) = MatchScore(f)
      BY <1>2, <2>1
  <2> QED BY <1>2, <1>3, <1>5, <2>2
<1> QED BY <1>4, <1>5

\* The first of a ranking is a device that scores and ranks no lower than any other.
LEMMA FirstRanksHighest ==
    ASSUME FuzzyInv, found # <<>>
    PROVE  /\ found[1] \in FindingSet
           /\ \A f \in Hits(pool) : Rank(found[1]) >= Rank(f)
<1> DEFINE hits == Hits(pool)
<1>1. IsRanking(found, hits) /\ hits \subseteq FindingSet /\ IsFiniteSet(hits)
    BY FS_Subset DEF FuzzyInv, Hits
<1>2. Cardinality(hits) \in Nat
    BY <1>1, FS_CardinalityType
<1>3. /\ found \in [1..Cardinality(hits) -> hits]
      /\ \A f \in hits : \E i \in DOMAIN found : found[i] = f
      /\ \A i, j \in DOMAIN found : i < j => Rank(found[i]) >= Rank(found[j])
    BY <1>1 DEF IsRanking
<1> HIDE DEF hits
<1>4. Cardinality(hits) # 0
  <2> SUFFICES ASSUME Cardinality(hits) = 0 PROVE FALSE
      OBVIOUS
  <2>1. found \in [1..0 -> hits]
      BY <1>3
  <2> QED BY <2>1
<1>5. 1 \in DOMAIN found /\ found[1] \in hits
    BY <1>2, <1>3, <1>4
<1>6. ASSUME NEW f \in FindingSet PROVE Rank(f) \in Int
    BY Ranks
<1>7. ASSUME NEW f \in hits PROVE Rank(found[1]) >= Rank(f)
  <2>1. PICK i \in DOMAIN found : found[i] = f
      BY <1>3
  <2>2. i \in 1..Cardinality(hits) /\ Rank(f) \in Int
      BY <1>1, <1>3, <1>6 DEF hits
  <2>3. CASE i = 1
    <3>1. Rank(found[1]) = Rank(f)
        BY <2>1, <2>3
    <3> QED BY <2>2, <3>1
  <2>4. CASE i # 1
      BY <1>2, <1>3, <1>5, <2>1, <2>2, <2>4
  <2> QED BY <2>3, <2>4
<1> QED BY <1>1, <1>5, <1>7 DEF hits

\* A device of the very name that was asked for is passed over only for one as good,
\* and the confidence is that of the score (MatchDevice, FindBestMatch,
\* VersionAwareMatch), for every pool of devices.
THEOREM ExactMatchFoundAlways == FuzzySpec => []ExactMatchFound
<1>1. FuzzyInv => ExactMatchFound
  <2> SUFFICES ASSUME FuzzyInv, found # <<>>
               PROVE  /\ \A f \in pool : f.same = "name" =>
                           found[1] = f \/ MatchScore(found[1]) = 1000
                             \/ (found[1].verified /\ ~f.verified /\ MatchScore(found[1]) >= 990)
                      /\ (\E f \in pool : f.same # "no") =>
                           FindBestMatch(found) = "high" /\ VersionAwareMatch(found) = "high"
                      /\ FindBestMatch(found) # VersionAwareMatch(found) =>
                           FindBestMatch(found) = "none" /\ VersionAwareMatch(found) = "low"
      BY DEF ExactMatchFound
  <2> DEFINE w == found[1]
  <2>1. w \in FindingSet /\ \A f \in Hits(pool) : Rank(w) >= Rank(f)
      BY FirstRanksHighest
  <2>2. /\ FindBestMatch(found) = Confidence(w, 500)
        /\ VersionAwareMatch(found) = Confidence(w, 400)
      BY DEF FindBestMatch, VersionAwareMatch
  <2> HIDE DEF w
  <2>3. ASSUME NEW f \in pool, f.same # "no"
        PROVE  /\ f \in FindingSet /\ MatchScore(f) \in Int /\ MatchScore(f) >= 900
               /\ Rank(w) >= Rank(f)
    <3>1. f \in FindingSet
        BY DEF FuzzyInv
    <3>2. MatchScore(f) \in Int
        BY <3>1, Ranks
    <3>3. MatchScore(f) >= 900
        BY <2>3, <3>1, Scores
    <3>4. f \in Hits(pool)
        BY <3>2, <3>3 DEF Hits
    <3> QED BY <2>1, <3>1, <3>2, <3>3, <3>4
  <2>4. MatchScore(w) \in Int /\ MatchScore(w) <= 1000 /\ Rank(w) \in Int
        /\ Rank(w) <= MatchScore(w) + 10
      BY <2>1, Ranks
  <2>5. ASSUME NEW f \in pool, f.same = "name"
        PROVE  MatchScore(w) = 1000
                 \/ (w.verified /\ ~f.verified /\ MatchScore(w) >= 990)
    <3>1. f \in FindingSet /\ Rank(w) >= Rank(f)
        BY <2>3, <2>5
    <3>2. MatchScore(f) = 1000
        BY <2>5, <3>1, Scores
    <3>3. Rank(f) \in Int /\ Rank(f) >= 1000
        BY <3>1, <3>2, Ranks
    <3>4. MatchScore(w) >= 990
        BY <2>4, <3>1, <3>3
    <3>5. CASE ~w.verified
      <4>1. Rank(w) = MatchScore(w)
          BY <2>1, <3>5, Ranks
      <4> QED BY <2>4, <3>1, <3>3, <4>1
    <3>6. CASE f.verified
      <4>1. Rank(f) = 1010
          BY <3>1, <3>2, <3>6, Ranks
      <4> QED BY <2>4, <3>1, <4>1
    <3> QED BY <3>4, <3>5, <3>6
  <2>6. ASSUME NEW f \in pool, f.same # "no" PROVE MatchScore(w) >= 800
    <3>1. f \in FindingSet /\ MatchScore(f) \in Int /\ MatchScore(f) >= 900 /\ Rank(w) >= Rank(f)
        BY <2>3, <2>6
    <3>2. Rank(f) >= MatchScore(f) /\ Rank(f) \in Int
        BY <3>1, Ranks
    <3> QED BY <2>4, <3>1, <3>2
  <2>7. (\E f \in pool : f.same # "no") =>
           FindBestMatch(found) = "high" /\ VersionAwareMatch(found) = "high"
      BY <2>2, <2>6 DEF Confidence
  <2>8. FindBestMatch(found) # VersionAwareMatch(found) =>
           FindBestMatch(found) = "none" /\ VersionAwareMatch(found) = "low"
      BY <2>2, <2>4 DEF Confidence
  <2> QED BY <2>5, <2>7, <2>8 DEF w
<1> QED BY <1>1, FuzzyInvariant, PTL

-----------------------------------------------------------------------------
(* The vendor rules *)

\* What the settling of the rules rests on: no rule grants DTS, what is denied is
\* denied in every year, and Dolby Vision is never granted and denied at once.
GrantsNoDTS(R) == \A i \in 1..Len(R) : "dts" \notin R[i].has
DeniesAnyYear(R) == \A i \in 1..Len(R) : R[i].no # {} => R[i].when.kind \in {"always", "model", "not"}
Exclusive(R) ==
    \A m, y : \A i, j \in 1..Len(R) :
      /\ MatchesRuleCondition(R[i].when, m, y) /\ MatchesRuleCondition(R[j].when, m, y)
      /\ "dv" \in R[i].has
      => "dv" \notin R[j].no

TableSound(R) == Len(R) \in Nat /\ GrantsNoDTS(R) /\ DeniesAnyYear(R) /\ Exclusive(R)

\* Every vendor's table is such a one.
LEMMA Table ==
    ASSUME NEW v
    PROVE  TableSound(Rules(v))
<1> USE DEF Rule, Always, Since, Model, NotModel, GrantsNoDTS, DeniesAnyYear, Exclusive, MatchesRuleCondition
<1>1. TableSound(SamsungRules)
  <2>1. Len(SamsungRules) \in Nat BY DEF SamsungRules
  <2>2. GrantsNoDTS(SamsungRules) BY DEF SamsungRules
  <2>3. DeniesAnyYear(SamsungRules) BY DEF SamsungRules
  <2>4. \A i \in 1..Len(SamsungRules) : "dv" \notin SamsungRules[i].has BY DEF SamsungRules
  <2> QED BY <2>1, <2>2, <2>3, <2>4 DEF TableSound
<1>2. TableSound(LgRules) BY DEF LgRules, TableSound
<1>3. TableSound(RokuRules)
  <2>1. Len(RokuRules) = 3 BY DEF RokuRules
  <2>2. "dts" \notin RokuRules[1].has /\ RokuRules[1].no = {} BY DEF RokuRules
  <2>3. "dts" \notin RokuRules[2].has /\ RokuRules[2].no = {} BY DEF RokuRules
  <2>4. "dts" \notin RokuRules[3].has /\ RokuRules[3].no = {} BY DEF RokuRules
  <2>5. \A i \in 1..Len(RokuRules) : "dts" \notin RokuRules[i].has /\ RokuRules[i].no = {}
      BY <2>1, <2>2, <2>3, <2>4
  <2> QED BY <2>1, <2>5 DEF TableSound
<1>4. TableSound(AmazonRules) BY DEF AmazonRules, TableSound
<1>5. TableSound(AppleRules) BY DEF AppleRules, TableSound
<1>6. TableSound(SonyRules) BY DEF SonyRules, TableSound
<1>7. TableSound(NvidiaRules) BY DEF NvidiaRules, TableSound
<1>8. TableSound(XiaomiRules)
  <2>1. Len(XiaomiRules) = 4 BY DEF XiaomiRules
  <2>2. "dts" \notin XiaomiRules[1].has /\ XiaomiRules[1].no = {} BY DEF XiaomiRules
  <2>3. "dts" \notin XiaomiRules[2].has /\ XiaomiRules[2].no = {} BY DEF XiaomiRules
  <2>4. "dts" \notin XiaomiRules[3].has /\ XiaomiRules[3].no = {} BY DEF XiaomiRules
  <2>5. "dts" \notin XiaomiRules[4].has /\ XiaomiRules[4].no = {} BY DEF XiaomiRules
  <2>6. \A i \in 1..Len(XiaomiRules) : "dts" \notin XiaomiRules[i].has /\ XiaomiRules[i].no = {}
      BY <2>1, <2>2, <2>3, <2>4, <2>5
  <2> QED BY <2>1, <2>6 DEF TableSound
<1>9. TableSound(PhilipsRules) BY DEF PhilipsRules, TableSound
<1>10. TableSound(HisenseRules) BY DEF HisenseRules, TableSound
<1>11. TableSound(<<>>) BY DEF TableSound
<1> QED BY <1>1, <1>2, <1>3, <1>4, <1>5, <1>6, <1>7, <1>8, <1>9, <1>10, <1>11 DEF Rules

Caps == [dts : BOOLEAN, dv : BOOLEAN, hdr : BOOLEAN, video : SUBSET Formats,
         audio : SUBSET Formats, subtitles : SUBSET Formats, containers : SUBSET Formats,
         width : Nat, height : Nat]

SameCaps(c, d) ==
    /\ c.dts = d.dts /\ c.dv = d.dv /\ c.hdr = d.hdr /\ c.video = d.video /\ c.audio = d.audio
    /\ c.subtitles = d.subtitles /\ c.containers = d.containers
    /\ c.width = d.width /\ c.height = d.height

\* Capabilities with the same fields are the same.
LEMMA CapsEqual == ASSUME NEW c \in Caps, NEW d \in Caps, SameCaps(c, d) PROVE c = d
BY DEF Caps, SameCaps

\* What rules leave of capabilities c that grant the features G and deny D, in any order.
LeftOf(a, c, G, D) ==
    /\ a.dts = (c.dts /\ "dts" \notin D)
    /\ a.dv = ((c.dv \/ "dv" \in G) /\ "dv" \notin D)
    /\ a.hdr = c.hdr /\ a.width = c.width /\ a.height = c.height
    /\ a.video = c.video \cup If("av1" \in G, {"av1"})
    /\ a.audio = (c.audio \ If("dts" \in D, {"dts", "dtshd"})) \cup If("truehd" \in G, {"truehd", "flac"})
    /\ a.subtitles = c.subtitles \cup If("ssa" \in G, {"ssa", "ass"}) \cup If("ttml" \in G, {"ttml"})
    /\ a.containers = c.containers \cup If("webm" \in G, {"webm"})

\* One rule, of those that do not grant DTS.
LEMMA AppliedLeaves ==
    ASSUME NEW c \in Caps, NEW r, "dts" \notin r.has
    PROVE  Applied(c, r) \in Caps /\ LeftOf(Applied(c, r), c, r.has, r.no)
<1> DEFINE a == Applied(c, r)
           v == c.video \cup If("av1" \in r.has, {"av1"})
           u == (c.audio \ If("dts" \in r.no, {"dts", "dtshd"})) \cup If("truehd" \in r.has, {"truehd", "flac"})
           s == c.subtitles \cup If("ssa" \in r.has, {"ssa", "ass"}) \cup If("ttml" \in r.has, {"ttml"})
           k == c.containers \cup If("webm" \in r.has, {"webm"})
           t == (c.dts /\ "dts" \notin r.no)
           d == ((c.dv \/ "dv" \in r.has) /\ "dv" \notin r.no)
<1>1. /\ c.dts \in BOOLEAN /\ c.dv \in BOOLEAN
      /\ c.video \subseteq Formats /\ c.audio \subseteq Formats
      /\ c.subtitles \subseteq Formats /\ c.containers \subseteq Formats
    BY DEF Caps
<1>2. v \in SUBSET Formats /\ u \in SUBSET Formats /\ s \in SUBSET Formats /\ k \in SUBSET Formats
    BY <1>1, ProductsTyped DEF If
<1>3. t \in BOOLEAN /\ d \in BOOLEAN
    OBVIOUS
<1>4. a = [c EXCEPT !.dts = t, !.dv = d, !.video = v, !.audio = u, !.subtitles = s, !.containers = k]
  <2>1. ((c.dts \/ FALSE) /\ ~("dts" \in r.no)) = t
      BY <1>1
  <2>2. ((c.audio \ DeniedAudio(r)) \cup If(FALSE, {"dts"})) \cup If("truehd" \in r.has, {"truehd", "flac"}) = u
      BY DEF If, DeniedAudio
  <2>3. ("dts" \in r.has /\ ~("dts" \in r.no)) = FALSE
      OBVIOUS
  <2> QED BY <2>1, <2>2, <2>3 DEF Applied
<1> HIDE DEF v, u, s, k, t, d
<1>5. LET e == [c EXCEPT !.dts = t, !.dv = d, !.video = v, !.audio = u, !.subtitles = s, !.containers = k]
      IN  /\ e \in Caps /\ e.dts = t /\ e.dv = d /\ e.hdr = c.hdr /\ e.width = c.width /\ e.height = c.height
          /\ e.video = v /\ e.audio = u /\ e.subtitles = s /\ e.containers = k
    BY <1>2, <1>3 DEF Caps
<1>6. /\ a \in Caps /\ a.dts = t /\ a.dv = d /\ a.hdr = c.hdr /\ a.width = c.width /\ a.height = c.height
      /\ a.video = v /\ a.audio = u /\ a.subtitles = s /\ a.containers = k
    BY <1>4, <1>5
<1> HIDE DEF a
<1>7. LeftOf(a, c, r.has, r.no)
    BY <1>6 DEF v, u, s, k, t, d, LeftOf
<1> QED BY <1>6, <1>7 DEF a

\* A rule after others, which denies nothing they granted and grants nothing they denied.
LEMMA LeftOfBoth ==
    ASSUME NEW a, NEW b, NEW c \in Caps, NEW G, NEW D, NEW H, NEW E,
           LeftOf(b, c, G, D), LeftOf(a, b, H, E),
           "dv" \in G \union H => "dv" \notin D \union E
    PROVE  LeftOf(a, c, G \union H, D \union E)
<1>0. c.dts \in BOOLEAN /\ c.dv \in BOOLEAN
    BY DEF Caps
<1>1. a.dts = (c.dts /\ "dts" \notin D \union E)
    BY <1>0 DEF LeftOf
<1>2. a.dv = ((c.dv \/ "dv" \in G \union H) /\ "dv" \notin D \union E)
    BY <1>0 DEF LeftOf
<1>3. /\ a.hdr = c.hdr /\ a.width = c.width /\ a.height = c.height
      /\ a.video = c.video \cup If("av1" \in G \union H, {"av1"})
      /\ a.containers = c.containers \cup If("webm" \in G \union H, {"webm"})
    BY DEF LeftOf, If
<1>4. a.subtitles = c.subtitles \cup If("ssa" \in G \union H, {"ssa", "ass"})
                      \cup If("ttml" \in G \union H, {"ttml"})
    BY DEF LeftOf, If
<1>5. a.audio = (c.audio \ If("dts" \in D \union E, {"dts", "dtshd"}))
                  \cup If("truehd" \in G \union H, {"truehd", "flac"})
    BY DEF LeftOf, If
<1> QED BY <1>1, <1>2, <1>3, <1>4, <1>5 DEF LeftOf

\* The same rules again change nothing.
LEMMA LeftOfSame ==
    ASSUME NEW a \in Caps, NEW b \in Caps, NEW c \in Caps, NEW G, NEW D,
           LeftOf(b, c, G, D), LeftOf(a, b, G, D),
           "dv" \in G => "dv" \notin D
    PROVE  a = b
<1>0. c.dts \in BOOLEAN /\ c.dv \in BOOLEAN
    BY DEF Caps
<1>1. a.dts = b.dts /\ a.dv = b.dv
    BY <1>0 DEF LeftOf
<1>2. a.hdr = b.hdr /\ a.width = b.width /\ a.height = b.height /\ a.video = b.video
      /\ a.containers = b.containers
    BY DEF LeftOf, If
<1>3. a.subtitles = b.subtitles
    BY DEF LeftOf, If
<1>4. a.audio = b.audio
    BY DEF LeftOf, If
<1> QED BY <1>1, <1>2, <1>3, <1>4, CapsEqual DEF SameCaps

\* The features that the matching ones of the first n rules grant and deny.
Matching(p, y, n) ==
    {j \in 1..n : MatchesRuleCondition(Rules(p.vendor)[j].when, p.markers, y)}
Granted(p, y, n) == UNION {Rules(p.vendor)[j].has : j \in Matching(p, y, n)}
Denied(p, y, n) == UNION {Rules(p.vendor)[j].no : j \in Matching(p, y, n)}
AllRules(p) == Len(Rules(p.vendor))

\* No feature is both granted and denied by rules that match.
LEMMA GrantsDenyNothing ==
    ASSUME NEW p, NEW y, "dv" \in Granted(p, y, AllRules(p))
    PROVE  "dv" \notin Denied(p, y, AllRules(p))
<1>1. Exclusive(Rules(p.vendor))
    BY Table DEF TableSound
<1> DEFINE R == Rules(p.vendor)
<1>2. PICK i \in Matching(p, y, AllRules(p)) : "dv" \in R[i].has
    BY DEF Granted
<1>3. ASSUME NEW j \in Matching(p, y, AllRules(p)) PROVE "dv" \notin R[j].no
  <2>1. /\ i \in 1..Len(R) /\ j \in 1..Len(R)
        /\ MatchesRuleCondition(R[i].when, p.markers, y)
        /\ MatchesRuleCondition(R[j].when, p.markers, y)
      BY <1>2, <1>3 DEF Matching, AllRules
  <2> HIDE DEF R
  <2> QED BY <1>1, <1>2, <2>1 DEF Exclusive, R
<1> QED BY <1>3 DEF Denied

\* The equation by which the loop over the rules is defined.
LEMMA RulesEquation ==
    ASSUME NEW p, p.caps \in Caps, NEW y
    PROVE  LET b == RulesUpTo(p, y)
               R == Rules(p.vendor)
           IN  /\ b[0] = p.caps
               /\ \A i \in 1..AllRules(p) :
                    b[i] = IF i \in Matching(p, y, AllRules(p)) THEN Applied(b[i - 1], R[i]) ELSE b[i - 1]
<1> DEFINE R == Rules(p.vendor)
           n == AllRules(p)
           hit(i) == MatchesRuleCondition(R[i].when, p.markers, y)
           step == [i \in 1..n |-> [c \in Caps |-> IF hit(i) THEN Applied(c, R[i]) ELSE c]]
           F(g) == [i \in 0..n |-> IF i = 0 THEN p.caps
                                   ELSE IF hit(i) THEN Applied(g[i - 1], R[i]) ELSE g[i - 1]]
           b == RulesUpTo(p, y)
<1>0. n \in Nat /\ \A i \in 1..n : "dts" \notin R[i].has
    BY Table DEF TableSound, GrantsNoDTS, AllRules
<1>1. RulesUpTo(p, y) = CHOOSE g : g = F(g)
    BY DEF RulesUpTo, AllRules
<1>2. \A i \in 1..n : i \in Matching(p, y, n) <=> hit(i)
    BY DEF Matching
<1> HIDE DEF R, n, hit
<1>3. step \in [1..n -> [Caps -> Caps]]
  <2>1. ASSUME NEW i \in 1..n, NEW c \in Caps
        PROVE  (IF hit(i) THEN Applied(c, R[i]) ELSE c) \in Caps
      BY <1>0, <2>1, AppliedLeaves
  <2> QED BY <2>1
<1>4. PICK f : Iterates(f, Caps, p.caps, step, n)
  <2> HIDE DEF step
  <2> QED BY <1>0, <1>3, LoopRuns
<1>5. f = F(f)
  <2>1. f \in [0..n -> Caps] /\ f[0] = p.caps /\ \A i \in 1..n : f[i] = step[i][f[i - 1]]
      BY <1>4 DEF Iterates
  <2>2. ASSUME NEW i \in 0..n PROVE f[i] = F(f)[i]
    <3>1. CASE i = 0
        BY <2>1, <3>1
    <3>2. CASE i # 0
      <4>1. i \in 1..n /\ i - 1 \in 0..n
          BY <1>0, <3>2
      <4>2. f[i - 1] \in Caps
          BY <2>1, <4>1
      <4> QED BY <2>1, <3>2, <4>1, <4>2
    <3> QED BY <3>1, <3>2
  <2>3. f = [i \in 0..n |-> f[i]]
      BY <2>1
  <2> QED BY <2>2, <2>3
<1>6. b = F(b)
    BY <1>1, <1>5, Zenon
<1> HIDE DEF b
<1>7. b[0] = p.caps
    BY <1>0, <1>6
<1>8. ASSUME NEW i \in 1..n
      PROVE  b[i] = IF hit(i) THEN Applied(b[i - 1], R[i]) ELSE b[i - 1]
  <2>1. i \in 0..n /\ i # 0
      BY <1>0
  <2> QED BY <1>6, <2>1
<1> QED BY <1>2, <1>7, <1>8 DEF b, R, n

\* What the rules of a device leave of its capabilities.
LEMMA RulesLeave ==
    ASSUME NEW p, p.caps \in Caps, NEW y
    PROVE  LET a == ApplyRules(p, y)
           IN  a \in Caps /\ LeftOf(a, p.caps, Granted(p, y, AllRules(p)), Denied(p, y, AllRules(p)))
<1> DEFINE R == Rules(p.vendor)
           n == AllRules(p)
           b == RulesUpTo(p, y)
           G(i) == Granted(p, y, i)
           D(i) == Denied(p, y, i)
           N == {m \in Int : b[m] \in Caps /\ LeftOf(b[m], p.caps, G(m), D(m))}
<1>0. n \in Nat /\ \A i \in 1..n : "dts" \notin R[i].has
    BY Table DEF TableSound, GrantsNoDTS, AllRules
<1>1. /\ b[0] = p.caps
      /\ \A i \in 1..n : b[i] = IF i \in Matching(p, y, n) THEN Applied(b[i - 1], R[i]) ELSE b[i - 1]
    BY RulesEquation
<1>2. G(0) = {} /\ D(0) = {}
    BY DEF Granted, Denied, Matching
<1>3. ASSUME NEW i \in 1..n, i \in Matching(p, y, n)
      PROVE  G(i) = G(i - 1) \union R[i].has /\ D(i) = D(i - 1) \union R[i].no
  <2>1. Matching(p, y, i) = Matching(p, y, i - 1) \union {i}
      BY <1>0, <1>3 DEF Matching
  <2> QED BY <2>1 DEF Granted, Denied
<1>4. ASSUME NEW i \in 1..n, i \notin Matching(p, y, n)
      PROVE  G(i) = G(i - 1) /\ D(i) = D(i - 1)
  <2>1. Matching(p, y, i) = Matching(p, y, i - 1)
      BY <1>0, <1>4 DEF Matching
  <2> QED BY <2>1 DEF Granted, Denied
<1>5. ASSUME NEW i \in 1..n PROVE G(i) \subseteq G(n) /\ D(i) \subseteq D(n)
  <2>1. Matching(p, y, i) \subseteq Matching(p, y, n)
      BY <1>0, <1>5 DEF Matching
  <2> QED BY <2>1 DEF Granted, Denied
<1>6. "dv" \in G(n) => "dv" \notin D(n)
    BY GrantsDenyNothing
<1> HIDE DEF b, G, D, R, n
<1>7. 0 \in N
  <2>1. p.caps.dts \in BOOLEAN /\ p.caps.dv \in BOOLEAN
      BY DEF Caps
  <2>2. LeftOf(p.caps, p.caps, {}, {})
      BY <2>1 DEF LeftOf, If
  <2> QED BY <1>1, <1>2, <2>2
<1>8. ASSUME NEW i \in 1..n, i - 1 \in N PROVE i \in N
  <2>1. b[i - 1] \in Caps /\ LeftOf(b[i - 1], p.caps, G(i - 1), D(i - 1))
      BY <1>8
  <2>2. CASE i \in Matching(p, y, n)
    <3>1. b[i] \in Caps /\ LeftOf(b[i], b[i - 1], R[i].has, R[i].no)
        BY <1>0, <1>1, <2>1, <2>2, AppliedLeaves
    <3>2. "dv" \in G(i - 1) \union R[i].has => "dv" \notin D(i - 1) \union R[i].no
        BY <1>3, <1>5, <1>6, <2>2
    <3>3. LeftOf(b[i], p.caps, G(i - 1) \union R[i].has, D(i - 1) \union R[i].no)
        BY <2>1, <3>1, <3>2, LeftOfBoth
    <3>4. G(i) = G(i - 1) \union R[i].has /\ D(i) = D(i - 1) \union R[i].no
        BY <1>3, <2>2
    <3>5. LeftOf(b[i], p.caps, G(i), D(i))
        BY <3>3, <3>4, Zenon
    <3> QED BY <1>0, <3>1, <3>5
  <2>3. CASE i \notin Matching(p, y, n)
    <3>1. b[i] = b[i - 1] /\ G(i) = G(i - 1) /\ D(i) = D(i - 1)
        BY <1>1, <1>4, <2>3
    <3>2. b[i] \in Caps /\ LeftOf(b[i], p.caps, G(i), D(i))
        BY <2>1, <3>1, Zenon
    <3> QED BY <1>0, <3>2
  <2> QED BY <2>2, <2>3
<1> HIDE DEF N
<1>9. 0..n \subseteq N
    BY <1>0, <1>7, <1>8, InductUpTo
<1>10. n \in N
    BY <1>0, <1>9
<1>11. ApplyRules(p, y) = b[n]
    BY DEF ApplyRules, b, n, AllRules
<1> QED BY <1>10, <1>11 DEF N, G, D, n

\* The same rules a second time change nothing.
LEMMA RulesAgain ==
    ASSUME NEW p, p.caps \in Caps, NEW y, NEW q,
           q.vendor = p.vendor, q.markers = p.markers, q.caps = ApplyRules(p, y)
    PROVE  ApplyRules(q, y) = q.caps
<1> DEFINE G == Granted(p, y, AllRules(p))
           D == Denied(p, y, AllRules(p))
<1>1. q.caps \in Caps /\ LeftOf(q.caps, p.caps, G, D)
    BY RulesLeave
<1>2. G = Granted(q, y, AllRules(q)) /\ D = Denied(q, y, AllRules(q))
    BY DEF Granted, Denied, Matching, AllRules
<1>3. "dv" \in G => "dv" \notin D
    BY GrantsDenyNothing
<1> HIDE DEF G, D
<1>4. ApplyRules(q, y) \in Caps /\ LeftOf(ApplyRules(q, y), q.caps, G, D)
    BY <1>1, <1>2, RulesLeave
<1> QED BY <1>1, <1>3, <1>4, LeftOfSame

\* The years are finitely many.
LEMMA YearsFinite == ASSUME NEW p PROVE IsFiniteSet(Years(p))
<1> DEFINE s == {SamsungYear(m) : m \in p.markers} \ {0}
           l == {LgYear(m) : m \in p.markers} \ {0}
           o == {SonyYear(m) : m \in p.markers} \ {0}
           all == {0, 2019, 2020, 2021, 2022, 2023}
<1>1. s \subseteq all
    BY DEF SamsungYear
<1>2. l \subseteq all
    BY DEF LgYear
<1>3. o \subseteq all
    BY DEF SonyYear
<1>4. InferredYears(p.markers) \in {s, l, o, {0}}
    BY DEF InferredYears
<1>5. {0} \subseteq all /\ all \in SUBSET Nat /\ \E n \in Nat : \A x \in all : x <= n
    OBVIOUS
<1> HIDE DEF s, l, o, all
<1>6. InferredYears(p.markers) \in SUBSET all
    BY <1>1, <1>2, <1>3, <1>4, <1>5
<1>7. IsFiniteSet(all)
  <2>1. PICK n \in Nat : \A x \in all : x <= n
      BY <1>5
  <2> QED BY <1>5, <2>1, FS_BoundedSetOfNaturals
<1>8. IsFiniteSet(InferredYears(p.markers))
    BY <1>6, <1>7, FS_Subset
<1>9. IsFiniteSet({p.year})
    BY FS_Singleton
<1> QED BY <1>8, <1>9 DEF Years

ProductRecords ==
    [vendor : STRING, year : Nat, markers : SUBSET STRING, profile : STRING, caps : Caps]

\* A device to which the rules have been applied is as some year's rules leave it.
VendorInv ==
    /\ product \in ProductRecords /\ rounds \in Nat
    /\ rounds # 0 => \E y \in Years(product) : ApplyRules(product, y) = product.caps

\* What a round does.
LEMMA RoundDone ==
    ASSUME VendorInv, ApplyVendorRules
    PROVE  \E y \in Years(product) :
             /\ product' \in ProductRecords /\ product'.caps = ApplyRules(product, y)
             /\ product'.vendor = product.vendor /\ product'.markers = product.markers
             /\ product'.year = product.year /\ product'.profile = product.profile
<1>1. PICK y \in Years(product) : product' = [product EXCEPT !.caps = ApplyRules(product, y)]
    BY DEF ApplyVendorRules
<1>2. product \in ProductRecords
    BY DEF VendorInv
<1>3. product.caps \in Caps
    BY <1>2 DEF ProductRecords
<1>4. ApplyRules(product, y) \in Caps
    BY <1>3, RulesLeave
<1> QED BY <1>1, <1>2, <1>4 DEF ProductRecords

\* The rules leave a device as they would leave it again.
LEMMA VendorInvariant == VendorSpec => []VendorInv
<1>1. VendorInit => VendorInv
    BY ProductsTyped DEF VendorInit, VendorInv, ProductRecords, Caps
<1>2. ASSUME VendorInv, [VendorNext]_vendorVars PROVE VendorInv'
  <2>1. CASE UNCHANGED vendorVars
      BY <1>2, <2>1 DEF VendorInv, vendorVars
  <2>2. CASE ApplyVendorRules
    <3>1. PICK y \in Years(product) :
             /\ product' \in ProductRecords /\ product'.caps = ApplyRules(product, y)
             /\ product'.vendor = product.vendor /\ product'.markers = product.markers
             /\ product'.year = product.year /\ product'.profile = product.profile
        BY <1>2, <2>2, RoundDone
    <3>2. product.caps \in Caps
        BY <1>2 DEF VendorInv, ProductRecords
    <3>3. ApplyRules(product', y) = product'.caps
        BY <3>1, <3>2, RulesAgain
    <3>4. Years(product') = Years(product)
        BY <3>1 DEF Years
    <3>5. rounds' \in Nat
        BY <1>2, <2>2 DEF VendorInv, ApplyVendorRules
    <3>6. \E z \in Years(product)' : ApplyRules(product, z)' = product'.caps
        BY <3>1, <3>3, <3>4
    <3> QED BY <3>1, <3>5, <3>6 DEF VendorInv
  <2> QED BY <1>2, <2>1, <2>2 DEF VendorNext
<1> QED BY <1>1, <1>2, PTL DEF VendorSpec

\* No denied feature survives a round of the vendor rules, and a second round changes
\* nothing, for every device.
THEOREM RulesSettleAlways == VendorSpec => RulesSettle
<1> DEFINE denied == UNION {Rules(product.vendor)[i].no : i \in {j \in 1..Len(Rules(product.vendor)) :
                       MatchesRuleCondition(Rules(product.vendor)[j].when, product.markers, product.year)}}
           Settles == /\ "dts" \in denied => ~product'.caps.dts /\ {"dts", "dtshd"} \cap product'.caps.audio = {}
                      /\ "dv" \in denied => ~product'.caps.dv
                      /\ denied \subseteq KnownLimitations(product.vendor)
                      /\ rounds = 1 /\ Cardinality(Years(product)) = 1
                           => /\ product'.caps = product.caps
                              /\ RecommendedProfile(product') = RecommendedProfile(product)
<1>1. ASSUME VendorInv, ApplyVendorRules PROVE Settles
  <2>1. PICK y \in Years(product) :
           /\ product' \in ProductRecords /\ product'.caps = ApplyRules(product, y)
           /\ product'.vendor = product.vendor /\ product'.markers = product.markers
           /\ product'.year = product.year /\ product'.profile = product.profile
      BY <1>1, RoundDone
  <2> DEFINE n == AllRules(product)
             c == product'.caps
  <2>2. denied \subseteq Denied(product, y, n)
    <3>1. DeniesAnyYear(Rules(product.vendor))
        BY Table DEF TableSound
    <3>2. ASSUME NEW j \in 1..n, NEW x \in Rules(product.vendor)[j].no,
                 MatchesRuleCondition(Rules(product.vendor)[j].when, product.markers, product.year)
          PROVE  j \in Matching(product, y, n)
      <4>1. Rules(product.vendor)[j].when.kind \in {"always", "model", "not"}
          BY <3>1, <3>2 DEF DeniesAnyYear, AllRules
      <4> QED BY <3>2, <4>1 DEF Matching, MatchesRuleCondition
    <3> QED BY <3>2 DEF Denied, AllRules
  <2>3. c \in Caps /\ LeftOf(c, product.caps, Granted(product, y, n), Denied(product, y, n))
    <3>1. product.caps \in Caps
        BY <1>1 DEF VendorInv, ProductRecords
    <3> QED BY <2>1, <3>1, RulesLeave
  <2>4. "dts" \in denied => ~c.dts /\ {"dts", "dtshd"} \cap c.audio = {}
      BY <2>2, <2>3 DEF LeftOf, If
  <2>5. "dv" \in denied => ~c.dv
      BY <2>2, <2>3 DEF LeftOf
  <2>6. denied \subseteq KnownLimitations(product.vendor)
      BY DEF KnownLimitations
  <2>7. ASSUME rounds = 1, Cardinality(Years(product)) = 1
        PROVE  c = product.caps /\ RecommendedProfile(product') = RecommendedProfile(product)
    <3>1. PICK z \in Years(product) : ApplyRules(product, z) = product.caps
        BY <1>1, <2>7 DEF VendorInv
    <3>2. \E x : Years(product) = {x}
        BY <2>7, YearsFinite, FS_Singleton
    <3>3. c = product.caps
        BY <2>1, <3>1, <3>2
    <3> QED BY <2>1, <3>3 DEF RecommendedProfile
  <2> HIDE DEF denied
  <2> QED BY <2>4, <2>5, <2>6, <2>7
<1>2. VendorInv /\ [VendorNext]_vendorVars => [Settles]_vendorVars
    BY <1>1 DEF VendorNext
<1> QED BY <1>2, VendorInvariant, PTL DEF VendorSpec, RulesSettle

=============================================================================
