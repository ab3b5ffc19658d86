-------------------------- MODULE EncoderInventory --------------------------
(***************************************************************************)
(* internal/server: the discovery of ffmpeg's encoders and the host's      *)
(* accelerators (inventory.go), the benchmark that revises the estimates   *)
(* (benchmark.go) and the choice of an encoder for a codec (encoder.go).   *)
(*                                                                         *)
(* A host is what its commands would answer: goos, ffmpeg (in the PATH),   *)
(* lists (the encoders ffmpeg names), starts (the accelerators ffmpeg can  *)
(* initialise), smi, dri, video10 (the devices found), p010 (hevc_nvenc    *)
(* takes 10-bit input).                                                    *)
(***************************************************************************)
EXTENDS Integers, FiniteSets

CONSTANTS
    Hosts,
    WantedCodecs,      \* the codecs an encoder is asked for
    MaxDiscoveries     \* bound on the discoveries

VARIABLES
    host,              \* the host of the last discovery
    caps,              \* ServerCapabilities.EncoderDetails, a set
    pending,           \* encoders of caps whose benchmark is still to come
    picked,            \* the last selection
    discoveries

inventoryVars == <<host, caps, pending, picked, discoveries>>

-----------------------------------------------------------------------------
(* Discovery *)

Enc(name, codec, hw, rank, hd, uhd, ten, hdr, fromAccel) ==
    [name |-> name, codec |-> codec, hw |-> hw, rank |-> rank, at1080 |-> hd, at4K |-> uhd,
     ten |-> ten, hdr |-> hdr, fromAccel |-> fromAccel]
Soft(name, codec, rank, hd, ten, hdr) ==
    Enc(name, codec, "none", rank, hd, FALSE, ten, hdr, FALSE)
\* An encoder that no case of populateEncoderCapability describes.
Plain(name, codec) == Soft(name, codec, 0, FALSE, FALSE, FALSE)
Hard(name, codec, hw, rank, uhd, fromAccel) ==
    Enc(name, codec, hw, rank, TRUE, uhd, FALSE, FALSE, fromAccel)

\* encoderInfo with populateEncoderCapability: what is known of each encoder; one
\* with fromAccel takes 10-bit and HDR from its accelerator.
SoftEncoders ==
    {Soft("libx264", "h264", 30, TRUE, FALSE, FALSE),
     Soft("libx265", "hevc", 10, TRUE, TRUE, TRUE),
     Soft("libsvtav1", "av1", 5, FALSE, TRUE, TRUE),
     Soft("libvpx-vp9", "vp9", 8, FALSE, TRUE, FALSE)}

PlainEncoders ==
    {Plain("libvpx", "vp8"), Plain("aac", "aac"), Plain("libfdk_aac", "aac"),
     Plain("eac3", "eac3"), Plain("ac3", "ac3"), Plain("libopus", "opus"), Plain("flac", "flac"),
     Plain("libmp3lame", "mp3"), Plain("truehd", "truehd"), Plain("dca", "dts"),
     Plain("libvorbis", "vorbis"), Plain("alac", "alac")}

HardEncoders ==
    {Hard("h264_nvenc", "h264", "nvenc", 90, TRUE, FALSE),
     Hard("hevc_nvenc", "hevc", "nvenc", 85, TRUE, TRUE),
     Hard("av1_nvenc", "av1", "nvenc", 80, TRUE, TRUE),
     Hard("h264_qsv", "h264", "qsv", 80, TRUE, FALSE),
     Hard("hevc_qsv", "hevc", "qsv", 75, TRUE, TRUE),
     Hard("vp9_qsv", "vp9", "qsv", 65, FALSE, TRUE),
     Hard("av1_qsv", "av1", "qsv", 60, FALSE, TRUE),
     Hard("h264_vaapi", "h264", "vaapi", 75, TRUE, FALSE),
     Hard("hevc_vaapi", "hevc", "vaapi", 70, TRUE, TRUE),
     Hard("vp9_vaapi", "vp9", "vaapi", 60, FALSE, FALSE),
     Hard("av1_vaapi", "av1", "vaapi", 55, FALSE, TRUE),
     Hard("h264_videotoolbox", "h264", "videotoolbox", 85, TRUE, FALSE),
     Hard("hevc_videotoolbox", "hevc", "videotoolbox", 80, TRUE, TRUE),
     Hard("h264_amf", "h264", "amf", 75, TRUE, FALSE),
     Hard("hevc_amf", "hevc", "amf", 70, TRUE, TRUE),
     Hard("av1_amf", "av1", "amf", 60, FALSE, TRUE)}

EncoderInfo == SoftEncoders \cup PlainEncoders \cup HardEncoders

\* detectNVENCCodecs and its like: the listed encoders of an accelerator.
Detected(hw, listed) == {i \in EncoderInfo : i.name \in listed /\ i.hw = hw}

\* An accelerator and whether it handles 10-bit, which HDR follows.
Accel(hw, ten) == [type |-> hw, ten |-> ten]

ProbeNVENC(h) == IF h.smi /\ "nvenc" \in h.starts THEN {Accel("nvenc", h.p010)} ELSE {}
\* Found even when ffmpeg lists none of its encoders.
ProbeVAAPI(h) == IF h.dri /\ "vaapi" \in h.starts THEN {Accel("vaapi", TRUE)} ELSE {}
\* probeQSV, probeVideoToolbox, probeAMF: only with an encoder to go with it.
ProbeListed(h, hw, listed) ==
    IF hw \in h.starts /\ Detected(hw, listed) # {} THEN {Accel(hw, TRUE)} ELSE {}
\* The V4L2 accelerator is reported, and no encoder refers to it.
ProbeV4L2(h) == IF h.video10 THEN {Accel("v4l2", FALSE)} ELSE {}

ProbeHardwareAcceleration(h, listed) ==
    CASE h.goos = "linux" ->
           ProbeNVENC(h) \cup ProbeVAAPI(h) \cup ProbeListed(h, "qsv", listed) \cup ProbeV4L2(h)
      [] h.goos = "darwin" -> ProbeListed(h, "videotoolbox", listed)
      [] h.goos = "windows" ->
           ProbeNVENC(h) \cup ProbeListed(h, "qsv", listed) \cup ProbeListed(h, "amf", listed)
      [] OTHER -> {}

\* The listed encoders that are known and, for hardware, whose accelerator was found.
BuildEncoderDetails(listed, accels) ==
    LET found(hw) == hw = "none" \/ \E a \in accels : a.type = hw
        ten(i) == IF i.fromAccel THEN \E a \in accels : a.type = i.hw /\ a.ten ELSE i.ten
    IN  {[name |-> i.name, codec |-> i.codec, isHW |-> i.hw # "none", rank |-> i.rank,
          at1080 |-> i.at1080, at4K |-> i.at4K, ten |-> ten(i),
          hdr |-> IF i.fromAccel THEN ten(i) ELSE i.hdr] :
            i \in {j \in EncoderInfo : j.name \in listed /\ found(j.hw)}}

\* Discover: without ffmpeg an error and the capabilities stay; when the encoders
\* cannot be listed there are none.  A benchmark under way keeps to the old object.
Discover(h) ==
    /\ discoveries < MaxDiscoveries
    /\ discoveries' = discoveries + 1
    /\ UNCHANGED picked
    /\ IF ~h.ffmpeg THEN UNCHANGED <<host, caps, pending>>
       ELSE \E listed \in {h.lists, {}} :
              /\ caps' = BuildEncoderDetails(listed, ProbeHardwareAcceleration(h, listed))
              /\ host' = h
              /\ pending' = {}

-----------------------------------------------------------------------------
(* Benchmark *)

BenchmarkAll ==
    /\ caps # {} /\ pending = {}
    /\ pending' = {e.name : e \in caps}
    /\ UNCHANGED <<host, caps, picked, discoveries>>

\* BenchmarkEncoder ends with a speed, in tenths of real time, and the estimates follow ...
Benchmarked(e, speed) ==
    /\ e.name \in pending
    /\ caps' = (caps \ {e}) \cup {[e EXCEPT !.at1080 = speed >= 10, !.at4K = speed >= 40]}
    /\ pending' = pending \ {e.name}
    /\ UNCHANGED <<host, picked, discoveries>>

\* ... or fails, and they stay.
BenchmarkFails(e) ==
    /\ e.name \in pending
    /\ pending' = pending \ {e.name}
    /\ UNCHANGED <<host, caps, picked, discoveries>>

-----------------------------------------------------------------------------
(* Selection *)

GetEncoders(codec) == {e \in caps : e.codec = codec}

EncoderScore(e) ==
    e.rank + (IF e.isHW THEN 100 ELSE 0) + (IF e.hdr THEN 20 ELSE 0)
           + (IF e.ten THEN 10 ELSE 0) + (IF e.at4K THEN 15 ELSE 0) + (IF e.at1080 THEN 5 ELSE 0)

Fits(e, needsHDR, needs10) == (needsHDR => e.hdr) /\ (needs10 => e.ten)

\* Faulty variant: when no encoder passes HDR through, 10-bit is given up as well.
FilteredAtOnce(codec, needsHDR, needs10) ==
    LET all == {e \in GetEncoders(codec) : Fits(e, needsHDR, needs10)}
    IN  IF all # {} THEN all ELSE GetEncoders(codec)

\* The candidates that meet the requirements, else all but HDR, else any.
Filtered(codec, needsHDR, needs10) ==
    LET candidates == GetEncoders(codec)
        both == {e \in candidates : Fits(e, needsHDR, needs10)}
        deep == {e \in candidates : Fits(e, FALSE, needs10)}
    IN  IF both # {} THEN both ELSE IF deep # {} THEN deep ELSE candidates

\* The sort is not stable: any encoder of the highest score.
SelectEncoder(codec, needsHDR, needs10) ==
    /\ \E e \in Filtered(codec, needsHDR, needs10) :
         /\ \A f \in Filtered(codec, needsHDR, needs10) : EncoderScore(f) <= EncoderScore(e)
         /\ picked' = [for |-> [codec |-> codec, hdr |-> needsHDR, ten |-> needs10], enc |-> e]
    /\ UNCHANGED <<host, caps, pending, discoveries>>

NoPick == [for |-> "nothing"]

InventoryInit ==
    /\ host \in Hosts /\ caps = {} /\ pending = {} /\ picked = NoPick /\ discoveries = 0

InventoryNext ==
    \/ \E h \in Hosts : Discover(h)
    \/ BenchmarkAll
    \/ \E e \in caps : (\E s \in {5, 10, 40} : Benchmarked(e, s)) \/ BenchmarkFails(e)
    \/ \E c \in WantedCodecs, hdr, ten \in BOOLEAN : SelectEncoder(c, hdr, ten)

InventorySpec == InventoryInit /\ [][InventoryNext]_inventoryVars

-----------------------------------------------------------------------------
(* Properties *)

\* Whatever the benchmark says of the encoders, a selection made from the current
\* capabilities is one ffmpeg lists and, for hardware, whose accelerator the host can
\* start; it gives up 10-bit only when no encoder of the codec has it, HDR only when
\* none has what is asked for, and hardware only when none of those left is hardware.
SelectionSound ==
    [][picked' # picked =>
        LET e == picked'.enc
            want == picked'.for
            rivals == GetEncoders(want.codec)
        IN  /\ e.name \in host.lists
            /\ e.isHW => \E i \in EncoderInfo : i.name = e.name /\ i.hw \in host.starts
            /\ want.ten /\ ~e.ten => \A f \in rivals : ~f.ten
            /\ want.hdr /\ ~e.hdr => \A f \in rivals : ~Fits(f, TRUE, want.ten)
            /\ ~e.isHW => \A f \in rivals : f.isHW =>
                 \/ want.ten /\ e.ten /\ ~f.ten
                 \/ want.hdr /\ e.hdr /\ ~f.hdr]_inventoryVars
=============================================================================
