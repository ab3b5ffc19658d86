------------------------ MODULE MCTranscodeDecision ------------------------
(***************************************************************************)
(* The requests that TLC enumerates: one family varies everything the      *)
(* video half depends on, the other everything the audio half depends on.  *)
(***************************************************************************)
EXTENDS TranscodeDecision

Encoder(c, hdr, tenBit) == [codec |-> c, hdr |-> hdr, tenBit |-> tenBit]

\* The server encodes H.264 or not, and HEVC with none, an 8-bit, a 10-bit or an
\* HDR encoder.
VideoServers ==
    {h264 \union hevc :
        h264 \in {{}, {Encoder("h264", FALSE, FALSE)}},
        hevc \in {{}, {Encoder("hevc", FALSE, FALSE)}, {Encoder("hevc", FALSE, TRUE)},
                  {Encoder("hevc", TRUE, TRUE), Encoder("hevc", FALSE, TRUE)}}}

VideoCases ==
    [item : [video : {"hevc", "vp8", "h264"}, audio : {"aac"}, channels : {2}, container : {"mkv"},
             hdr : BOOLEAN, dv : {"no", "5", "8"}, fits : BOOLEAN, atmos : {FALSE},
             subtitle : {"text", "styled"}],
     caps : [trusted : BOOLEAN, video : {{"h264"}, {"hevc"}, {"hevc", "h264"}}, audio : {{"aac"}},
             containers : {{"mp4"}}, hdr : BOOLEAN, dv : BOOLEAN, dts : {FALSE}, atmos : {FALSE},
             graphicalSubtitles : {FALSE}],
     encoders : VideoServers,
     policy : [hdr : {"best_for_device", "always_tonemap", "never_tonemap"},
               burnInStyledText : {TRUE}]]

\* Every server encodes H.264, and none, either or both of E-AC-3 and AAC.
AudioServers ==
    {{Encoder(c, FALSE, FALSE) : c \in {"h264"} \union s} : s \in SUBSET {"eac3", "aac"}}

AudioCases ==
    [item : [video : {"h264"},
             audio : {"truehd", "dts", "eac3", "ac3", "opus", "aac", "mp3", "vorbis"},
             channels : {0, 2, 6, 8}, container : {"mkv"}, hdr : {FALSE}, dv : {"no"},
             fits : {TRUE}, atmos : BOOLEAN, subtitle : {"none", "graphical"}],
     caps : [trusted : {TRUE}, video : {{"h264"}}, audio : SUBSET {"dts", "eac3", "ac3", "aac"},
             containers : {{"mp4"}, {"mkv", "mov"}, {"webm"}}, hdr : {FALSE}, dv : {FALSE},
             dts : BOOLEAN, atmos : {FALSE}, graphicalSubtitles : {FALSE}],
     encoders : AudioServers,
     policy : [hdr : {"best_for_device"}, burnInStyledText : {FALSE}]]

MCRequests == <<VideoCases, AudioCases>>
=============================================================================
