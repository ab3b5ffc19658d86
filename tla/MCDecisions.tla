----------------------------- MODULE MCDecisions -----------------------------
(***************************************************************************)
(* The decision algorithms, each over all the inputs of a bounded family:  *)
(* the orchestrator's decision, the playback endpoints, the vendor rules   *)
(* and the match of a device name.  A behaviour follows one of them        *)
(* (focus); the others stay at one of their inputs.                        *)
(***************************************************************************)
EXTENDS MCTranscodeDecision, PlaybackAPI, VendorRules, FuzzyMatch

VARIABLE focus

-----------------------------------------------------------------------------
(* Playback requests, the refused ones included, and the devices they meet *)

MCPlaybackRequests ==
    [video : {"h264", "hevc", "mpeg2"}, audio : {"", "aac", "dts"},
     resolution : {{}, {<<3840, 2160>>}}, bitrate : {0, 30000000, 200000000},
     hdr : BOOLEAN, dv : BOOLEAN]

MCPlaybackCaps ==
    [video : {{}, {"hevc", "av1"}, {"h264", "vp9"}}, audio : {{}, {"aac"}, {"ac3", "dts"}},
     width : {0, 1920}, height : {1080}, hdr : BOOLEAN, dv : {FALSE}, bitrate : {0, 20000000}]

(* Curated devices of every vendor with rules, with and without a year, by the markers *)
(* that rules and year tables look for                                                 *)

MCFormats == {"h264", "av1", "aac", "dts", "dtshd", "truehd", "flac", "srt", "ssa", "ass", "ttml",
              "mp4", "webm"}
FullCaps == [dts |-> TRUE, dv |-> TRUE, hdr |-> TRUE, video |-> {"h264"},
             audio |-> {"aac", "dts", "dtshd"}, subtitles |-> {"srt"}, containers |-> {"mp4"},
             width |-> 3840, height |-> 2160]
PlainCaps == [FullCaps EXCEPT !.dts = FALSE, !.dv = FALSE, !.hdr = FALSE, !.audio = {"aac"}]

MCProducts ==
    [vendor : {"samsung", "lg", "roku", "amazon", "apple", "sony", "nvidia", "xiaomi", "philips",
               "hisense", "other"},
     year : {0, 2020, 2023},
     markers : {{}, {"qn90"}, {"q80"}, {"qn90", "q90"}, {"c1", "c2"}, {"a80k"}, {"saphi"},
                {"mi box s"}, {"android"}},
     caps : {FullCaps, PlainCaps}, profile : {""}]

(* Pairs of devices a name is matched against, with and without one of that very name *)

Findings ==
    [same : {"name", "model", "base", "no"}, maker : {TRUE}, similar : {5, 10},
     variant : {"same"}, year : {"none", "same"}, close : {0, 5}, verified : BOOLEAN]
Namesake == [same |-> "name", maker |-> TRUE, similar |-> 10, variant |-> "none",
             year |-> "none", close |-> 0, verified |-> FALSE]

MCPools == {{f, g} \cup n : f, g \in Findings, n \in {{}, {Namesake}}}

-----------------------------------------------------------------------------

\* The inputs of the components that are not followed.
SomeRequest == CHOOSE x \in Requests[1] : TRUE
SomePlaybackRequest == CHOOSE x \in PlaybackRequests : TRUE
SomeProduct == CHOOSE x \in Products : TRUE
SomePool == CHOOSE x \in Pools : TRUE

DecisionsInit ==
    /\ focus \in {"orchestrator", "playback", "vendor", "fuzzy"}
    /\ IF focus = "orchestrator" THEN Init
       ELSE available = TRUE /\ request = SomeRequest /\ decision = Undecided
    /\ IF focus = "playback" THEN PlaybackInit
       ELSE /\ cachedCaps = {} /\ playRequest = SomePlaybackRequest
            /\ playAnswers = [e \in {"decision", "recommendation", "validate"} |-> NoAnswer]
    /\ IF focus = "vendor" THEN VendorInit ELSE product = SomeProduct /\ rounds = 0
    /\ IF focus = "fuzzy" THEN FuzzyInit ELSE pool = SomePool /\ found = <<>>

DecisionsNext ==
    /\ \/ focus = "orchestrator" /\ Next /\ UNCHANGED <<playbackVars, vendorVars, fuzzyVars>>
       \/ focus = "playback" /\ PlaybackNext /\ UNCHANGED <<vars, vendorVars, fuzzyVars>>
       \/ focus = "vendor" /\ VendorNext /\ UNCHANGED <<vars, playbackVars, fuzzyVars>>
       \/ focus = "fuzzy" /\ FuzzyNext /\ UNCHANGED <<vars, playbackVars, vendorVars>>
    /\ UNCHANGED focus

DecisionsSpec ==
    DecisionsInit /\ [][DecisionsNext]_<<vars, playbackVars, vendorVars, fuzzyVars, focus>>
=============================================================================
