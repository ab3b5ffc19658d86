------------------------------ MODULE MCStores ------------------------------
(***************************************************************************)
(* The components that keep state of their own and do not call each other, *)
(* explored side by side: a behaviour follows one of them (focus) through  *)
(* all its operations while the others stay as they start.  Each keeps its *)
(* own initial states, steps and properties.                               *)
(***************************************************************************)
EXTENDS CapabilityCache, CuratedDB, SegmentCache, Validator, TrustScore, EncoderInventory,
        RateLimiter, WebSession

VARIABLE focus

-----------------------------------------------------------------------------
(* Curated devices: two kinds of different platforms, one of them embedded *)

MCPlatformOf == [k \in Kinds |-> IF k = "k1" THEN "p1" ELSE "p2"]
MCEmbeddedKinds == <<"k1">>

(* Segments: two, of different media *)

MCMediaOf == [k \in Keys |-> IF k = "k1" THEN "m1" ELSE "m2"]

(* Capability reports: a clean one, and ones with every error and anomaly *)

CleanReport ==
    [platform |-> "ios", normal |-> "ios", lower |-> "ios", agent |-> "match",
     video |-> {"h264", "hevc"}, audio |-> {"aac"}, containers |-> {"mp4"},
     width |-> 1920, height |-> 1080, bitrate |-> 20000000, hdr |-> FALSE, tenBit |-> FALSE,
     dv |-> FALSE, atmos |-> FALSE, dts |-> FALSE, drm |-> "fairplay"]

MCReports ==
    {CleanReport,
     [CleanReport EXCEPT !.platform = "", !.normal = "", !.lower = "", !.bitrate = 2000000000],
     [CleanReport EXCEPT !.agent = "mismatch", !.video = {}],
     [CleanReport EXCEPT !.platform = "playstation", !.normal = "playstation",
                         !.lower = "playstation", !.video = KnownVideo, !.width = 20000,
                         !.drm = "none"],
     \* Written differently: normalised for the platform check, not for the codecs.
     [CleanReport EXCEPT !.platform = "iOS", !.video = {}, !.audio = {}, !.atmos = TRUE]}

(* Evidence on two devices: one that does well in all but the bad signs, and one *)
(* of which little is known                                                      *)

Known == [device |-> "d1", fingerprint |-> "f1", platform |-> "tv", maker |-> TRUE, drm |-> "2",
          versions |-> "fine", seen |-> "older", idle |-> "recent", probes |-> 101,
          consistent |-> 101, anomalies |-> 0, verified |-> TRUE, curated |-> TRUE]

MCEvidence ==
    {[Known EXCEPT !.platform = p, !.anomalies = a, !.verified = v, !.curated = v] :
        p \in {"tv", "odd"}, a \in {0, 21, 51}, v \in BOOLEAN}
    \cup {[Known EXCEPT !.device = "d2", !.platform = "web", !.drm = m, !.maker = FALSE,
                        !.probes = n, !.consistent = 8, !.seen = s, !.verified = FALSE] :
            m \in {"none", "1"}, n \in {0, 11}, s \in {"hour", "older"}}

(* Hosts of every operating system the discovery knows, and one that it does not *)

Host(os, lists, starts, p010) ==
    [goos |-> os, ffmpeg |-> TRUE, lists |-> lists, starts |-> starts,
     smi |-> "nvenc" \in starts, dri |-> TRUE, video10 |-> os = "linux", p010 |-> p010]

MCHosts ==
    {Host("linux", {"libx265", "hevc_nvenc", "hevc_vaapi", "av1_qsv"}, {"nvenc", "qsv"}, FALSE),
     Host("linux", {"libvpx-vp9", "vp9_vaapi", "av1_vaapi", "libfoo"}, {"vaapi"}, TRUE),
     Host("windows", {"libsvtav1", "av1_nvenc", "av1_qsv", "av1_amf"}, {"nvenc", "qsv", "amf"}, FALSE),
     Host("darwin", {"libx264", "h264_videotoolbox", "hevc_videotoolbox"}, {"videotoolbox"}, FALSE),
     Host("freebsd", {"libx265", "hevc_vaapi", "libvpx-vp9"}, {"vaapi"}, FALSE),
     [Host("linux", {}, {}, FALSE) EXCEPT !.ffmpeg = FALSE]}

-----------------------------------------------------------------------------

StoresInit ==
    /\ focus \in {"capabilities", "curated", "segments", "validator", "trust", "inventory",
                  "limiter", "web"}
    /\ Init /\ CuratedInit /\ SegmentInit /\ ValidatorInit /\ TrustInit /\ InventoryInit
    /\ LimiterInit /\ WebInit
    \* What the others start with does not matter.
    /\ focus # "capabilities" => enableSQLite = (TRUE \in SQLiteModes)
    /\ focus # "inventory" => host = CHOOSE h \in Hosts : TRUE

\* The steps of one component.
Only(name, step) == focus = name /\ step /\ UNCHANGED focus

StoresNext ==
    \/ /\ Only("capabilities", Next)
       /\ UNCHANGED <<curatedVars, segmentVars, validatorVars, trustVars, inventoryVars,
                      limiterVars, webVars>>
    \/ /\ Only("curated", CuratedNext)
       /\ UNCHANGED <<vars, segmentVars, validatorVars, trustVars, inventoryVars, limiterVars,
                      webVars>>
    \/ /\ Only("segments", SegmentNext)
       /\ UNCHANGED <<vars, curatedVars, validatorVars, trustVars, inventoryVars, limiterVars,
                      webVars>>
    \/ /\ Only("validator", ValidatorNext)
       /\ UNCHANGED <<vars, curatedVars, segmentVars, trustVars, inventoryVars, limiterVars,
                      webVars>>
    \/ /\ Only("trust", TrustNext)
       /\ UNCHANGED <<vars, curatedVars, segmentVars, validatorVars, inventoryVars, limiterVars,
                      webVars>>
    \/ /\ Only("inventory", InventoryNext)
       /\ UNCHANGED <<vars, curatedVars, segmentVars, validatorVars, trustVars, limiterVars,
                      webVars>>
    \/ /\ Only("limiter", LimiterNext)
       /\ UNCHANGED <<vars, curatedVars, segmentVars, validatorVars, trustVars, inventoryVars,
                      webVars>>
    \/ /\ Only("web", WebNext)
       /\ UNCHANGED <<vars, curatedVars, segmentVars, validatorVars, trustVars, inventoryVars,
                      limiterVars>>

storesVars == <<vars, curatedVars, segmentVars, validatorVars, trustVars, inventoryVars,
                limiterVars, webVars, focus>>

StoresSpec == StoresInit /\ [][StoresNext]_storesVars
=============================================================================
