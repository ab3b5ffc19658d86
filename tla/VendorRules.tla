----------------------------- MODULE VendorRules -----------------------------
(***************************************************************************)
(* The vendor rules and profiles of internal/probes/curated.go, which      *)
(* override what a curated device reports.                                 *)
(*                                                                         *)
(* A model name is the set of the markers it contains.  A rule is the      *)
(* features it grants and denies; HDR10+ changes no capability.            *)
(***************************************************************************)
EXTENDS Integers, Sequences, FiniteSets

CONSTANTS
    Formats,           \* the names of codecs, subtitle formats and containers
    Products           \* the curated devices as they are loaded

ASSUME ProductsTyped ==
    /\ {"dts", "dtshd", "truehd", "flac", "av1", "ssa", "ass", "ttml", "webm"} \subseteq Formats
    /\ Products \subseteq
         [vendor : STRING, year : Nat, markers : SUBSET STRING, profile : STRING,
          caps : [dts : BOOLEAN, dv : BOOLEAN, hdr : BOOLEAN, video : SUBSET Formats,
                  audio : SUBSET Formats, subtitles : SUBSET Formats,
                  containers : SUBSET Formats, width : Nat, height : Nat]]

VARIABLES
    product,           \* the device
    rounds             \* how often the rules have been applied to it, up to two

vendorVars == <<product, rounds>>

Rule(when, has, no) == [when |-> when, has |-> has, no |-> no]
Always == [kind |-> "always"]
Since(y) == [kind |-> "year", year |-> y]
Model(m) == [kind |-> "model", marker |-> m]
NotModel(m) == [kind |-> "not", marker |-> m]

SamsungRules ==
    <<Rule(Always, {}, {"dts"}), Rule(Always, {}, {"dv"}), Rule(Since(2022), {"hdr10+"}, {}),
      Rule(Since(2022), {"av1"}, {}), Rule(Always, {"ssa"}, {}), Rule(Always, {"ttml"}, {}),
      Rule(Always, {}, {})>>
LgRules ==
    <<Rule(Always, {"dv"}, {}), Rule(Always, {}, {"hdr10+"}), Rule(Since(2022), {"av1"}, {}),
      Rule(Always, {"ssa"}, {}), Rule(Always, {"ttml"}, {})>>
\* The "or" of the last condition is taken as part of the name to look for.
RokuRules ==
    <<Rule(Always, {}, {}), Rule(Always, {}, {}),
      Rule(Model("tcl' or model contains 'roku tv"), {"dv"}, {})>>
AmazonRules ==
    <<Rule(Always, {}, {"dts"}), Rule(Always, {"dv"}, {}), Rule(Since(2022), {"av1"}, {}),
      Rule(Always, {}, {"hdr10+"}), Rule(Always, {}, {})>>
AppleRules ==
    <<Rule(Always, {}, {"dts"}), Rule(Always, {"dv"}, {}), Rule(Since(2024), {"hdr10+"}, {}),
      Rule(Always, {"ssa", "ttml"}, {}), Rule(Always, {"webm"}, {})>>
SonyRules ==
    <<Rule(Always, {"dv"}, {}), Rule(Since(2021), {"av1"}, {}), Rule(Always, {"truehd"}, {}),
      Rule(Always, {"ssa", "ttml"}, {})>>
NvidiaRules ==
    <<Rule(Always, {"dv"}, {}), Rule(Always, {"av1"}, {}), Rule(Always, {"truehd"}, {}),
      Rule(Always, {"ssa", "ttml", "webm"}, {})>>
XiaomiRules ==
    <<Rule(Always, {"dv"}, {}), Rule(Since(2022), {"av1"}, {}),
      Rule(Model("mi box s"), {}, {}), Rule(Model("mi box s"), {}, {})>>
PhilipsRules ==
    <<Rule(Always, {"dv"}, {}), Rule(Since(2022), {"av1"}, {}),
      Rule(Model("saphi"), {}, {}), Rule(Model("saphi"), {}, {"dts"})>>
HisenseRules ==
    <<Rule(Model("android"), {"dv"}, {}), Rule(NotModel("android"), {}, {"dv"}),
      Rule(NotModel("android"), {}, {"dts"}), Rule(Since(2022), {"av1"}, {})>>

\* GetVendorRules: the table of a manufacturer.
Rules(vendor) ==
    IF vendor = "samsung" THEN SamsungRules ELSE IF vendor = "lg" THEN LgRules
    ELSE IF vendor = "roku" THEN RokuRules ELSE IF vendor = "amazon" THEN AmazonRules
    ELSE IF vendor = "apple" THEN AppleRules ELSE IF vendor = "sony" THEN SonyRules
    ELSE IF vendor = "nvidia" THEN NvidiaRules ELSE IF vendor = "xiaomi" THEN XiaomiRules
    ELSE IF vendor = "philips" THEN PhilipsRules ELSE IF vendor = "hisense" THEN HisenseRules ELSE <<>>

MatchesRuleCondition(when, markers, year) ==
    \/ when.kind = "always"
    \/ when.kind = "year" /\ year >= when.year
    \/ when.kind = "model" /\ when.marker \in markers
    \/ when.kind = "not" /\ when.marker \notin markers

SamsungYear(m) ==
    IF m \in {"qn90", "qn80", "qn70", "ls03"} THEN 2022 ELSE IF m \in {"qn85", "au80"} THEN 2021
    ELSE IF m \in {"q80", "q60", "tu80"} THEN 2020 ELSE IF m \in {"q90", "q70", "ru71"} THEN 2019 ELSE 0
LgYear(m) ==
    IF m = "c3" THEN 2023 ELSE IF m \in {"c2", "g2", "a2"} THEN 2022
    ELSE IF m \in {"c1", "g1", "a1", "b1", "u1"} THEN 2021 ELSE 0
SonyYear(m) ==
    IF m \in {"a95k", "a90k", "a80k", "x95k", "x90k"} THEN 2022 ELSE IF m \in {"x90j", "a80j"} THEN 2021
    ELSE IF m = "x900h" THEN 2020 ELSE IF m \in {"a9g", "z9g"} THEN 2019 ELSE 0

\* inferYearFromModel: a marker of the first table that has one, taken in map order,
\* so any of them when there are several.
InferredYears(markers) ==
    LET samsung == {SamsungYear(m) : m \in markers} \ {0}
        lg == {LgYear(m) : m \in markers} \ {0}
        sony == {SonyYear(m) : m \in markers} \ {0}
    IN  IF samsung # {} THEN samsung ELSE IF lg # {} THEN lg ELSE IF sony # {} THEN sony ELSE {0}

If(cond, S) == IF cond THEN S ELSE {}

\* Faulty variant: the extended codec stays in the list.
DeniedAudioBase(rule) == If("dts" \in rule.no, {"dts"})

DeniedAudio(rule) == If("dts" \in rule.no, {"dts", "dtshd"})

\* One rule: what it denies goes, what it grants is added unless there.
Applied(c, rule) ==
    LET noDTS == "dts" \in rule.no
        hasDTS == "dts" \in rule.has /\ ~noDTS
    IN  [c EXCEPT !.dts = (@ \/ hasDTS) /\ ~noDTS,
                  !.dv = (@ \/ "dv" \in rule.has) /\ "dv" \notin rule.no,
                  !.video = @ \cup If("av1" \in rule.has, {"av1"}),
                  !.audio = (@ \ DeniedAudio(rule)) \cup If(hasDTS, {"dts"})
                              \cup If("truehd" \in rule.has, {"truehd", "flac"}),
                  !.subtitles = @ \cup If("ssa" \in rule.has, {"ssa", "ass"})
                                  \cup If("ttml" \in rule.has, {"ttml"}),
                  !.containers = @ \cup If("webm" \in rule.has, {"webm"})]

\* The capabilities after the first n rules, those whose condition does not match skipped.
RulesUpTo(p, year) ==
    LET after[n \in 0..Len(Rules(p.vendor))] ==
          IF n = 0 THEN p.caps
          ELSE IF MatchesRuleCondition(Rules(p.vendor)[n].when, p.markers, year)
            THEN Applied(after[n - 1], Rules(p.vendor)[n]) ELSE after[n - 1]
    IN  after

ApplyRules(p, year) == RulesUpTo(p, year)[Len(Rules(p.vendor))]

\* The device's own year, or an inferred one.
Years(p) == IF p.year # 0 THEN {p.year} ELSE InferredYears(p.markers)

ApplyVendorRules ==
    /\ rounds < 2
    /\ \E year \in Years(product) :
         product' = [product EXCEPT !.caps = ApplyRules(product, year)]
    /\ rounds' = rounds + 1

\* GetKnownLimitations: of the vendor, whatever the conditions of its rules.
KnownLimitations(vendor) == UNION {r.no : r \in {Rules(vendor)[i] : i \in 1..Len(Rules(vendor))}}

\* GetRecommendedProfile: a profile of its own, or by size in both directions.
RecommendedProfile(p) ==
    LET atLeast(w, h) == p.caps.width >= w /\ p.caps.height >= h
    IN  IF p.profile # "" THEN p.profile
        ELSE IF atLeast(3840, 2160)
               THEN (IF p.caps.hdr \/ p.caps.dv THEN "ultra_hd_hdr" ELSE "ultra_hd")
        ELSE IF atLeast(1920, 1080) THEN (IF p.caps.hdr THEN "full_hd_hdr" ELSE "full_hd")
        ELSE IF atLeast(1280, 720) THEN "hd" ELSE "sd"

VendorInit == product \in Products /\ rounds = 0
VendorNext == ApplyVendorRules
VendorSpec == VendorInit /\ [][VendorNext]_vendorVars

-----------------------------------------------------------------------------
(* Properties *)

\* The rules settle: after any round nothing that a rule denies the device is left of
\* it - no DTS flag, codec or extended codec, no Dolby Vision - however the rules that
\* follow in the table go; and a second round, as when the device is loaded again,
\* changes nothing, unless the year had to be guessed from several markers.
RulesSettle ==
    [][LET rules == Rules(product.vendor)
           denied == UNION {rules[i].no : i \in {j \in 1..Len(rules) :
                       MatchesRuleCondition(rules[j].when, product.markers, product.year)}}
           c == product'.caps
       IN  /\ "dts" \in denied => ~c.dts /\ {"dts", "dtshd"} \cap c.audio = {}
           /\ "dv" \in denied => ~c.dv
           /\ denied \subseteq KnownLimitations(product.vendor)
           /\ rounds = 1 /\ Cardinality(Years(product)) = 1
                => c = product.caps /\ RecommendedProfile(product') = RecommendedProfile(product)
      ]_vendorVars
=============================================================================
