------------------------------ MODULE FuzzyMatch ------------------------------
(***************************************************************************)
(* internal/probes/curated_fuzzy.go: the curated device that is meant by a *)
(* free-form name.                                                         *)
(*                                                                         *)
(* What the string functions find out about a name and a device is a       *)
(* record: same ("name", "model", "base" or "no"), maker, similar (the     *)
(* bigram similarity in tenths, which can pass 10), variant ("none",       *)
(* "same", "prefix", "other"), year ("none", "same", "other", "base"),     *)
(* close (the fuzzy library's two scores relative to the lengths, in       *)
(* tenths) and whether the device is verified.  Scores are in tenths.      *)
(***************************************************************************)
EXTENDS Integers, Sequences, FiniteSets

CONSTANTS Pools        \* sets of findings, one finding per device that is considered

ASSUME PoolsTyped ==
    \A p \in Pools :
      /\ IsFiniteSet(p)
      /\ p \subseteq [same : {"name", "model", "base", "no"}, maker : BOOLEAN, similar : Nat,
                     variant : {"none", "same", "prefix", "other"},
                     year : {"none", "same", "other", "base"}, close : Nat, verified : BOOLEAN]

VARIABLES
    pool,              \* the devices a query is matched against
    found              \* the ranking, once made

fuzzyVars == <<pool, found>>

Cap(n) == IF n > 1000 THEN 1000 ELSE n

VersionPoints(f) ==
    (IF f.maker THEN 200 ELSE 0)
      + (IF f.similar > 7 THEN f.similar * 30 ELSE 0)
      + (IF f.variant = "same" THEN 250 ELSE IF f.variant = "prefix" THEN 150 ELSE 0)
      + (IF f.year = "same" THEN 200 ELSE IF f.year = "other" THEN 100
         ELSE IF f.year = "base" THEN 50 ELSE 0)
      + f.close * 15

\* calculateVersionMatch
VersionMatch(f) == Cap(VersionPoints(f))

\* The score of a device in MatchDevice.
MatchScore(f) ==
    IF f.same = "name" THEN 1000 ELSE IF f.same = "model" THEN 950
    ELSE IF f.same = "base" THEN 900 ELSE VersionMatch(f)

\* Faulty variant: the bonus is ten points.
RankTenPoints(f) == MatchScore(f) + (IF f.verified THEN 100 ELSE 0)

\* The bonus for verified devices counts for the order alone, and is not capped.
Rank(f) == MatchScore(f) + (IF f.verified THEN 10 ELSE 0)

\* MatchDevice: the devices with a score, by rank; the order among equals is open.  The
\* callers' limits keep at least the first.
MatchDevice ==
    /\ found = <<>>
    /\ LET hits == {f \in pool : MatchScore(f) > 0}
       IN  found' \in {s \in [1..Cardinality(hits) -> hits] :
                         /\ \A f \in hits : \E i \in DOMAIN s : s[i] = f
                         /\ \A i, j \in DOMAIN s : i < j => Rank(s[i]) >= Rank(s[j])}
    /\ UNCHANGED pool

\* FindBestMatch and VersionAwareMatch: the first of the ranking, and how sure of it.
Confidence(f, least) ==
    IF MatchScore(f) >= 800 THEN "high" ELSE IF MatchScore(f) >= 600 THEN "medium"
    ELSE IF MatchScore(f) >= least THEN "low" ELSE "none"
FindBestMatch(s) == IF s = <<>> THEN "none" ELSE Confidence(s[1], 500)
VersionAwareMatch(s) == IF s = <<>> THEN "none" ELSE Confidence(s[1], 400)

FuzzyInit == pool \in Pools /\ found = <<>>
FuzzyNext == MatchDevice
FuzzySpec == FuzzyInit /\ [][FuzzyNext]_fuzzyVars

-----------------------------------------------------------------------------
(* Properties *)

\* A device whose name is the query itself is passed over only for one that also has
\* the full score and, if the exact one is not verified, may owe its place to that;
\* any device with an equal model or base model is offered with high confidence, and
\* the two ways to ask differ only below medium confidence.
ExactMatchFound ==
    found # <<>> =>
      /\ \A f \in pool : f.same = "name" =>
           found[1] = f \/ MatchScore(found[1]) = 1000
                        \/ (found[1].verified /\ ~f.verified /\ MatchScore(found[1]) >= 990)
      /\ (\E f \in pool : f.same # "no") =>
           FindBestMatch(found) = "high" /\ VersionAwareMatch(found) = "high"
      /\ FindBestMatch(found) # VersionAwareMatch(found) =>
           FindBestMatch(found) = "none" /\ VersionAwareMatch(found) = "low"
=============================================================================
