------------------------------- MODULE Slices -------------------------------
(***************************************************************************)
(* The loops over slices and lists that several components share: the      *)
(* filter that appends to a result what it keeps, in order                 *)
(* (probes/curated.go), and the running sum of entry sizes                 *)
(* (metrics/segment_cache.go).  Each is a function of how far the loop     *)
(* has come, so that SlicesProofs can reason about it.                     *)
(***************************************************************************)
EXTENDS Integers, Sequences

\* What the filter has kept of s after i elements.
KeptUpTo(s, S) ==
    LET kept[i \in 0..Len(s)] ==
          IF i = 0 THEN <<>>
          ELSE IF s[i] \in S THEN Append(kept[i - 1], s[i]) ELSE kept[i - 1]
    IN  kept

\* The elements of s that are in S, in their order.
Keep(s, S) == KeptUpTo(s, S)[Len(s)]

\* The sizes of the first i entries of s.
BytesUpTo(s) ==
    LET sum[i \in 0..Len(s)] == IF i = 0 THEN 0 ELSE sum[i - 1] + s[i].size
    IN  sum

\* The bytes of all entries of s.
Bytes(s) == BytesUpTo(s)[Len(s)]
=============================================================================
