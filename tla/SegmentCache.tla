---------------------------- MODULE SegmentCache ----------------------------
(***************************************************************************)
(* The two-level segment cache of internal/metrics/segment_cache.go: a     *)
(* memory map with an LRU list under a lock, in front of files on disk     *)
(* that are handled without one.                                           *)
(*                                                                         *)
(* A segment is its size.  Time is abstracted to whether an entry or file  *)
(* has outlived its TTL.  A list element and its L1Entry are one record    *)
(* with a stamp for its identity; l1 maps a key to a stamp.  The disk is   *)
(* the sequence of segment files by age, each with its .meta file.         *)
(***************************************************************************)
EXTENDS Integers, Sequences, FiniteSets, SequencesExt, Slices

CONSTANTS
    Callers, Keys,
    MediaOf,          \* [Keys -> media items]
    Sizes,
    L1MaxSize, L1MaxItems, L2MaxSize,
    MaxRestarts,      \* bound on the restarts of the server
    MaxCalls          \* bound on the calls made

ASSUME SegmentConfig ==
    /\ DOMAIN MediaOf = Keys
    /\ Sizes \subseteq 1..L2MaxSize
    /\ L1MaxSize \in Nat /\ L1MaxItems \in Nat \ {0} /\ L2MaxSize \in Nat
    /\ MaxRestarts \in Nat /\ MaxCalls \in Nat /\ IsFiniteSet(Callers)

VARIABLES
    l1, l1List, l1Size,
    disk, l2Size,
    call,        \* what each caller has in progress
    restarts, calls,
    crossed      \* two calls, or one and the clean-up, have been in progress at once (history)

segmentVars == <<l1, l1List, l1Size, disk, l2Size, call, restarts, calls, crossed>>

Unmapped == 0
NoCall == [at |-> "idle"]

SegmentInit ==
    /\ l1 = [k \in Keys |-> Unmapped] /\ l1List = <<>> /\ l1Size = 0
    /\ disk = <<>> /\ l2Size = 0
    /\ call = [c \in Callers |-> NoCall]
    /\ restarts = 0 /\ calls = 0 /\ crossed = FALSE

Least(S) == CHOOSE n \in S : \A m \in S : n <= m

InList(stamp) == \E i \in 1..Len(l1List) : l1List[i].stamp = stamp
Entry(stamp) == CHOOSE e \in Range(l1List) : e.stamp = stamp
Without(stamp) == Keep(l1List, {e \in Range(l1List) : e.stamp # stamp})
OnDisk(k) == \E i \in 1..Len(disk) : disk[i].key = k
File(k) == CHOOSE f \in Range(disk) : f.key = k
NoFile(k) == Keep(disk, {f \in Range(disk) : f.key # k})

\* A stamp that no element and no call refers to.
FreshStamp ==
    Least({n \in 1..(Len(l1List) + Cardinality(Callers) + 1) :
             /\ ~InList(n)
             /\ \A c \in Callers : call[c].at = "touch" => call[c].stamp # n})

-----------------------------------------------------------------------------
(* Level 1, each under the lock *)

\* evictL1, n times: list, map and size without the last n elements of the list, each
\* of which drops its key from the map.
ListLess(n) == SubSeq(l1List, 1, Len(l1List) - n)
MapLess(n) ==
    [q \in Keys |-> IF \E i \in (Len(l1List) - n + 1)..Len(l1List) : l1List[i].key = q
                      THEN Unmapped ELSE l1[q]]
SizeLess(n) == l1Size - Bytes(SubSeq(l1List, Len(l1List) - n + 1, Len(l1List)))

\* How many go until the segment fits and the map has room.
EvictL1(size) ==
    Least({n \in 0..Len(l1List) :
             \/ n = Len(l1List)
             \/ /\ SizeLess(n) + size <= L1MaxSize
                /\ Cardinality({q \in Keys : MapLess(n)[q] # Unmapped}) < L1MaxItems})

\* After the evictions an update in place or a new entry.
setL1(k, size) ==
    LET n == EvictL1(size)
        old == MapLess(n)[k]
        stamp == IF old # Unmapped THEN old ELSE FreshStamp
        new == [stamp |-> stamp, key |-> k, size |-> size, expired |-> FALSE]
    IN  /\ l1List' = <<new>> \o Keep(ListLess(n), {e \in Range(l1List) : e.stamp # stamp})
        /\ l1' = [MapLess(n) EXCEPT ![k] = stamp]
        /\ l1Size' = SizeLess(n) - (IF old # Unmapped THEN Entry(old).size ELSE 0) + size

\* Faulty variant: the list keeps the element.
deleteL1KeepElement(k) ==
    IF l1[k] = Unmapped THEN UNCHANGED <<l1, l1List, l1Size>>
    ELSE /\ l1Size' = l1Size - Entry(l1[k]).size
         /\ l1' = [l1 EXCEPT ![k] = Unmapped]
         /\ UNCHANGED l1List

deleteL1(k) ==
    IF l1[k] = Unmapped THEN UNCHANGED <<l1, l1List, l1Size>>
    ELSE /\ l1Size' = l1Size - Entry(l1[k]).size
         /\ l1List' = Without(l1[k])
         /\ l1' = [l1 EXCEPT ![k] = Unmapped]

-----------------------------------------------------------------------------
(* Calls *)

NextStep(c, r) == call' = [call EXCEPT ![c] = r]
EndCall(c) == NextStep(c, NoCall)
NoCallBy(c) == call[c].at = "idle"
SameL1 == UNCHANGED <<l1, l1List, l1Size>>
SameL2 == UNCHANGED <<disk, l2Size>>

\* Get: getL1 reads the entry under the read lock ...
Get(c, k) ==
    /\ NoCallBy(c)
    /\ IF l1[k] = Unmapped THEN NextStep(c, [at |-> "l2", key |-> k])
       ELSE IF Entry(l1[k]).expired THEN NextStep(c, [at |-> "expired", key |-> k])
       ELSE NextStep(c, [at |-> "touch", stamp |-> l1[k]])
    /\ SameL1 /\ SameL2

\* ... and takes the lock again: to move a hit to the front, if it is still listed ...
TouchHit(c) ==
    /\ call[c].at = "touch"
    /\ l1List' = IF InList(call[c].stamp)
                   THEN <<Entry(call[c].stamp)>> \o Without(call[c].stamp) ELSE l1List
    /\ EndCall(c)
    /\ UNCHANGED <<l1, l1Size>> /\ SameL2

\* ... or to delete what the key maps to by then.
DeleteExpired(c) ==
    /\ call[c].at = "expired"
    /\ deleteL1(call[c].key)
    /\ NextStep(c, [at |-> "l2", key |-> call[c].key])
    /\ SameL2

\* getL2: an expired file is removed, and stays counted.
GetL2(c) ==
    /\ call[c].at = "l2"
    /\ LET k == call[c].key
       IN  IF OnDisk(k) /\ ~File(k).expired
             THEN NextStep(c, [at |-> "promote", key |-> k, size |-> File(k).size]) /\ UNCHANGED disk
             ELSE EndCall(c) /\ disk' = NoFile(k)
    /\ SameL1 /\ UNCHANGED l2Size

Promote(c) ==
    /\ call[c].at = "promote"
    /\ setL1(call[c].key, call[c].size)
    /\ EndCall(c)
    /\ SameL2

\* Set: level 1 ...
Set(c, k, size) ==
    /\ NoCallBy(c)
    /\ setL1(k, size)
    /\ NextStep(c, [at |-> "write", key |-> k, size |-> size])
    /\ SameL2

\* Faulty variant: room is made without the new segment's size.
EvictL2TooFew(size) ==
    Least({n \in 0..Len(disk) : n = Len(disk) \/ l2Size - Bytes(SubSeq(disk, 1, n)) <= L2MaxSize})

\* evictL2 until the segment fits or no file is left: how many files go.
EvictL2(size) ==
    Least({n \in 0..Len(disk) : n = Len(disk) \/ l2Size - Bytes(SubSeq(disk, 1, n)) + size <= L2MaxSize})

\* ... then setL2: evictions, the file, its .meta file; an old file of the key is
\* overwritten, and stays counted.
SetL2(c) ==
    /\ call[c].at = "write"
    /\ LET k == call[c].key
           size == call[c].size
           n == EvictL2(size)
           left == SubSeq(disk, n + 1, Len(disk))
           rest == Keep(left, {f \in Range(disk) : f.key # k})
           freed == Bytes(SubSeq(disk, 1, n))
       IN  \/ /\ disk' = Append(rest, [key |-> k, size |-> size, expired |-> FALSE])
              /\ l2Size' = l2Size - freed + size
           \/ \* the segment cannot be written, or its .meta file, and is removed again
              /\ disk' \in {left, rest}
              /\ l2Size' = l2Size - freed
    /\ EndCall(c)
    /\ SameL1

\* Invalidate: deleteL1 ...
Invalidate(c, k) ==
    /\ NoCallBy(c)
    /\ deleteL1(k)
    /\ NextStep(c, [at |-> "unlink", key |-> k])
    /\ SameL2

\* ... then deleteL2.
DeleteL2(c) ==
    /\ call[c].at = "unlink"
    /\ LET k == call[c].key
       IN  /\ disk' = NoFile(k)
           /\ l2Size' = IF OnDisk(k) THEN l2Size - File(k).size ELSE l2Size
    /\ EndCall(c)
    /\ SameL1

\* InvalidateMedia: the map alone; list, sizes and disk keep the segments.
InvalidateMedia(c, m) ==
    /\ NoCallBy(c)
    /\ l1' = [k \in Keys |-> IF MediaOf[k] = m THEN Unmapped ELSE l1[k]]
    /\ UNCHANGED <<l1List, l1Size, call>> /\ SameL2

\* cleanupExpired, from its own goroutine: level 1 under the lock, then the files.
CleanupExpired ==
    /\ LET gone == {l1[k] : k \in {q \in Keys : l1[q] # Unmapped /\ Entry(l1[q]).expired}}
           old == {f \in Range(disk) : f.expired}
           stale == {e \in Range(l1List) : e.stamp \in gone}
       IN  /\ l1List' = Keep(l1List, Range(l1List) \ stale)
           /\ l1Size' = l1Size - Bytes(Keep(l1List, stale))
           /\ l1' = [k \in Keys |-> IF l1[k] \in gone THEN Unmapped ELSE l1[k]]
           /\ disk' = Keep(disk, Range(disk) \ old)
           /\ l2Size' = l2Size - Bytes(Keep(disk, old))
    /\ crossed' = (crossed \/ \E c \in Callers : ~NoCallBy(c))
    /\ UNCHANGED <<call, restarts, calls>>

\* Time passes: a listed entry or the oldest fresh file outlives its TTL.
Age ==
    /\ \/ \E i \in 1..Len(l1List) : l1List' = [l1List EXCEPT ![i].expired = TRUE] /\ UNCHANGED disk
       \/ \E i \in 1..Len(disk) : disk' = [disk EXCEPT ![i].expired = TRUE] /\ UNCHANGED l1List
    /\ UNCHANGED <<l1, l1Size, l2Size, call, restarts, calls, crossed>>

\* Close and NewSegmentCache, also after a crash: the files stay, and are not counted.
Restart ==
    /\ restarts < MaxRestarts
    /\ l1' = [k \in Keys |-> Unmapped] /\ l1List' = <<>> /\ l1Size' = 0
    /\ l2Size' = 0
    /\ call' = [c \in Callers |-> NoCall]
    /\ restarts' = restarts + 1
    /\ UNCHANGED <<disk, calls, crossed>>

SegmentNext ==
    \/ \E c \in Callers :
        /\ \/ /\ calls < MaxCalls
              /\ calls' = calls + 1
              /\ \/ \E k \in Keys : Get(c, k) \/ Invalidate(c, k) \/ \E s \in Sizes : Set(c, k, s)
                 \/ \E m \in {MediaOf[k] : k \in Keys} : InvalidateMedia(c, m)
           \/ /\ UNCHANGED calls
              /\ \/ TouchHit(c) \/ DeleteExpired(c) \/ GetL2(c) \/ Promote(c)
                 \/ SetL2(c) \/ DeleteL2(c)
        /\ crossed' = (crossed \/ \E d \in Callers \ {c} : ~NoCallBy(d))
        /\ UNCHANGED restarts
    \/ CleanupExpired
    \/ Age
    \/ Restart

SegmentSpec == SegmentInit /\ [][SegmentNext]_segmentVars

-----------------------------------------------------------------------------
(* Properties *)

\* The books of the memory level balance under every interleaving: l1Size is the sum
\* of the elements in the list, those InvalidateMedia left behind included, and what
\* the map refers to is listed, under its key.  Evictions rely on both to end.
L1Exact ==
    /\ l1Size = Bytes(l1List)
    /\ \A k \in Keys : l1[k] # Unmapped => InList(l1[k]) /\ Entry(l1[k]).key = k

\* The memory level keeps to its limits: the bytes, but for a single segment that is
\* larger than the whole cache, and the number of entries.
L1Bounded ==
    /\ l1Size <= L1MaxSize \/ Len(l1List) = 1
    /\ Cardinality({k \in Keys : l1[k] # Unmapped}) <= L1MaxItems

\* The memory level is exact in its books and within its limits.
L1Books == L1Exact /\ L1Bounded

\* Without overlapping calls, among which getL2, setL2 and deleteL2 would race for the
\* unlocked l2Size, the disk level keeps to its limit, however l2Size drifts
\* (overwritten and expired files stay counted), except that every restart forgets
\* the files it finds and so adds another limit's worth.
DiskBounded ==
    ~crossed => Bytes(disk) <= (restarts + 1) * L2MaxSize
=============================================================================
