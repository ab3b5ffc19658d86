--------------------------- MODULE CapabilityCache ---------------------------
(***************************************************************************)
(* The device capability cache of internal/probes/cache.go: a map guarded  *)
(* by a mutex in front of an optional SQLite table.  Each operation takes  *)
(* the lock for its work on the map and talks to the table without it, so  *)
(* operations of different clients interleave between the two.             *)
(*                                                                         *)
(* A capability document is the number of the Set that stored it.  Time is *)
(* abstracted to whether an entry's ExpiresAt has passed; LastAccessed to  *)
(* the order of the entries in recency, oldest first.                      *)
(***************************************************************************)
EXTENDS Integers, FiniteSets, Sequences, SequencesExt, Slices

CONSTANTS
    Clients, Devices,
    MaxMemoryItems,
    SQLiteModes,  \* the values of EnableSQLite to consider
    MaxSets       \* bound on the number of Set calls

ASSUME CacheConfig ==
    /\ MaxMemoryItems \in Nat \ {0} /\ MaxSets \in Nat
    /\ SQLiteModes \subseteq BOOLEAN

VARIABLES
    enableSQLite,
    memory,   \* memoryCache: document (0 for no entry) and whether it has expired
    recency,  \* the devices in memory by LastAccessed
    table,    \* device_capabilities_cache, likewise
    op,       \* what each client has in progress
    sets,     \* Set calls so far
    latest,   \* the document last stored for a device, 0 after a deletion (history)
    overlapped\* two operations have been in progress at once (history)

vars == <<enableSQLite, memory, recency, table, op, sets, latest, overlapped>>

Absent == [doc |-> 0, expired |-> FALSE]
Fresh(n) == [doc |-> n, expired |-> FALSE]
NoOp == [at |-> "idle", device |-> "", doc |-> 0]

Init ==
    /\ enableSQLite \in SQLiteModes
    /\ memory = [d \in Devices |-> Absent]
    /\ recency = <<>>
    /\ table = [d \in Devices |-> Absent]
    /\ op = [c \in Clients |-> NoOp]
    /\ sets = 0
    /\ latest = [d \in Devices |-> 0]
    /\ overlapped = FALSE

Valid(entry) == entry.doc # 0 /\ ~entry.expired

Touch(order, d) == Append(Keep(order, Devices \ {d}), d)

\* Without a table there is nothing left to do after the map.
Then(c, label, d, n) ==
    op' = [op EXCEPT ![c] = IF enableSQLite THEN [at |-> label, device |-> d, doc |-> n] ELSE NoOp]

-----------------------------------------------------------------------------
(* Get *)

GetHit(c, d) ==
    /\ op[c].at = "idle" /\ Valid(memory[d])
    /\ recency' = Touch(recency, d)
    /\ UNCHANGED <<memory, table, op, sets, latest>>

\* A miss in memory: on to SQLite, if there is one.
GetMiss(c, d) ==
    /\ op[c].at = "idle" /\ ~Valid(memory[d]) /\ enableSQLite
    /\ Then(c, "select", d, 0)
    /\ UNCHANGED <<memory, recency, table, sets, latest>>

GetSelect(c) ==
    /\ op[c].at = "select"
    /\ LET row == table[op[c].device]
       IN  op' = [op EXCEPT ![c] = IF Valid(row) THEN [@ EXCEPT !.at = "promote", !.doc = row.doc]
                                                  ELSE NoOp]
    /\ UNCHANGED <<memory, recency, table, sets, latest>>

\* The row goes into the map with a new expiry.  Its LastAccessed is the row's,
\* which may rank anywhere among the others.
GetPromote(c) ==
    /\ op[c].at = "promote"
    /\ LET d == op[c].device
           others == Keep(recency, Devices \ {d})
       IN  /\ memory' = [memory EXCEPT ![d] = Fresh(op[c].doc)]
           /\ \E i \in 1..(Len(others) + 1) : recency' = InsertAt(others, i, d)
    /\ op' = [op EXCEPT ![c] = NoOp]
    /\ UNCHANGED <<table, sets, latest>>

-----------------------------------------------------------------------------
(* Set *)

\* evictOldest removes the oldest tenth of the entries, at least one.
EvictCount(n) == IF n \div 10 < 1 THEN 1 ELSE n \div 10

\* Faulty variant: > for >=.
EvictedOffByOne(order) ==
    IF Len(order) > MaxMemoryItems
      THEN ToSet(SubSeq(order, 1, EvictCount(Len(order))))
      ELSE {}

Evicted(order) ==
    IF Len(order) >= MaxMemoryItems
      THEN ToSet(SubSeq(order, 1, EvictCount(Len(order))))
      ELSE {}

SetMemory(c, d) ==
    /\ op[c].at = "idle" /\ sets < MaxSets
    /\ sets' = sets + 1
    /\ LET gone == Evicted(recency)
       IN  /\ memory' = [e \in Devices |-> IF e = d THEN Fresh(sets')
                                           ELSE IF e \in gone THEN Absent ELSE memory[e]]
           /\ recency' = Touch(Keep(recency, Devices \ gone), d)
    /\ latest' = [latest EXCEPT ![d] = sets']
    /\ Then(c, "upsert", d, sets')
    /\ UNCHANGED table

SetTable(c) ==
    /\ op[c].at = "upsert"
    /\ table' = [table EXCEPT ![op[c].device] = Fresh(op[c].doc)]
    /\ op' = [op EXCEPT ![c] = NoOp]
    /\ UNCHANGED <<memory, recency, sets, latest>>

-----------------------------------------------------------------------------
(* Delete, DeleteExpired and Clear *)

DeleteMemory(c, d) ==
    /\ op[c].at = "idle"
    /\ memory' = [memory EXCEPT ![d] = Absent]
    /\ recency' = Keep(recency, Devices \ {d})
    /\ latest' = [latest EXCEPT ![d] = 0]
    /\ Then(c, "deleteRow", d, 0)
    /\ UNCHANGED <<table, sets>>

\* Faulty variant: the row stays.
DeleteTableForgotten(c) ==
    /\ op[c].at = "deleteRow"
    /\ op' = [op EXCEPT ![c] = NoOp]
    /\ UNCHANGED <<memory, recency, table, sets, latest>>

DeleteTable(c) ==
    /\ op[c].at = "deleteRow"
    /\ table' = [table EXCEPT ![op[c].device] = Absent]
    /\ op' = [op EXCEPT ![c] = NoOp]
    /\ UNCHANGED <<memory, recency, sets, latest>>

ExpiredMemory(c) ==
    /\ op[c].at = "idle" /\ \E d \in Devices : memory[d].expired \/ table[d].expired
    /\ memory' = [d \in Devices |-> IF memory[d].expired THEN Absent ELSE memory[d]]
    /\ recency' = Keep(recency, {d \in Devices : ~memory[d].expired})
    /\ Then(c, "deleteExpired", "", 0)
    /\ UNCHANGED <<table, sets, latest>>

ExpiredTable(c) ==
    /\ op[c].at = "deleteExpired"
    /\ table' = [d \in Devices |-> IF table[d].expired THEN Absent ELSE table[d]]
    /\ op' = [op EXCEPT ![c] = NoOp]
    /\ UNCHANGED <<memory, recency, sets, latest>>

ClearMemory(c) ==
    /\ op[c].at = "idle"
    /\ memory' = [d \in Devices |-> Absent]
    /\ recency' = <<>>
    /\ latest' = [d \in Devices |-> 0]
    /\ Then(c, "clear", "", 0)
    /\ UNCHANGED <<table, sets>>

ClearTable(c) ==
    /\ op[c].at = "clear"
    /\ table' = [d \in Devices |-> Absent]
    /\ op' = [op EXCEPT ![c] = NoOp]
    /\ UNCHANGED <<memory, recency, sets, latest>>

-----------------------------------------------------------------------------
(* Time *)

MemoryExpires(d) ==
    /\ Valid(memory[d])
    /\ memory' = [memory EXCEPT ![d].expired = TRUE]
    /\ UNCHANGED <<recency, table, op, sets, latest>>

RowExpires(d) ==
    /\ Valid(table[d])
    /\ table' = [table EXCEPT ![d].expired = TRUE]
    /\ UNCHANGED <<memory, recency, op, sets, latest>>

Client(c) ==
    \/ \E d \in Devices : GetHit(c, d) \/ GetMiss(c, d) \/ SetMemory(c, d) \/ DeleteMemory(c, d)
    \/ GetSelect(c) \/ GetPromote(c) \/ SetTable(c) \/ DeleteTable(c)
    \/ ExpiredMemory(c) \/ ExpiredTable(c) \/ ClearMemory(c) \/ ClearTable(c)

Time == \E d \in Devices : MemoryExpires(d) \/ RowExpires(d)

Busy(c) == op[c].at # "idle"

Next ==
    /\ (\E c \in Clients : Client(c)) \/ Time
    /\ overlapped' = (overlapped \/ \E b, c \in Clients : b # c /\ Busy(b) /\ Busy(c))
    /\ UNCHANGED enableSQLite

Spec == Init /\ [][Next]_vars

-----------------------------------------------------------------------------
(* Properties *)

\* Every variable stays in its range: an operation that still has work to do knows
\* its device, and a document is always the number of a Set that was called.
TypeOK ==
    /\ enableSQLite \in BOOLEAN /\ overlapped \in BOOLEAN
    /\ memory \in [Devices -> [doc : 0..MaxSets, expired : BOOLEAN]]
    /\ recency \in Seq(Devices) /\ IsInjective(recency)
    /\ ToSet(recency) = {d \in Devices : memory[d].doc # 0}
    /\ table \in [Devices -> [doc : 0..MaxSets, expired : BOOLEAN]]
    /\ \A c \in Clients :
          /\ op[c].at \in {"idle", "select", "promote", "upsert", "deleteRow", "deleteExpired", "clear"}
          /\ op[c].at \in {"select", "promote", "upsert", "deleteRow"} => op[c].device \in Devices
          /\ op[c].doc \in 0..MaxSets
    /\ sets \in 0..MaxSets
    /\ latest \in [Devices -> 0..MaxSets]

\* "evicts the oldest entries when memory cache is full": as long as Set alone
\* fills the map, it never holds more than maxMemoryItems entries, however many
\* devices report.  (With SQLite enabled Get inserts without evicting.)
MemoryBounded ==
    ~enableSQLite => Cardinality({d \in Devices : memory[d].doc # 0}) <= MaxMemoryItems

\* Map, access order and table stay consistent under concurrent operations, and the
\* map within its limit.
CacheBounded == TypeOK /\ MemoryBounded

\* What Get would return for a device: its document, or 0.
WouldGet(d) ==
    IF Valid(memory[d]) THEN memory[d].doc
    ELSE IF enableSQLite /\ Valid(table[d]) THEN table[d].doc ELSE 0

\* Operations that followed one another leave the two tiers agreed: Get returns
\* the document of the last Set or nothing (expired, evicted), never an older
\* document of the other tier and nothing that was deleted, whatever was
\* evicted, promoted and expired in between.
LatestOrNothing ==
    ~overlapped /\ (\A c \in Clients : ~Busy(c)) =>
        \A d \in Devices : WouldGet(d) \in {0, latest[d]}
=============================================================================
