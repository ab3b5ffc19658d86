---------------------------- MODULE StoresProofs ----------------------------
(****************************************************************************)
(* Proofs about the components that keep what others rely on: the           *)
(* capability cache, the segment cache, the rate limiter and the encoder    *)
(* inventory.                                                               *)
(****************************************************************************)
EXTENDS CapabilityCache, SegmentCache, RateLimiter, EncoderInventory, SlicesProofs,
        FiniteSetTheorems, TLAPS

-----------------------------------------------------------------------------
(* The capability cache *)

\* Documents are numbered by the Set that stored them.
Docs == 0..MaxSets
Entries == [doc : Docs, expired : BOOLEAN]
Operations ==
    {r \in [at : {"idle", "select", "promote", "upsert", "deleteRow", "deleteExpired", "clear"},
           device : Devices \union {""}, doc : Docs] :
        /\ r.at = "promote" => r.doc # 0
        /\ r.at \in {"select", "promote", "upsert", "deleteRow"} => r.device \in Devices}

\* The tables are what they are said to be; the order of access does not matter here.
CacheTables ==
    /\ enableSQLite \in BOOLEAN /\ sets \in Docs
    /\ memory \in [Devices -> Entries] /\ table \in [Devices -> Entries]
    /\ latest \in [Devices -> Docs]
    /\ op \in [Clients -> Operations]

\* What an operation under way has still to do to the table, and what it leaves to
\* be said of the row of a device until it has: a row that is about to be
\* overwritten or deleted may be anything.
RowDue(c, d) ==
    \/ op[c].at \in {"upsert", "deleteRow"} /\ op[c].device = d
    \/ op[c].at = "clear"

\* Operation c has the latest document, or nothing, in hand.
InHand(c) ==
    /\ op[c].at \in {"promote", "upsert"} => op[c].doc = latest[op[c].device]
    /\ op[c].at = "deleteRow" => latest[op[c].device] = 0
    /\ op[c].at = "clear" => \A d \in Devices : latest[d] = 0

\* While no two operations are in progress at once: neither tier has an older
\* document, apart from the row that the operation in progress is about to write.
TiersAgree ==
    \A d \in Devices :
        /\ memory[d].doc \in {0, latest[d]}
        /\ table[d].doc \in {0, latest[d]} \/ \E c \in Clients : RowDue(c, d)

OneAtATime == \A b, c \in Clients : Busy(b) /\ Busy(c) => b = c

\* Without SQLite the table stays empty and every operation ends with the map.
NoTable ==
    ~enableSQLite => (\A d \in Devices : table[d].doc = 0) /\ \A c \in Clients : ~Busy(c)

CacheInv ==
    /\ CacheTables /\ NoTable
    /\ ~overlapped /\ OneAtATime => TiersAgree /\ \A c \in Clients : InHand(c)

\* What the operations put into the tables.
LEMMA CacheRecords ==
    /\ 0 \in Docs
    /\ Absent \in Entries /\ Absent.doc = 0
    /\ NoOp \in Operations /\ NoOp.at = "idle"
    /\ \A n \in Docs : Fresh(n) \in Entries /\ Fresh(n).doc = n
<1>1. 0 \in Docs
    BY CacheConfig DEF Docs
<1> QED BY <1>1 DEF Absent, Fresh, Entries, NoOp, Operations

\* Nothing is stored.
LEMMA CacheInitInv == CacheConfig /\ Init => CacheInv
<1> SUFFICES ASSUME CacheConfig, Init PROVE CacheInv
    OBVIOUS
<1>2. CacheTables
    BY CacheRecords DEF CacheConfig, Init, CacheTables
<1>3. \A c \in Clients : op[c].at = "idle"
    BY CacheRecords DEF Init
<1>4. TiersAgree /\ \A c \in Clients : InHand(c)
    BY CacheRecords, <1>3 DEF Init, TiersAgree, InHand
<1> QED BY CacheRecords, <1>2, <1>3, <1>4 DEF CacheInv, NoTable, Busy, Init

\* An operation of c moves on to what the record r says.
LEMMA OpSet ==
    ASSUME CacheTables, NEW c \in Clients, NEW r \in Operations, op' = [op EXCEPT ![c] = r]
    PROVE  op' \in [Clients -> Operations] /\ op'[c] = r /\ \A b \in Clients : b # c => op'[b] = op[b]
BY DEF CacheTables

\* After the map: on to the table, if there is one.
LEMMA ThenSet ==
    ASSUME CacheTables, NEW c \in Clients, NEW d \in Devices \union {""}, NEW n \in Docs,
           NEW label \in {"select", "upsert", "deleteRow", "deleteExpired", "clear"},
           label \in {"select", "upsert", "deleteRow"} => d \in Devices, Then(c, label, d, n)
    PROVE  /\ op' \in [Clients -> Operations]
           /\ enableSQLite => op'[c].at = label /\ op'[c].device = d /\ op'[c].doc = n
           /\ ~enableSQLite => op'[c].at = "idle"
           /\ \A b \in Clients : b # c => op'[b] = op[b]
<1>1. [at |-> label, device |-> d, doc |-> n] \in Operations
    BY DEF Operations
<1>2. CASE enableSQLite
  <2>1. op' = [op EXCEPT ![c] = [at |-> label, device |-> d, doc |-> n]]
      BY <1>2 DEF Then
  <2> QED BY <1>1, <1>2, <2>1, OpSet
<1>3. CASE ~enableSQLite
  <2>1. op' = [op EXCEPT ![c] = NoOp]
      BY <1>3 DEF Then
  <2> QED BY <1>3, <2>1, OpSet, CacheRecords
<1> QED BY <1>2, <1>3

\* With the other clients idle, only c can have a row due.
LEMMA OnlyOneDue ==
    ASSUME NEW c \in Clients, \A b \in Clients : b # c => ~Busy(b), TiersAgree
    PROVE  \A d \in Devices : table[d].doc \in {0, latest[d]} \/ RowDue(c, d)
BY DEF TiersAgree, RowDue, Busy

\* The hypotheses of a step of c while the others are idle, and what it has to keep.
Calm(c) ==
    /\ TiersAgree /\ InHand(c)
    /\ \A b \in Clients : b # c => ~Busy(b) /\ ~Busy(b)'
Kept == TiersAgree' /\ \A b \in Clients : InHand(b)'

\* If c leaves the tiers agreed, apart from its own row, and the others are idle, they agree.
LEMMA Settled ==
    ASSUME NEW c \in Clients, Calm(c), InHand(c)',
           \A d \in Devices : memory'[d].doc \in {0, latest'[d]},
           \A d \in Devices : table'[d].doc \in {0, latest'[d]} \/ RowDue(c, d)'
    PROVE  Kept
<1>1. ASSUME NEW b \in Clients, b # c PROVE InHand(b)'
    BY <1>1 DEF InHand, Busy, Calm
<1>2. TiersAgree'
    BY DEF TiersAgree
<1> QED BY <1>1, <1>2 DEF Kept

\* A step of c that leaves it idle has nothing in hand, and no row is due to it.
LEMMA IdleHand ==
    ASSUME NEW c \in Clients, op'[c].at = "idle"
    PROVE  InHand(c)' /\ \A d \in Devices : ~RowDue(c, d)'
BY DEF InHand, RowDue

\* Without SQLite no operation has more to do than its work on the map.
LEMMA NoTableKept ==
    ASSUME NoTable, UNCHANGED <<enableSQLite, table>>, NEW c \in Clients,
           \A b \in Clients : b # c => op'[b] = op[b],
           ~enableSQLite => op'[c].at = "idle"
    PROVE  NoTable'
BY DEF NoTable, Busy

\* A step on the table is not taken without SQLite.
LEMMA NoTableStep ==
    ASSUME NoTable, UNCHANGED enableSQLite, NEW c \in Clients, op[c].at # "idle"
    PROVE  enableSQLite /\ NoTable'
BY DEF NoTable, Busy

\* Get finds the document in the map.
LEMMA GetHitKeeps ==
    ASSUME CacheTables, NoTable, UNCHANGED enableSQLite, NEW c \in Clients, NEW d \in Devices, GetHit(c, d)
    PROVE  CacheTables' /\ NoTable' /\ (Calm(c) => Kept)
<1>1. UNCHANGED <<memory, table, sets, latest, op>> /\ op[c].at = "idle"
    BY DEF GetHit
<1>2. CacheTables' /\ NoTable'
    BY <1>1 DEF CacheTables, NoTable, Busy
<1>3. ASSUME Calm(c) PROVE Kept
  <2>1. \A e \in Devices : table[e].doc \in {0, latest[e]}
      BY <1>1, <1>3, OnlyOneDue DEF Calm, RowDue
  <2>2. \A e \in Devices : memory[e].doc \in {0, latest[e]}
      BY <1>3 DEF Calm, TiersAgree
  <2> QED BY <1>1, <1>3, <2>1, <2>2, IdleHand, Settled
<1> QED BY <1>2, <1>3

\* Get goes on to the table.
LEMMA GetMissKeeps ==
    ASSUME CacheTables, NoTable, UNCHANGED enableSQLite, NEW c \in Clients, NEW d \in Devices, GetMiss(c, d)
    PROVE  CacheTables' /\ NoTable' /\ (Calm(c) => Kept)
<1>1. UNCHANGED <<memory, table, sets, latest>> /\ op[c].at = "idle" /\ enableSQLite /\ Then(c, "select", d, 0)
    BY DEF GetMiss
<1>2. /\ op' \in [Clients -> Operations] /\ op'[c].at = "select" /\ op'[c].device = d
      /\ \A b \in Clients : b # c => op'[b] = op[b]
    BY <1>1, CacheRecords, ThenSet
<1>3. CacheTables' /\ NoTable'
    BY <1>1, <1>2, NoTableKept DEF CacheTables
<1>4. ASSUME Calm(c) PROVE Kept
  <2>1. \A e \in Devices : table[e].doc \in {0, latest[e]}
      BY <1>1, <1>4, OnlyOneDue DEF Calm, RowDue
  <2>2. \A e \in Devices : memory[e].doc \in {0, latest[e]}
      BY <1>4 DEF Calm, TiersAgree
  <2>3. InHand(c)'
      BY <1>2 DEF InHand
  <2> QED BY <1>1, <1>4, <2>1, <2>2, <2>3, Settled
<1> QED BY <1>3, <1>4

\* A valid row is the latest document.
LEMMA GetSelectKeeps ==
    ASSUME CacheTables, NoTable, UNCHANGED enableSQLite, NEW c \in Clients, GetSelect(c)
    PROVE  CacheTables' /\ NoTable' /\ (Calm(c) => Kept)
<1>1. UNCHANGED <<memory, table, sets, latest>> /\ op[c].at = "select"
    BY DEF GetSelect
<1> DEFINE d == op[c].device
           row == table[d]
           promote == [op[c] EXCEPT !.at = "promote", !.doc = row.doc]
<1>2. op[c] \in Operations /\ d \in Devices /\ row \in Entries
    BY <1>1 DEF CacheTables, Operations
<1>3. NoTable'
    BY <1>1, NoTableStep
<1>4. CASE Valid(row)
  <2>1. promote \in Operations /\ promote.at = "promote" /\ promote.device = d /\ promote.doc = row.doc
      BY <1>2, <1>4 DEF Operations, Entries, Valid
  <2>2. op' = [op EXCEPT ![c] = promote]
      BY <1>4 DEF GetSelect
  <2> HIDE DEF promote
  <2>3. op' \in [Clients -> Operations] /\ op'[c] = promote
      BY <2>1, <2>2, OpSet
  <2>4. ASSUME Calm(c) PROVE Kept
    <3>1. \A e \in Devices : table[e].doc \in {0, latest[e]}
        BY <1>1, <2>4, OnlyOneDue DEF Calm, RowDue
    <3>2. \A e \in Devices : memory[e].doc \in {0, latest[e]}
        BY <2>4 DEF Calm, TiersAgree
    <3>3. row.doc = latest[d]
        BY <1>2, <1>4, <3>1 DEF Valid
    <3>4. InHand(c)'
        BY <1>1, <2>1, <2>3, <3>3 DEF InHand
    <3> QED BY <1>1, <2>4, <3>1, <3>2, <3>4, Settled
  <2> QED BY <1>1, <1>3, <2>3, <2>4 DEF CacheTables
<1>5. CASE ~Valid(row)
  <2>1. op' = [op EXCEPT ![c] = NoOp]
      BY <1>5 DEF GetSelect
  <2>2. op' \in [Clients -> Operations] /\ op'[c].at = "idle"
      BY <2>1, CacheRecords, OpSet
  <2>3. ASSUME Calm(c) PROVE Kept
    <3>1. \A e \in Devices : table[e].doc \in {0, latest[e]}
        BY <1>1, <2>3, OnlyOneDue DEF Calm, RowDue
    <3>2. \A e \in Devices : memory[e].doc \in {0, latest[e]}
        BY <2>3 DEF Calm, TiersAgree
    <3> QED BY <1>1, <2>2, <2>3, <3>1, <3>2, IdleHand, Settled
  <2> QED BY <1>1, <1>3, <2>2, <2>3 DEF CacheTables
<1> QED BY <1>4, <1>5

\* The latest document goes into the map.
LEMMA GetPromoteKeeps ==
    ASSUME CacheTables, NoTable, UNCHANGED enableSQLite, NEW c \in Clients, GetPromote(c)
    PROVE  CacheTables' /\ NoTable' /\ (Calm(c) => Kept)
<1> DEFINE d == op[c].device
           n == op[c].doc
<1>1. /\ UNCHANGED <<table, sets, latest>> /\ op[c].at = "promote"
      /\ op' = [op EXCEPT ![c] = NoOp] /\ memory' = [memory EXCEPT ![d] = Fresh(n)]
    BY DEF GetPromote
<1>2. d \in Devices /\ n \in Docs
    BY <1>1 DEF CacheTables, Operations
<1>3. op' \in [Clients -> Operations] /\ op'[c].at = "idle"
    BY <1>1, CacheRecords, OpSet
<1>4. /\ memory' \in [Devices -> Entries] /\ memory'[d].doc = n
      /\ \A e \in Devices : e # d => memory'[e] = memory[e]
    BY <1>1, <1>2, CacheRecords DEF CacheTables
<1>5. NoTable'
    BY <1>1, NoTableStep
<1>6. ASSUME Calm(c) PROVE Kept
  <2>1. \A e \in Devices : table[e].doc \in {0, latest[e]}
      BY <1>1, <1>6, OnlyOneDue DEF Calm, RowDue
  <2>2. n = latest[d]
      BY <1>1, <1>6 DEF Calm, InHand
  <2>3. \A e \in Devices : memory'[e].doc \in {0, latest[e]}
      BY <1>4, <1>6, <2>2 DEF Calm, TiersAgree
  <2> QED BY <1>1, <1>3, <1>6, <2>1, <2>3, IdleHand, Settled
<1> QED BY <1>1, <1>3, <1>4, <1>5, <1>6 DEF CacheTables

\* Set: the map has the new document, and the old row is about to be overwritten.
LEMMA SetMemoryKeeps ==
    ASSUME CacheTables, NoTable, UNCHANGED enableSQLite, NEW c \in Clients, NEW d \in Devices, SetMemory(c, d)
    PROVE  CacheTables' /\ NoTable' /\ (Calm(c) => Kept)
<1> DEFINE gone == Evicted(recency)
<1>1. /\ UNCHANGED table /\ op[c].at = "idle" /\ sets' = sets + 1
      /\ memory' = [e \in Devices |-> IF e = d THEN Fresh(sets')
                                      ELSE IF e \in gone THEN Absent ELSE memory[e]]
      /\ latest' = [latest EXCEPT ![d] = sets'] /\ Then(c, "upsert", d, sets')
    BY DEF SetMemory
<1> HIDE DEF gone
<1>2. sets' \in Docs
    BY <1>1, CacheConfig DEF CacheTables, Docs, SetMemory
<1>3. /\ op' \in [Clients -> Operations] /\ \A b \in Clients : b # c => op'[b] = op[b]
      /\ enableSQLite => op'[c].at = "upsert" /\ op'[c].device = d /\ op'[c].doc = sets'
      /\ ~enableSQLite => op'[c].at = "idle"
    BY <1>1, <1>2, ThenSet
<1>4. /\ memory' \in [Devices -> Entries] /\ memory'[d].doc = sets'
      /\ \A e \in Devices : e # d => memory'[e].doc \in {0, memory[e].doc}
    BY <1>1, <1>2, CacheRecords DEF CacheTables
<1>5. /\ latest' \in [Devices -> Docs] /\ latest'[d] = sets'
      /\ \A e \in Devices : e # d => latest'[e] = latest[e]
    BY <1>1, <1>2 DEF CacheTables
<1>6. NoTable'
    BY <1>1, <1>3, NoTableKept
<1>7. ASSUME Calm(c) PROVE Kept
  <2>1. \A e \in Devices : e # d => table[e].doc \in {0, latest[e]}
      BY <1>1, <1>7, OnlyOneDue DEF Calm, RowDue
  <2>2. \A e \in Devices : memory'[e].doc \in {0, latest'[e]}
      BY <1>4, <1>5, <1>7 DEF Calm, TiersAgree
  <2>3. CASE enableSQLite
    <3>1. InHand(c)'
        BY <1>3, <1>5, <2>3 DEF InHand
    <3>2. RowDue(c, d)'
        BY <1>3, <2>3 DEF RowDue
    <3> QED BY <1>1, <1>5, <1>7, <2>1, <2>2, <3>1, <3>2, Settled
  <2>4. CASE ~enableSQLite
    <3>1. \A e \in Devices : table[e].doc = 0
        BY <2>4 DEF NoTable
    <3> QED BY <1>1, <1>3, <1>7, <2>2, <2>4, <3>1, IdleHand, Settled
  <2> QED BY <2>3, <2>4
<1> QED BY <1>1, <1>2, <1>3, <1>4, <1>5, <1>6, <1>7 DEF CacheTables

\* Set: the row has the document, too.
LEMMA SetTableKeeps ==
    ASSUME CacheTables, NoTable, UNCHANGED enableSQLite, NEW c \in Clients, SetTable(c)
    PROVE  CacheTables' /\ NoTable' /\ (Calm(c) => Kept)
<1> DEFINE d == op[c].device
           n == op[c].doc
<1>1. /\ UNCHANGED <<memory, sets, latest>> /\ op[c].at = "upsert"
      /\ op' = [op EXCEPT ![c] = NoOp] /\ table' = [table EXCEPT ![d] = Fresh(n)]
    BY DEF SetTable
<1>2. d \in Devices /\ n \in Docs
    BY <1>1 DEF CacheTables, Operations
<1>3. op' \in [Clients -> Operations] /\ op'[c].at = "idle"
    BY <1>1, CacheRecords, OpSet
<1>4. /\ table' \in [Devices -> Entries] /\ table'[d].doc = n
      /\ \A e \in Devices : e # d => table'[e] = table[e]
    BY <1>1, <1>2, CacheRecords DEF CacheTables
<1>5. NoTable'
    BY <1>1, NoTableStep
<1>6. ASSUME Calm(c) PROVE Kept
  <2>1. \A e \in Devices : e # d => table[e].doc \in {0, latest[e]}
      BY <1>1, <1>6, OnlyOneDue DEF Calm, RowDue
  <2>2. n = latest[d]
      BY <1>1, <1>6 DEF Calm, InHand
  <2>3. \A e \in Devices : memory[e].doc \in {0, latest[e]}
      BY <1>6 DEF Calm, TiersAgree
  <2> QED BY <1>1, <1>3, <1>4, <1>6, <2>1, <2>2, <2>3, IdleHand, Settled
<1> QED BY <1>1, <1>3, <1>4, <1>5, <1>6 DEF CacheTables

\* Delete: nothing is left in the map, and the row is about to go.
LEMMA DeleteMemoryKeeps ==
    ASSUME CacheTables, NoTable, UNCHANGED enableSQLite, NEW c \in Clients, NEW d \in Devices, DeleteMemory(c, d)
    PROVE  CacheTables' /\ NoTable' /\ (Calm(c) => Kept)
<1>1. /\ UNCHANGED <<table, sets>> /\ op[c].at = "idle"
      /\ memory' = [memory EXCEPT ![d] = Absent] /\ latest' = [latest EXCEPT ![d] = 0]
      /\ Then(c, "deleteRow", d, 0)
    BY DEF DeleteMemory
<1>2. /\ op' \in [Clients -> Operations] /\ \A b \in Clients : b # c => op'[b] = op[b]
      /\ enableSQLite => op'[c].at = "deleteRow" /\ op'[c].device = d
      /\ ~enableSQLite => op'[c].at = "idle"
    BY <1>1, CacheRecords, ThenSet
<1>3. /\ memory' \in [Devices -> Entries] /\ memory'[d].doc = 0
      /\ \A e \in Devices : e # d => memory'[e] = memory[e]
    BY <1>1, CacheRecords DEF CacheTables
<1>4. /\ latest' \in [Devices -> Docs] /\ latest'[d] = 0
      /\ \A e \in Devices : e # d => latest'[e] = latest[e]
    BY <1>1, CacheRecords DEF CacheTables
<1>5. NoTable'
    BY <1>1, <1>2, NoTableKept
<1>6. ASSUME Calm(c) PROVE Kept
  <2>1. \A e \in Devices : e # d => table[e].doc \in {0, latest[e]}
      BY <1>1, <1>6, OnlyOneDue DEF Calm, RowDue
  <2>2. \A e \in Devices : memory'[e].doc \in {0, latest'[e]}
      BY <1>3, <1>4, <1>6 DEF Calm, TiersAgree
  <2>3. CASE enableSQLite
    <3>1. InHand(c)' /\ RowDue(c, d)'
        BY <1>2, <1>4, <2>3 DEF InHand, RowDue
    <3> QED BY <1>1, <1>4, <1>6, <2>1, <2>2, <3>1, Settled
  <2>4. CASE ~enableSQLite
    <3>1. \A e \in Devices : table[e].doc = 0
        BY <2>4 DEF NoTable
    <3> QED BY <1>1, <1>2, <1>6, <2>2, <2>4, <3>1, IdleHand, Settled
  <2> QED BY <2>3, <2>4
<1> QED BY <1>1, <1>2, <1>3, <1>4, <1>5, <1>6, CacheRecords DEF CacheTables

\* Delete: the row is gone, too.
LEMMA DeleteTableKeeps ==
    ASSUME CacheTables, NoTable, UNCHANGED enableSQLite, NEW c \in Clients, DeleteTable(c)
    PROVE  CacheTables' /\ NoTable' /\ (Calm(c) => Kept)
<1> DEFINE d == op[c].device
<1>1. /\ UNCHANGED <<memory, sets, latest>> /\ op[c].at = "deleteRow"
      /\ op' = [op EXCEPT ![c] = NoOp] /\ table' = [table EXCEPT ![d] = Absent]
    BY DEF DeleteTable
<1>2. d \in Devices
    BY <1>1 DEF CacheTables, Operations
<1>3. op' \in [Clients -> Operations] /\ op'[c].at = "idle"
    BY <1>1, CacheRecords, OpSet
<1>4. /\ table' \in [Devices -> Entries] /\ table'[d].doc = 0
      /\ \A e \in Devices : e # d => table'[e] = table[e]
    BY <1>1, <1>2, CacheRecords DEF CacheTables
<1>5. NoTable'
    BY <1>1, NoTableStep
<1>6. ASSUME Calm(c) PROVE Kept
  <2>1. \A e \in Devices : e # d => table[e].doc \in {0, latest[e]}
      BY <1>1, <1>6, OnlyOneDue DEF Calm, RowDue
  <2>2. \A e \in Devices : memory[e].doc \in {0, latest[e]}
      BY <1>6 DEF Calm, TiersAgree
  <2> QED BY <1>1, <1>3, <1>4, <1>6, <2>1, <2>2, IdleHand, Settled
<1> QED BY <1>1, <1>3, <1>4, <1>5, <1>6 DEF CacheTables

\* DeleteExpired: entries of the map go, none comes.
LEMMA ExpiredMemoryKeeps ==
    ASSUME CacheTables, NoTable, UNCHANGED enableSQLite, NEW c \in Clients, ExpiredMemory(c)
    PROVE  CacheTables' /\ NoTable' /\ (Calm(c) => Kept)
<1>1. /\ UNCHANGED <<table, sets, latest>> /\ op[c].at = "idle"
      /\ memory' = [d \in Devices |-> IF memory[d].expired THEN Absent ELSE memory[d]]
      /\ Then(c, "deleteExpired", "", 0)
    BY DEF ExpiredMemory
<1>2. /\ op' \in [Clients -> Operations] /\ \A b \in Clients : b # c => op'[b] = op[b]
      /\ enableSQLite => op'[c].at = "deleteExpired"
      /\ ~enableSQLite => op'[c].at = "idle"
    BY <1>1, CacheRecords, ThenSet
<1>3. /\ memory' \in [Devices -> Entries]
      /\ \A e \in Devices : memory'[e].doc \in {0, memory[e].doc}
    BY <1>1, CacheRecords DEF CacheTables
<1>4. NoTable'
    BY <1>1, <1>2, NoTableKept
<1>5. ASSUME Calm(c) PROVE Kept
  <2>1. \A e \in Devices : table[e].doc \in {0, latest[e]}
      BY <1>1, <1>5, OnlyOneDue DEF Calm, RowDue
  <2>2. \A e \in Devices : memory'[e].doc \in {0, latest[e]}
      BY <1>3, <1>5 DEF Calm, TiersAgree
  <2>3. InHand(c)'
      BY <1>2 DEF InHand
  <2> QED BY <1>1, <1>5, <2>1, <2>2, <2>3, Settled
<1> QED BY <1>1, <1>2, <1>3, <1>4, <1>5, CacheRecords DEF CacheTables

\* DeleteExpired: rows go, none comes.
LEMMA ExpiredTableKeeps ==
    ASSUME CacheTables, NoTable, UNCHANGED enableSQLite, NEW c \in Clients, ExpiredTable(c)
    PROVE  CacheTables' /\ NoTable' /\ (Calm(c) => Kept)
<1>1. /\ UNCHANGED <<memory, sets, latest>> /\ op[c].at = "deleteExpired"
      /\ op' = [op EXCEPT ![c] = NoOp]
      /\ table' = [d \in Devices |-> IF table[d].expired THEN Absent ELSE table[d]]
    BY DEF ExpiredTable
<1>2. op' \in [Clients -> Operations] /\ op'[c].at = "idle"
    BY <1>1, CacheRecords, OpSet
<1>3. /\ table' \in [Devices -> Entries]
      /\ \A e \in Devices : table'[e].doc \in {0, table[e].doc}
    BY <1>1, CacheRecords DEF CacheTables
<1>4. NoTable'
    BY <1>1, NoTableStep
<1>5. ASSUME Calm(c) PROVE Kept
  <2>1. \A e \in Devices : table'[e].doc \in {0, latest[e]}
      BY <1>1, <1>3, <1>5, OnlyOneDue DEF Calm, RowDue
  <2>2. \A e \in Devices : memory[e].doc \in {0, latest[e]}
      BY <1>5 DEF Calm, TiersAgree
  <2> QED BY <1>1, <1>2, <1>5, <2>1, <2>2, IdleHand, Settled
<1> QED BY <1>1, <1>2, <1>3, <1>4, <1>5, CacheRecords DEF CacheTables

\* Clear: the map is empty and every row is about to go.
LEMMA ClearMemoryKeeps ==
    ASSUME CacheTables, NoTable, UNCHANGED enableSQLite, NEW c \in Clients, ClearMemory(c)
    PROVE  CacheTables' /\ NoTable' /\ (Calm(c) => Kept)
<1>1. /\ UNCHANGED <<table, sets>> /\ op[c].at = "idle"
      /\ memory' = [d \in Devices |-> Absent] /\ latest' = [d \in Devices |-> 0]
      /\ Then(c, "clear", "", 0)
    BY DEF ClearMemory
<1>2. /\ op' \in [Clients -> Operations] /\ \A b \in Clients : b # c => op'[b] = op[b]
      /\ enableSQLite => op'[c].at = "clear"
      /\ ~enableSQLite => op'[c].at = "idle"
    BY <1>1, CacheRecords, ThenSet
<1>3. /\ memory' \in [Devices -> Entries] /\ latest' \in [Devices -> Docs]
      /\ \A e \in Devices : memory'[e].doc = 0 /\ latest'[e] = 0
    BY <1>1, CacheRecords DEF CacheTables
<1>4. NoTable'
    BY <1>1, <1>2, NoTableKept
<1>5. ASSUME Calm(c) PROVE Kept
  <2>1. CASE enableSQLite
    <3>1. InHand(c)' /\ \A e \in Devices : RowDue(c, e)'
        BY <1>2, <1>3, <2>1 DEF InHand, RowDue
    <3> QED BY <1>3, <1>5, <3>1, Settled
  <2>2. CASE ~enableSQLite
    <3>1. \A e \in Devices : table[e].doc = 0
        BY <2>2 DEF NoTable
    <3> QED BY <1>1, <1>2, <1>3, <1>5, <2>2, <3>1, IdleHand, Settled
  <2> QED BY <2>1, <2>2
<1> QED BY <1>1, <1>2, <1>3, <1>4, <1>5, CacheRecords DEF CacheTables

\* Clear: the table is empty, too.
LEMMA ClearTableKeeps ==
    ASSUME CacheTables, NoTable, UNCHANGED enableSQLite, NEW c \in Clients, ClearTable(c)
    PROVE  CacheTables' /\ NoTable' /\ (Calm(c) => Kept)
<1>1. /\ UNCHANGED <<memory, sets, latest>> /\ op[c].at = "clear"
      /\ op' = [op EXCEPT ![c] = NoOp] /\ table' = [d \in Devices |-> Absent]
    BY DEF ClearTable
<1>2. op' \in [Clients -> Operations] /\ op'[c].at = "idle"
    BY <1>1, CacheRecords, OpSet
<1>3. table' \in [Devices -> Entries] /\ \A e \in Devices : table'[e].doc = 0
    BY <1>1, CacheRecords
<1>4. NoTable'
    BY <1>1, NoTableStep
<1>5. ASSUME Calm(c) PROVE Kept
  <2>1. \A e \in Devices : memory[e].doc \in {0, latest[e]}
      BY <1>5 DEF Calm, TiersAgree
  <2> QED BY <1>1, <1>2, <1>3, <1>5, <2>1, IdleHand, Settled
<1> QED BY <1>1, <1>2, <1>3, <1>4, <1>5, CacheRecords DEF CacheTables

\* Time marks an entry or a row as expired; the documents stay.
LEMMA TimeKeeps ==
    ASSUME CacheTables, NoTable, UNCHANGED enableSQLite, Time
    PROVE  /\ CacheTables' /\ NoTable' /\ UNCHANGED <<op, latest>>
           /\ \A e \in Devices : memory'[e].doc = memory[e].doc /\ table'[e].doc = table[e].doc
<1>1. PICK d \in Devices : MemoryExpires(d) \/ RowExpires(d)
    BY DEF Time
<1>2. UNCHANGED <<op, sets, latest>>
    BY <1>1 DEF MemoryExpires, RowExpires
<1>3. ASSUME NEW r \in Entries
      PROVE  [r EXCEPT !.expired = TRUE] \in Entries /\ [r EXCEPT !.expired = TRUE].doc = r.doc
    BY DEF Entries
<1>4. CASE MemoryExpires(d)
  <2>1. UNCHANGED table /\ memory' = [memory EXCEPT ![d] = [memory[d] EXCEPT !.expired = TRUE]]
      BY <1>4 DEF MemoryExpires
  <2>2. memory' \in [Devices -> Entries] /\ \A e \in Devices : memory'[e].doc = memory[e].doc
      BY <1>3, <2>1 DEF CacheTables
  <2> QED BY <1>2, <2>1, <2>2 DEF CacheTables, NoTable, Busy
<1>5. CASE RowExpires(d)
  <2>1. UNCHANGED memory /\ table' = [table EXCEPT ![d] = [table[d] EXCEPT !.expired = TRUE]]
      BY <1>5 DEF RowExpires
  <2>2. table' \in [Devices -> Entries] /\ \A e \in Devices : table'[e].doc = table[e].doc
      BY <1>3, <2>1 DEF CacheTables
  <2> QED BY <1>2, <2>1, <2>2 DEF CacheTables, NoTable, Busy
<1> QED BY <1>1, <1>4, <1>5

\* A client's operation changes no other's.
LEMMA OthersStay ==
    ASSUME CacheTables, NEW c \in Clients, Client(c)
    PROVE  \A b \in Clients : b # c => op'[b] = op[b]
BY DEF Client, CacheTables, Then, GetHit, GetMiss, GetSelect, GetPromote, SetMemory, SetTable,
       DeleteMemory, DeleteTable, ExpiredMemory, ExpiredTable, ClearMemory, ClearTable

\* Every operation keeps the tables what they are, and the tiers agreed.
LEMMA ClientKeeps ==
    ASSUME CacheTables, NoTable, UNCHANGED enableSQLite, NEW c \in Clients, Client(c)
    PROVE  CacheTables' /\ NoTable' /\ (Calm(c) => Kept)
<1>1. CASE \E d \in Devices : GetHit(c, d) \/ GetMiss(c, d) \/ SetMemory(c, d) \/ DeleteMemory(c, d)
    BY <1>1, GetHitKeeps, GetMissKeeps, SetMemoryKeeps, DeleteMemoryKeeps
<1>2. CASE GetSelect(c) \/ GetPromote(c) \/ SetTable(c) \/ DeleteTable(c)
    BY <1>2, GetSelectKeeps, GetPromoteKeeps, SetTableKeeps, DeleteTableKeeps
<1>3. CASE ExpiredMemory(c) \/ ExpiredTable(c) \/ ClearMemory(c) \/ ClearTable(c)
    BY <1>3, ExpiredMemoryKeeps, ExpiredTableKeeps, ClearMemoryKeeps, ClearTableKeeps
<1> QED BY <1>1, <1>2, <1>3 DEF Client

\* With SQLite every step but a hit belongs to an operation that has, or had, more to
\* do than its work on the map; without, nobody ever has.  So the others are idle
\* while an operation that overlaps with no other takes a step.
LEMMA OthersIdle ==
    ASSUME CacheTables, NoTable, UNCHANGED enableSQLite, NEW c \in Clients, Client(c), OneAtATime, OneAtATime'
    PROVE  \/ \A b \in Clients : b # c => ~Busy(b) /\ ~Busy(b)'
           \/ UNCHANGED <<memory, table, latest, op>>
<1>1. CASE \E d \in Devices : GetHit(c, d)
    BY <1>1 DEF GetHit
<1>2. CASE ~enableSQLite
    BY <1>2, OthersStay DEF NoTable, Busy
<1>3. CASE enableSQLite /\ ~\E d \in Devices : GetHit(c, d)
  <2>1. Busy(c) \/ Busy(c)'
    <3>1. CASE \E d \in Devices : GetMiss(c, d) \/ SetMemory(c, d) \/ DeleteMemory(c, d)
      <4>1. PICK d \in Devices : GetMiss(c, d) \/ SetMemory(c, d) \/ DeleteMemory(c, d)
          BY <3>1
      <4>3. Then(c, "select", d, 0) \/ (Then(c, "upsert", d, sets + 1) /\ sets < MaxSets) \/ Then(c, "deleteRow", d, 0)
          BY <4>1 DEF GetMiss, SetMemory, DeleteMemory
      <4>4. sets < MaxSets => sets + 1 \in Docs
          BY CacheConfig DEF CacheTables, Docs
      <4> QED BY <1>3, <4>3, <4>4, ThenSet, CacheRecords DEF Busy
    <3>2. CASE ExpiredMemory(c) \/ ClearMemory(c)
        BY <1>3, <3>2, ThenSet, CacheRecords DEF ExpiredMemory, ClearMemory, Busy
    <3>3. CASE \/ GetSelect(c) \/ GetPromote(c) \/ SetTable(c) \/ DeleteTable(c)
               \/ ExpiredTable(c) \/ ClearTable(c)
        BY <3>3 DEF GetSelect, GetPromote, SetTable, DeleteTable, ExpiredTable, ClearTable, Busy
    <3> QED BY <1>3, <3>1, <3>2, <3>3 DEF Client
  <2>2. \A b \in Clients : b # c => Busy(b)' = Busy(b)
      BY OthersStay DEF Busy
  <2> QED BY <2>1, <2>2 DEF OneAtATime
<1> QED BY <1>1, <1>2, <1>3

\* The cache keeps its invariant.
LEMMA CacheStep ==
    ASSUME CacheInv, [Next]_vars
    PROVE  CacheInv'
<1>1. CASE UNCHANGED vars
    BY <1>1 DEF vars, CacheInv, CacheTables, NoTable, TiersAgree, RowDue, InHand, OneAtATime, Busy
<1>2. CASE Next
  <2>1. UNCHANGED enableSQLite /\ CacheTables /\ NoTable
      BY <1>2 DEF Next, CacheInv
  <2>2. ASSUME ~overlapped' PROVE ~overlapped /\ OneAtATime /\ TiersAgree /\ \A b \in Clients : InHand(b)
      BY <1>2, <2>2 DEF Next, OneAtATime, CacheInv
  <2>3. CASE Time
    <3>1. /\ CacheTables' /\ NoTable' /\ UNCHANGED <<op, latest>>
          /\ \A e \in Devices : memory'[e].doc = memory[e].doc /\ table'[e].doc = table[e].doc
        BY <2>1, <2>3, TimeKeeps
    <3>2. ASSUME ~overlapped' PROVE Kept
        BY <2>2, <3>1, <3>2 DEF Kept, TiersAgree, RowDue, InHand
    <3> QED BY <3>1, <3>2 DEF CacheInv, Kept
  <2>4. CASE \E c \in Clients : Client(c)
    <3>1. PICK c \in Clients : Client(c)
        BY <2>4
    <3>2. CacheTables' /\ NoTable' /\ (Calm(c) => Kept)
        BY <2>1, <3>1, ClientKeeps
    <3>3. ASSUME ~overlapped', OneAtATime' PROVE Kept
      <4>1. CASE \A b \in Clients : b # c => ~Busy(b) /\ ~Busy(b)'
          BY <2>2, <3>2, <3>3, <4>1 DEF Calm
      <4>2. CASE UNCHANGED <<memory, table, latest, op>>
          BY <2>2, <3>3, <4>2 DEF Kept, TiersAgree, RowDue, InHand
      <4> QED BY <2>1, <2>2, <3>1, <3>3, <4>1, <4>2, OthersIdle
    <3> QED BY <3>2, <3>3 DEF CacheInv, Kept
  <2> QED BY <1>2, <2>3, <2>4 DEF Next
<1> QED BY <1>1, <1>2

\* Operations that followed one another leave the two tiers agreed: Get answers
\* with the document of the last Set or with nothing, for any number of clients,
\* devices and entries, with SQLite and without.
THEOREM LatestOrNothingAlways == Spec => []LatestOrNothing
<1>1. Init => CacheInv
    BY CacheConfig, CacheInitInv
<1>2. CacheInv /\ [Next]_vars => CacheInv'
    BY CacheStep
<1>3. CacheInv => LatestOrNothing
  <2> SUFFICES ASSUME CacheInv, ~overlapped, \A c \in Clients : ~Busy(c), NEW d \in Devices
               PROVE  WouldGet(d) \in {0, latest[d]}
      BY DEF LatestOrNothing
  <2>1. OneAtATime /\ \A c \in Clients : ~RowDue(c, d)
      BY DEF OneAtATime, RowDue, Busy
  <2>2. memory[d].doc \in {0, latest[d]} /\ table[d].doc \in {0, latest[d]}
      BY <2>1 DEF CacheInv, TiersAgree
  <2> QED BY <2>2 DEF WouldGet
<1> QED BY <1>1, <1>2, <1>3, PTL DEF Spec

-----------------------------------------------------------------------------
(* The map and its limit *)

\* The devices that are in the map.
Held == {d \in Devices : memory[d].doc # 0}

\* A device that is in the map is in the order of access, once.
Ordered == recency \in Seq(Devices) /\ IsInjective(recency) /\ ToSet(recency) = Held

\* Moving a device to the end of the order.
LEMMA TouchSet ==
    ASSUME NEW s \in Seq(Devices), IsInjective(s), NEW d \in Devices
    PROVE  /\ Touch(s, d) \in Seq(Devices) /\ IsInjective(Touch(s, d))
           /\ ToSet(Touch(s, d)) = ToSet(s) \union {d}
<1> DEFINE k == Keep(s, Devices \ {d})
<1>1. k \in Seq(Devices) /\ IsInjective(k) /\ ToSet(k) = ToSet(s) \intersect (Devices \ {d})
    BY KeepSet
<1>2. ToSet(s) \subseteq Devices
    BY DEF ToSet
<1> HIDE DEF k
<1>3. d \notin ToSet(k) /\ ToSet(k) \union {d} = ToSet(s) \union {d}
    BY <1>1, <1>2
<1>4. Touch(s, d) = Append(k, d)
    BY DEF Touch, k
<1> QED BY <1>1, <1>3, <1>4, AppendSet

\* Each operation of a client keeps the order of access.
LEMMA ClientOrder ==
    ASSUME CacheTables, Ordered, NEW c \in Clients, Client(c)
    PROVE  Ordered'
<1>1. recency \in Seq(Devices) /\ IsInjective(recency) /\ ToSet(recency) = Held
    BY DEF Ordered
<1>2. ASSUME UNCHANGED <<memory, recency>> PROVE Ordered'
    BY <1>2 DEF Ordered, Held
<1>3. ASSUME NEW d \in Devices, GetHit(c, d) PROVE Ordered'
  <2>1. recency' = Touch(recency, d) /\ UNCHANGED memory /\ memory[d].doc # 0
      BY <1>3 DEF GetHit, Valid
  <2>2. Held' = Held \union {d}
      BY <2>1 DEF Held
  <2> QED BY <1>1, <2>1, <2>2, TouchSet DEF Ordered
<1>4. ASSUME NEW d \in Devices, GetMiss(c, d) PROVE Ordered'
    BY <1>2, <1>4 DEF GetMiss
<1>5. ASSUME NEW d \in Devices, SetMemory(c, d) PROVE Ordered'
  <2> DEFINE gone == Evicted(recency)
             left == Keep(recency, Devices \ gone)
  <2>1. /\ recency' = Touch(left, d) /\ sets' = sets + 1 /\ sets < MaxSets
        /\ memory' = [e \in Devices |-> IF e = d THEN Fresh(sets')
                                        ELSE IF e \in gone THEN Absent ELSE memory[e]]
      BY <1>5 DEF SetMemory
  <2>2. left \in Seq(Devices) /\ IsInjective(left) /\ ToSet(left) = Held \intersect (Devices \ gone)
      BY <1>1, KeepSet
  <2>3. Fresh(sets').doc # 0 /\ Absent.doc = 0
    <3>1. sets' \in Docs /\ sets' # 0
        BY <2>1, CacheConfig DEF CacheTables, Docs
    <3> QED BY <3>1, CacheRecords
  <2> HIDE DEF gone, left
  <2>4. Held' = (Held \intersect (Devices \ gone)) \union {d}
      BY <2>1, <2>3 DEF Held
  <2> QED BY <2>1, <2>2, <2>4, TouchSet DEF Ordered
<1>6. ASSUME NEW d \in Devices, DeleteMemory(c, d) PROVE Ordered'
  <2>1. recency' = Keep(recency, Devices \ {d}) /\ memory' = [memory EXCEPT ![d] = Absent]
      BY <1>6 DEF DeleteMemory
  <2>2. Held' = Held \intersect (Devices \ {d})
      BY <2>1, CacheRecords DEF Held, CacheTables
  <2> QED BY <1>1, <2>1, <2>2, KeepSet DEF Ordered
<1>7. ASSUME GetPromote(c) PROVE Ordered'
  <2> DEFINE d == op[c].device
             others == Keep(recency, Devices \ {d})
  <2>1. /\ op[c].at = "promote" /\ memory' = [memory EXCEPT ![d] = Fresh(op[c].doc)]
        /\ \E i \in 1..(Len(others) + 1) : recency' = InsertAt(others, i, d)
      BY <1>7 DEF GetPromote
  <2>2. d \in Devices /\ op[c].doc \in Docs /\ op[c].doc # 0
      BY <2>1 DEF CacheTables, Operations
  <2>3. /\ others \in Seq(Devices) /\ IsInjective(others)
        /\ ToSet(others) = Held \intersect (Devices \ {d})
      BY <1>1, KeepSet
  <2> HIDE DEF d, others
  <2>4. Held' = (Held \intersect (Devices \ {d})) \union {d}
      BY <2>1, <2>2, CacheRecords DEF Held, CacheTables
  <2>5. PICK i \in 1..(Len(others) + 1) : recency' = InsertAt(others, i, d)
      BY <2>1
  <2>6. d \notin ToSet(others)
      BY <2>3
  <2> QED BY <2>2, <2>3, <2>4, <2>5, <2>6, InsertSet DEF Ordered
<1>8. ASSUME ExpiredMemory(c) PROVE Ordered'
  <2>1. /\ recency' = Keep(recency, {d \in Devices : ~memory[d].expired})
        /\ memory' = [d \in Devices |-> IF memory[d].expired THEN Absent ELSE memory[d]]
      BY <1>8 DEF ExpiredMemory
  <2>2. Held' = Held \intersect {d \in Devices : ~memory[d].expired}
      BY <2>1, CacheRecords DEF Held
  <2> QED BY <1>1, <2>1, <2>2, KeepSet DEF Ordered
<1>9. ASSUME ClearMemory(c) PROVE Ordered'
  <2>1. recency' = <<>> /\ memory' = [d \in Devices |-> Absent]
      BY <1>9 DEF ClearMemory
  <2>2. Held' = {}
      BY <2>1, CacheRecords DEF Held
  <2>3. recency' \in Seq(Devices) /\ IsInjective(recency') /\ ToSet(recency') = {}
      BY <2>1 DEF IsInjective, ToSet
  <2> QED BY <2>2, <2>3 DEF Ordered
<1>10. CASE GetSelect(c) \/ SetTable(c) \/ DeleteTable(c) \/ ExpiredTable(c) \/ ClearTable(c)
    BY <1>2, <1>10 DEF GetSelect, SetTable, DeleteTable, ExpiredTable, ClearTable
<1> QED BY <1>3, <1>4, <1>5, <1>6, <1>7, <1>8, <1>9, <1>10 DEF Client

\* Without SQLite an operation that adds a device to the map is a Set, which has made
\* room for it.
LEMMA ClientBound ==
    ASSUME CacheTables, NoTable, Ordered, ~enableSQLite, NEW c \in Clients, Client(c),
           Cardinality(Held) <= MaxMemoryItems
    PROVE  Cardinality(Held') <= MaxMemoryItems
<1>0. MaxMemoryItems \in Nat \ {0}
    BY CacheConfig
<1>1. recency \in Seq(Devices) /\ ToSet(recency) = Held
    BY DEF Ordered
<1>2. IsFiniteSet(Held) /\ Cardinality(Held) \in Nat /\ Cardinality(Held) <= Len(recency)
  <2>1. Len(recency) \in Nat /\ DOMAIN recency = 1..Len(recency)
      BY <1>1
  <2>2. recency \in Surjection(1..Len(recency), Held)
    <3>1. \A i \in 1..Len(recency) : recency[i] \in Held
        BY <1>1, <2>1 DEF ToSet
    <3>2. recency \in [1..Len(recency) -> Held]
        BY <1>1, <2>1, <3>1
    <3>3. \A e \in Held : \E i \in 1..Len(recency) : recency[i] = e
        BY <1>1, <2>1 DEF ToSet
    <3> QED BY <3>2, <3>3 DEF Surjection
  <2>3. IsFiniteSet(1..Len(recency)) /\ Cardinality(1..Len(recency)) = Len(recency)
    <3> DEFINE n == Len(recency)
    <3>1. n \in Nat /\ 1 \in Int /\ n \in Int
        BY <2>1
    <3> HIDE DEF n
    <3>2. IsFiniteSet(1..n) /\ Cardinality(1..n) = IF 1 > n THEN 0 ELSE n - 1 + 1
        BY <3>1, FS_Interval
    <3>3. Cardinality(1..n) = n
        BY <3>1, <3>2
    <3> QED BY <3>2, <3>3 DEF n
  <2>4. IsFiniteSet(Held) /\ Cardinality(Held) <= Cardinality(1..Len(recency))
      BY <2>2, <2>3, FS_Surjection
  <2> QED BY <2>3, <2>4, FS_CardinalityType
<1>3. ASSUME Held' \subseteq Held PROVE Cardinality(Held') <= MaxMemoryItems
  <2>1. IsFiniteSet(Held') /\ Cardinality(Held') <= Cardinality(Held)
      BY <1>2, <1>3, FS_Subset
  <2>2. Cardinality(Held') \in Nat
      BY <2>1, FS_CardinalityType
  <2> QED BY <1>0, <1>2, <2>1, <2>2
<1>4. ASSUME NEW d \in Devices, SetMemory(c, d) PROVE Cardinality(Held') <= MaxMemoryItems
  <2> DEFINE gone == Evicted(recency)
             rest == Held \ gone
  <2>1. memory' = [e \in Devices |-> IF e = d THEN Fresh(sets')
                                     ELSE IF e \in gone THEN Absent ELSE memory[e]]
      BY <1>4 DEF SetMemory
  <2>2. Held' \subseteq rest \union {d}
      BY <2>1, CacheRecords DEF Held
  <2>3. IsFiniteSet(rest) /\ Cardinality(rest) \in Nat /\ Cardinality(rest) < MaxMemoryItems
    <3>1. IsFiniteSet(rest) /\ Cardinality(rest) <= Cardinality(Held)
        BY <1>2, FS_Subset
    <3>2. Cardinality(rest) \in Nat
        BY <3>1, FS_CardinalityType
    <3>3. CASE Len(recency) < MaxMemoryItems
        BY <1>0, <1>1, <1>2, <3>1, <3>2, <3>3
    <3>4. CASE Len(recency) >= MaxMemoryItems
      <4> DEFINE oldest == recency[1]
                 n == EvictCount(Len(recency))
      <4>1. Len(recency) \in Nat \ {0}
          BY <1>0, <1>1, <3>4
      <4>2. n \in Nat /\ 1 <= n /\ n <= Len(recency)
          BY <4>1 DEF EvictCount
      <4>3. oldest \in Held
          BY <1>1, <4>1 DEF ToSet
      <4>4. gone = ToSet(SubSeq(recency, 1, n))
          BY <3>4 DEF Evicted
      <4>5. Len(SubSeq(recency, 1, n)) = n /\ SubSeq(recency, 1, n)[1] = oldest
            /\ SubSeq(recency, 1, n) \in Seq(Devices)
          BY <1>1, <4>1, <4>2
      <4>6. oldest \in gone
        <5> DEFINE s == SubSeq(recency, 1, n)
        <5>1. 1 \in DOMAIN s
            BY <4>2, <4>5
        <5> HIDE DEF s
        <5>2. s[1] \in ToSet(s)
            BY <5>1 DEF ToSet
        <5> QED BY <4>4, <4>5, <5>2 DEF s
      <4>7. rest \subseteq Held \ {oldest}
          BY <4>6
      <4>8. IsFiniteSet(Held \ {oldest}) /\ Cardinality(Held \ {oldest}) = Cardinality(Held) - 1
          BY <1>2, <4>3, FS_RemoveElement
      <4>9. Cardinality(rest) <= Cardinality(Held \ {oldest})
          BY <4>7, <4>8, FS_Subset
      <4> QED BY <1>0, <1>2, <3>1, <3>2, <4>8, <4>9
    <3> QED BY <1>0, <1>1, <3>3, <3>4
  <2> HIDE DEF rest, gone
  <2>4. /\ IsFiniteSet(rest \union {d})
        /\ Cardinality(rest \union {d}) = IF d \in rest THEN Cardinality(rest) ELSE Cardinality(rest) + 1
      BY <2>3, FS_AddElement
  <2>5. Cardinality(Held') <= Cardinality(rest \union {d}) /\ Cardinality(Held') \in Nat
      BY <2>2, <2>4, FS_Subset, FS_CardinalityType
  <2> QED BY <1>0, <2>3, <2>4, <2>5
<1>5. op[c].at = "idle"
    BY DEF NoTable, Busy
<1>6. CASE ~\E d \in Devices : SetMemory(c, d)
  <2>1. Held' \subseteq Held
      BY <1>5, <1>6, CacheRecords DEF Client, GetHit, GetMiss, DeleteMemory, GetSelect, GetPromote,
            SetTable, DeleteTable, ExpiredMemory, ExpiredTable, ClearMemory, ClearTable, Held,
            CacheTables
  <2> QED BY <1>3, <2>1
<1> QED BY <1>4, <1>6

\* The order of access always has the devices of the map, once each, and without
\* SQLite the map stays within its limit (Get, Set, evictOldest, Delete,
\* DeleteExpired, Clear), for any number of clients, devices and entries.
THEOREM CacheBoundedAlways == Spec => []CacheBounded
<1> DEFINE Inv == CacheInv /\ Ordered /\ MemoryBounded /\ overlapped \in BOOLEAN
<1>1. Init => Inv
  <2> SUFFICES ASSUME Init PROVE Inv
      OBVIOUS
  <2>1. Held = {}
      BY CacheRecords DEF Init, Held
  <2>2. Ordered
      BY <2>1 DEF Init, Ordered, IsInjective, ToSet
  <2>3. MemoryBounded
      BY <2>1, FS_EmptySet, CacheConfig DEF MemoryBounded, Held
  <2>4. overlapped \in BOOLEAN
      BY DEF Init
  <2> QED BY <2>2, <2>3, <2>4, CacheInitInv, CacheConfig
<1>2. Inv /\ [Next]_vars => Inv'
  <2> SUFFICES ASSUME Inv, [Next]_vars PROVE Inv'
      OBVIOUS
  <2>0. CacheTables /\ NoTable
      BY DEF CacheInv
  <2>1. CASE UNCHANGED vars
      BY <2>1, CacheStep DEF vars, Ordered, Held, MemoryBounded
  <2>4. ASSUME Next PROVE overlapped' \in BOOLEAN
    <3>1. overlapped' = (overlapped \/ \E b, c \in Clients : b # c /\ Busy(b) /\ Busy(c))
        BY <2>4, Zenon DEF Next
    <3> QED BY <3>1, Zenon
  <2>2. CASE Next /\ Time
    <3>1. UNCHANGED <<recency, enableSQLite>>
        BY <2>2 DEF Next, Time, MemoryExpires, RowExpires
    <3>2. \A e \in Devices : memory'[e].doc = memory[e].doc
        BY <2>0, <2>2, <3>1, TimeKeeps
    <3>3. Held' = Held
        BY <3>2 DEF Held
    <3> QED BY <2>2, <2>4, <3>1, <3>3, CacheStep DEF Ordered, MemoryBounded, Held
  <2>3. CASE Next /\ \E c \in Clients : Client(c)
    <3>1. PICK c \in Clients : Client(c)
        BY <2>3
    <3>2. UNCHANGED enableSQLite
        BY <2>3 DEF Next
    <3>3. Ordered'
        BY <2>0, <3>1, ClientOrder
    <3>4. MemoryBounded'
        BY <2>0, <3>1, <3>2, ClientBound DEF MemoryBounded, Held
    <3> QED BY <2>3, <2>4, <3>3, <3>4, CacheStep
  <2> QED BY <2>1, <2>2, <2>3 DEF Next
<1>3. Inv => CacheBounded
  <2> SUFFICES ASSUME Inv PROVE TypeOK
      BY DEF CacheBounded
  <2>1. /\ enableSQLite \in BOOLEAN /\ sets \in Docs
        /\ memory \in [Devices -> Entries] /\ table \in [Devices -> Entries]
        /\ latest \in [Devices -> Docs] /\ op \in [Clients -> Operations]
      BY DEF CacheInv, CacheTables
  <2>2. \A c \in Clients : op[c] \in Operations
      BY <2>1
  <2>3. \A c \in Clients :
          /\ op[c].at \in {"idle", "select", "promote", "upsert", "deleteRow", "deleteExpired", "clear"}
          /\ op[c].at \in {"select", "promote", "upsert", "deleteRow"} => op[c].device \in Devices
          /\ op[c].doc \in Docs
      BY <2>2 DEF Operations
  <2> QED BY <2>1, <2>3 DEF TypeOK, Ordered, Held, Docs, Entries
<1> QED BY <1>1, <1>2, <1>3, PTL DEF Spec

-----------------------------------------------------------------------------
(* The segment cache: the memory level *)

L1Entries == [stamp : Nat \ {0}, key : Keys, size : Nat, expired : BOOLEAN]

Calls ==
    [at : {"idle"}] \union [at : {"l2", "expired", "unlink"}, key : Keys]
      \union [at : {"touch"}, stamp : Nat]
      \union [at : {"write", "promote"}, key : Keys, size : 1..L2MaxSize]

\* No two elements of the list have the same stamp.
StampsApart(s) == \A i, j \in 1..Len(s) : i # j => s[i].stamp # s[j].stamp

\* List s and map f fit together: what the map refers to is listed, under its key.
Fitting(s, f) ==
    /\ s \in Seq(L1Entries) /\ StampsApart(s) /\ f \in [Keys -> Nat]
    /\ \A k \in Keys : f[k] # 0 => \E i \in 1..Len(s) : s[i].stamp = f[k] /\ s[i].key = k

\* The inductive invariant of the memory level.
L1Inv ==
    /\ Fitting(l1List, l1)
    /\ l1Size = Bytes(l1List)
    /\ L1Bounded

\* A list has a length and its elements have sizes.
LEMMA ListSized ==
    ASSUME NEW s \in Seq(L1Entries)
    PROVE  /\ Sized(s) /\ Len(s) \in Nat /\ DOMAIN s = 1..Len(s) /\ Bytes(s) \in Nat
           /\ \A i \in 1..Len(s) : s[i] \in L1Entries /\ s[i].size \in Nat /\ s[i].stamp \in Nat \ {0}
<1>1. Len(s) \in Nat /\ DOMAIN s = 1..Len(s) /\ \A i \in 1..Len(s) : s[i] \in L1Entries
    OBVIOUS
<1>2. \A e \in L1Entries : e.size \in Nat /\ e.stamp \in Nat \ {0}
    BY DEF L1Entries
<1>3. Sized(s)
    BY <1>1, <1>2 DEF Sized
<1> QED BY <1>1, <1>2, <1>3, BytesNat

\* Removing elements leaves the stamps apart.
LEMMA KeptApart ==
    ASSUME NEW s \in Seq(L1Entries), StampsApart(s), NEW S
    PROVE  Keep(s, S) \in Seq(L1Entries) /\ StampsApart(Keep(s, S))
<1> DEFINE k == Keep(s, S)
<1>1. k \in Seq(L1Entries)
    BY KeepSeq
<1>2. \A i \in 1..Len(k) : \E j \in 1..Len(s) : k[i] = s[j]
  <2>1. KeptOf(k, s, S)
      BY KeepElements
  <2> QED BY <2>1 DEF KeptOf
<1>3. \A i, j \in 1..Len(s) : i # j => s[i] # s[j]
    BY DEF StampsApart
<1>4. \A i, j \in 1..Len(k) : i # j => k[i] # k[j]
    BY <1>3, KeepApart
<1> HIDE DEF k
<1>5. ASSUME NEW i \in 1..Len(k), NEW j \in 1..Len(k), k[i].stamp = k[j].stamp PROVE i = j
  <2>1. PICK a \in 1..Len(s) : k[i] = s[a]
      BY <1>2
  <2>2. PICK b \in 1..Len(s) : k[j] = s[b]
      BY <1>2
  <2>3. a = b
      BY <1>5, <2>1, <2>2 DEF StampsApart
  <2> QED BY <1>4, <2>1, <2>2, <2>3
<1>6. StampsApart(k)
    BY <1>5 DEF StampsApart
<1> QED BY <1>1, <1>6 DEF k

\* The elements outside S are those in R, the map points to what is left, and the list
\* with its bytes is what is left of them.
Parts(s, S, R) == \A i \in 1..Len(s) : s[i] \in S <=> s[i] \notin R
PointsInto(g, f, s, S) ==
    \A k \in Keys : g[k] # 0 =>
      g[k] = f[k] /\ \A i \in 1..Len(s) : s[i].stamp = g[k] => s[i] \in S
Remains(u, s, R, g) ==
    /\ Fitting(u, g)
    /\ Bytes(u) = Bytes(s) - Bytes(Keep(s, R)) /\ Bytes(Keep(s, R)) \in Nat /\ Bytes(u) \in Nat
    /\ Len(u) = 0 => Bytes(u) = 0

\* Elements are removed that the map no longer refers to.
LEMMA Removal ==
    ASSUME NEW s, NEW f, Fitting(s, f), NEW S, NEW R, NEW g \in [Keys -> Nat],
           Parts(s, S, R), PointsInto(g, f, s, S)
    PROVE  Remains(Keep(s, S), s, R, g)
<1> DEFINE k == Keep(s, S)
           r == Keep(s, R)
<1>1. s \in Seq(L1Entries) /\ StampsApart(s) /\ Sized(s) /\ Bytes(s) \in Nat
    BY ListSized DEF Fitting
<1>2. k \in Seq(L1Entries) /\ StampsApart(k) /\ r \in Seq(L1Entries)
    BY <1>1, KeptApart
<1>3. Bytes(s) = Bytes(k) + Bytes(r)
  <2>1. \A i \in 1..Len(s) : s[i] \in S <=> s[i] \notin R
      BY DEF Parts
  <2> QED BY <1>1, <2>1, KeepBytes
<1>4. Bytes(k) \in Nat /\ Bytes(r) \in Nat
    BY <1>2, ListSized
<1>5. \A j \in 1..Len(s) : s[j] \in S => \E i \in 1..Len(k) : k[i] = s[j]
  <2>1. KeptOf(k, s, S)
      BY <1>1, KeepElements
  <2> QED BY <2>1 DEF KeptOf
<1> HIDE DEF k, r
<1>6. ASSUME NEW q \in Keys, g[q] # 0 PROVE \E i \in 1..Len(k) : k[i].stamp = g[q] /\ k[i].key = q
  <2>1. g[q] = f[q] /\ f[q] # 0
      BY <1>6 DEF PointsInto
  <2>2. PICK j \in 1..Len(s) : s[j].stamp = f[q] /\ s[j].key = q
      BY <2>1 DEF Fitting
  <2>3. s[j] \in S
      BY <1>6, <2>1, <2>2 DEF PointsInto
  <2> QED BY <1>5, <2>1, <2>2, <2>3
<1>7. Fitting(k, g)
    BY <1>2, <1>6 DEF Fitting
<1>8. ASSUME Len(k) = 0 PROVE Bytes(k) = 0
    BY <1>2, <1>8, BytesEmpty
<1>9. Bytes(k) = Bytes(s) - Bytes(r)
    BY <1>1, <1>3, <1>4
<1> QED BY <1>4, <1>7, <1>8, <1>9 DEF k, r, Remains

\* A slice of one element.
LEMMA BytesOne ==
    ASSUME NEW e \in L1Entries
    PROVE  Bytes(<<e>>) = e.size
<1>1. <<>> \in Seq(L1Entries) /\ Append(<<>>, e) = <<e>> /\ e.size \in Nat
    BY DEF L1Entries
<1>2. Sized(<<>>)
    BY <1>1, ListSized
<1>3. Bytes(Append(<<>>, e)) = Bytes(<<>>) + e.size
    BY <1>1, <1>2, BytesAppend
<1> QED BY <1>1, <1>3, BytesEmpty

\* An element that moves to the front: S leaves out what has its stamp, which is of its
\* key alone, and the map points to what it did, or to the element.
LeavesOut(s, S, e) == \A i \in 1..Len(s) : s[i] \in S <=> s[i].stamp # e.stamp
OfOneKey(s, e) == \A i \in 1..Len(s) : s[i].stamp = e.stamp => s[i].key = e.key
InFront(u, s, S, e, g) ==
    /\ Fitting(u, g) /\ Len(u) = 1 + Len(Keep(s, S))
    /\ \A j \in 1..Len(s) : s[j].stamp = e.stamp => Bytes(u) = Bytes(s) - s[j].size + e.size
    /\ (\A j \in 1..Len(s) : s[j].stamp # e.stamp) => Bytes(u) = Bytes(s) + e.size
PointsTo(g, f, e) == \A k \in Keys : g[k] # 0 => g[k] = f[k] \/ (k = e.key /\ g[k] = e.stamp)

\* The element with stamp st, wherever it was, is replaced by e at the front, to which
\* the map may refer from then on.
LEMMA ToFront ==
    ASSUME NEW s, NEW f, Fitting(s, f), NEW e \in L1Entries, NEW S, NEW g \in [Keys -> Nat],
           LeavesOut(s, S, e), OfOneKey(s, e), PointsTo(g, f, e)
    PROVE  InFront(<<e>> \o Keep(s, S), s, S, e, g)
<1> USE DEF LeavesOut, OfOneKey, PointsTo
<1> DEFINE k == Keep(s, S)
           u == <<e>> \o k
           R == {s[i] : i \in {n \in 1..Len(s) : s[n].stamp = e.stamp}}
<1>1. /\ s \in Seq(L1Entries) /\ StampsApart(s) /\ Sized(s) /\ Bytes(s) \in Nat
      /\ Len(s) \in Nat /\ \A i \in 1..Len(s) : s[i] \in L1Entries /\ s[i].size \in Nat
    BY ListSized DEF Fitting
<1>2. k \in Seq(L1Entries) /\ StampsApart(k) /\ Sized(k) /\ Bytes(k) \in Nat /\ Len(k) \in Nat
    BY <1>1, KeptApart, ListSized
<1>3. /\ \A i \in 1..Len(k) : k[i] \in S /\ \E j \in 1..Len(s) : k[i] = s[j]
      /\ \A j \in 1..Len(s) : s[j] \in S => \E i \in 1..Len(k) : k[i] = s[j]
  <2>1. KeptOf(k, s, S)
      BY <1>1, KeepElements
  <2> QED BY <2>1 DEF KeptOf
<1>4. e.size \in Nat /\ Bytes(u) = e.size + Bytes(k)
  <2>1. e.size \in Nat
      BY DEF L1Entries
  <2> QED BY <1>2, <2>1, BytesCons
<1>5. ASSUME NEW j \in 1..Len(s), s[j].stamp = e.stamp PROVE Bytes(k) = Bytes(s) - s[j].size
  <2>1. \A i \in 1..Len(s) : s[i] \in R <=> s[i].stamp = e.stamp
      OBVIOUS
  <2>2. \A i \in 1..Len(s) : s[i] \in S <=> s[i] \notin R
      BY <2>1
  <2>3. \A i \in 1..Len(s) : s[i] \in R <=> i = j
      BY <1>5, <2>1, <1>1 DEF StampsApart
  <2> HIDE DEF R
  <2>4. Keep(s, R) = <<s[j]>>
      BY <1>1, <2>3, KeepOne
  <2>5. Bytes(s) = Bytes(k) + Bytes(Keep(s, R))
      BY <1>1, <2>2, KeepBytes
  <2>6. Bytes(<<s[j]>>) = s[j].size
      BY <1>1, BytesOne
  <2> QED BY <1>1, <1>2, <2>4, <2>5, <2>6
<1>6. ASSUME \A j \in 1..Len(s) : s[j].stamp # e.stamp PROVE k = s
    BY <1>1, <1>6, KeepAll
<1> HIDE DEF k, R
<1>7. /\ u \in Seq(L1Entries) /\ Len(u) = 1 + Len(k) /\ u[1] = e
      /\ \A i \in 1..Len(k) : u[1 + i] = k[i]
    BY <1>2
<1> HIDE DEF u
<1>8. ASSUME NEW i \in 2..Len(u) PROVE i - 1 \in 1..Len(k) /\ u[i] = k[i - 1]
  <2>1. i - 1 \in 1..Len(k) /\ 1 + (i - 1) = i
      BY <1>2, <1>7
  <2> QED BY <1>7, <2>1
<1>9. StampsApart(u)
  <2> SUFFICES ASSUME NEW i \in 1..Len(u), NEW j \in 1..Len(u), i < j PROVE u[i].stamp # u[j].stamp
      BY <1>2, <1>7 DEF StampsApart
  <2>1. j \in 2..Len(u)
      BY <1>2, <1>7
  <2>2. CASE i = 1
    <3>1. j - 1 \in 1..Len(k)
        BY <1>8, <2>1
    <3>2. PICK a \in 1..Len(s) : k[j - 1] = s[a]
        BY <1>3, <3>1
    <3>3. k[j - 1] \in S
        BY <1>3, <3>1
    <3>4. s[a].stamp # e.stamp
        BY <3>2, <3>3
    <3> QED BY <1>7, <1>8, <2>1, <2>2, <3>2, <3>4
  <2>3. CASE i # 1
    <3>1. i \in 2..Len(u) /\ i - 1 # j - 1
        BY <1>2, <1>7, <2>3
    <3>2. k[i - 1].stamp # k[j - 1].stamp
        BY <1>2, <1>8, <2>1, <3>1 DEF StampsApart
    <3> QED BY <1>8, <2>1, <3>1, <3>2
  <2> QED BY <2>2, <2>3
<1>10. ASSUME NEW q \in Keys, g[q] # 0 PROVE \E i \in 1..Len(u) : u[i].stamp = g[q] /\ u[i].key = q
  <2>0. 1 \in 1..Len(u)
      BY <1>2, <1>7
  <2>1. CASE q = e.key /\ g[q] = e.stamp
      BY <1>7, <2>0, <2>1
  <2>2. CASE g[q] = f[q]
    <3>1. PICK j \in 1..Len(s) : s[j].stamp = g[q] /\ s[j].key = q
        BY <1>10, <2>2 DEF Fitting
    <3>2. CASE s[j].stamp = e.stamp
        BY <1>7, <2>0, <3>1, <3>2
    <3>3. CASE s[j].stamp # e.stamp
      <4>1. PICK i \in 1..Len(k) : k[i] = s[j]
          BY <1>3, <3>3
      <4>2. 1 + i \in 1..Len(u) /\ u[1 + i] = s[j]
          BY <1>2, <1>7, <4>1
      <4> QED BY <3>1, <4>2
    <3> QED BY <3>2, <3>3
  <2> QED BY <1>10, <2>1, <2>2
<1>11. Fitting(u, g)
    BY <1>7, <1>9, <1>10 DEF Fitting
<1>12. ASSUME NEW j \in 1..Len(s), s[j].stamp = e.stamp PROVE Bytes(u) = Bytes(s) - s[j].size + e.size
  <2>1. Bytes(k) = Bytes(s) - s[j].size /\ s[j].size \in Nat
      BY <1>1, <1>5, <1>12
  <2> QED BY <1>1, <1>2, <1>4, <2>1
<1>13. ASSUME \A j \in 1..Len(s) : s[j].stamp # e.stamp PROVE Bytes(u) = Bytes(s) + e.size
    BY <1>1, <1>2, <1>4, <1>6, <1>13
<1> QED BY <1>7, <1>11, <1>12, <1>13 DEF k, u, InFront

\* The element that a stamp in the list belongs to.
LEMMA EntryOf ==
    ASSUME Fitting(l1List, l1), NEW i \in 1..Len(l1List)
    PROVE  /\ InList(l1List[i].stamp) /\ Entry(l1List[i].stamp) = l1List[i]
           /\ l1List[i] \in Range(l1List)
<1>1. DOMAIN l1List = 1..Len(l1List)
    BY ListSized DEF Fitting
<1>2. l1List[i] \in Range(l1List)
    BY <1>1 DEF Range
<1>3. \A e \in Range(l1List) : e.stamp = l1List[i].stamp => e = l1List[i]
    BY <1>1 DEF Range, Fitting, StampsApart
<1> QED BY <1>2, <1>3 DEF InList, Entry

\* What a key in the map refers to.
LEMMA MappedEntry ==
    ASSUME Fitting(l1List, l1), NEW k \in Keys, l1[k] # Unmapped
    PROVE  \E i \in 1..Len(l1List) :
             /\ l1List[i].stamp = l1[k] /\ l1List[i].key = k
             /\ InList(l1[k]) /\ Entry(l1[k]) = l1List[i]
<1>1. PICK i \in 1..Len(l1List) : l1List[i].stamp = l1[k] /\ l1List[i].key = k
    BY DEF Fitting, Unmapped
<1> QED BY <1>1, EntryOf

\* The keys in the map are finitely many.
LEMMA FewKeys ==
    ASSUME NEW s, NEW f, Fitting(s, f)
    PROVE  /\ IsFiniteSet({k \in Keys : f[k] # Unmapped})
           /\ Cardinality({k \in Keys : f[k] # Unmapped}) \in Nat
<1> DEFINE K == {s[i].key : i \in 1..Len(s)}
           m == [i \in 1..Len(s) |-> s[i].key]
<1>1. Len(s) \in Nat
    BY ListSized DEF Fitting
<1>2. m \in Surjection(1..Len(s), K)
    BY DEF Surjection
<1>3. 1 \in Int /\ Len(s) \in Int
    BY <1>1
<1>4. IsFiniteSet(1..Len(s))
    BY <1>3, FS_Interval
<1>5. IsFiniteSet(K)
    BY <1>2, <1>4, FS_Surjection
<1>6. {k \in Keys : f[k] # Unmapped} \subseteq K
    BY DEF Fitting, Unmapped
<1> HIDE DEF K
<1>7. IsFiniteSet({k \in Keys : f[k] # Unmapped})
    BY <1>5, <1>6, FS_Subset
<1> QED BY <1>7, FS_CardinalityType

\* Fewer keys in the map.
LEMMA FewerKeys ==
    ASSUME NEW s, NEW f, Fitting(s, f), NEW g, \A k \in Keys : g[k] # Unmapped => f[k] # Unmapped,
           Cardinality({k \in Keys : f[k] # Unmapped}) <= L1MaxItems
    PROVE  Cardinality({k \in Keys : g[k] # Unmapped}) <= L1MaxItems
<1> DEFINE F == {k \in Keys : f[k] # Unmapped}
           G == {k \in Keys : g[k] # Unmapped}
<1>1. IsFiniteSet(F) /\ Cardinality(F) \in Nat
    BY FewKeys
<1>2. G \subseteq F
    OBVIOUS
<1>3. Cardinality(F) <= L1MaxItems
    OBVIOUS
<1> HIDE DEF F, G
<1>4. IsFiniteSet(G) /\ Cardinality(G) <= Cardinality(F)
    BY <1>1, <1>2, FS_Subset
<1>5. Cardinality(G) \in Nat
    BY <1>4, FS_CardinalityType
<1>6. L1MaxItems \in Nat
    BY SegmentConfig
<1>7. Cardinality(G) <= L1MaxItems
    BY <1>1, <1>3, <1>4, <1>5, <1>6
<1> QED BY <1>7 DEF G

\* The books after elements were removed that the map no longer refers to.
LEMMA RemovalKeeps ==
    ASSUME L1Inv, NEW S, NEW R, NEW g \in [Keys -> Nat],
           \A i \in 1..Len(l1List) : l1List[i] \in S <=> l1List[i] \notin R,
           \A k \in Keys : g[k] # 0 =>
               g[k] = l1[k] /\ \A i \in 1..Len(l1List) : l1List[i].stamp = g[k] => l1List[i] \in S,
           l1' = g, l1List' = Keep(l1List, S), l1Size' = l1Size - Bytes(Keep(l1List, R))
    PROVE  L1Inv'
<1>1. Fitting(l1List, l1) /\ l1Size = Bytes(l1List) /\ L1Bounded
    BY DEF L1Inv
<1>2. l1List \in Seq(L1Entries) /\ Len(l1List) \in Nat /\ Bytes(l1List) \in Nat
    BY <1>1, ListSized DEF Fitting
<1>3. /\ Fitting(l1List', l1')
      /\ Bytes(l1List') = Bytes(l1List) - Bytes(Keep(l1List, R))
      /\ Bytes(Keep(l1List, R)) \in Nat /\ Bytes(l1List') \in Nat
      /\ Len(l1List') = 0 => Bytes(l1List') = 0
  <2>1. Parts(l1List, S, R) /\ PointsInto(g, l1, l1List, S)
      BY DEF Parts, PointsInto
  <2>2. Remains(Keep(l1List, S), l1List, R, g)
      BY <1>1, <2>1, Removal
  <2> QED BY <2>2 DEF Remains
<1>4. Len(l1List') <= Len(l1List) /\ Len(l1List') \in Nat
    BY <1>2, KeepSeq
<1>5. l1Size' = Bytes(l1List')
    BY <1>1, <1>3
<1>6. l1Size' <= L1MaxSize \/ Len(l1List') = 1
  <2>0. L1MaxSize \in Nat
      BY SegmentConfig
  <2>1. CASE l1Size <= L1MaxSize
      BY <1>1, <1>2, <1>3, <1>5, <2>0, <2>1
  <2>2. CASE Len(l1List) = 1
    <3>1. CASE Len(l1List') = 0
      <4>1. l1Size' = 0
          BY <1>3, <1>5, <3>1
      <4> QED BY <2>0, <4>1
    <3>2. CASE Len(l1List') # 0
      <4> DEFINE n == Len(l1List')
      <4>1. n \in Nat /\ n <= 1 /\ n # 0
          BY <1>4, <2>2, <3>2
      <4> HIDE DEF n
      <4>2. n = 1
          BY <4>1
      <4> QED BY <4>2 DEF n
    <3> QED BY <3>1, <3>2
  <2> QED BY <1>1, <2>1, <2>2 DEF L1Bounded
<1>7. \A k \in Keys : l1'[k] # Unmapped => l1[k] # Unmapped
    BY DEF Unmapped
<1>8. Cardinality({k \in Keys : l1[k] # Unmapped}) <= L1MaxItems
    BY <1>1 DEF L1Bounded
<1>9. Cardinality({k \in Keys : l1'[k] # Unmapped}) <= L1MaxItems
    BY <1>1, <1>7, <1>8, FewerKeys
<1> QED BY <1>3, <1>5, <1>6, <1>9 DEF L1Inv, L1Bounded

\* deleteL1: what the key refers to is removed from map and list.
LEMMA DeleteKeeps ==
    ASSUME L1Inv, NEW k \in Keys, deleteL1(k)
    PROVE  L1Inv'
<1>1. Fitting(l1List, l1)
    BY DEF L1Inv
<1>2. CASE l1[k] = Unmapped
    BY <1>2 DEF deleteL1, L1Inv, L1Bounded
<1>3. CASE l1[k] # Unmapped
  <2> DEFINE S == {e \in Range(l1List) : e.stamp # l1[k]}
             R == {e \in Range(l1List) : e.stamp = l1[k]}
             g == [l1 EXCEPT ![k] = Unmapped]
  <2>1. l1Size' = l1Size - Entry(l1[k]).size /\ l1List' = Keep(l1List, S) /\ l1' = g
      BY <1>3 DEF deleteL1, Without
  <2>2. PICK j \in 1..Len(l1List) : l1List[j].stamp = l1[k] /\ l1List[j].key = k /\ Entry(l1[k]) = l1List[j]
      BY <1>1, <1>3, MappedEntry
  <2>3. /\ l1List \in Seq(L1Entries) /\ l1 \in [Keys -> Nat] /\ DOMAIN l1List = 1..Len(l1List)
        /\ l1List[j] \in L1Entries
      BY <1>1, ListSized DEF Fitting
  <2>4. g \in [Keys -> Nat] /\ g[k] = 0 /\ \A q \in Keys : q # k => g[q] = l1[q]
      BY <2>3 DEF Unmapped
  <2>5. \A i \in 1..Len(l1List) : l1List[i] \in Range(l1List)
      BY <2>3 DEF Range
  <2>6. \A i \in 1..Len(l1List) : l1List[i] \in S <=> l1List[i] \notin R
      BY <2>5
  <2>7. \A i \in 1..Len(l1List) : l1List[i] \in R <=> i = j
      BY <1>1, <2>2, <2>5 DEF Fitting, StampsApart
  <2>8. ASSUME NEW q \in Keys, g[q] # 0
        PROVE  g[q] = l1[q] /\ \A i \in 1..Len(l1List) : l1List[i].stamp = g[q] => l1List[i] \in S
    <3>1. q # k /\ g[q] = l1[q]
        BY <2>4, <2>8
    <3>2. PICK m \in 1..Len(l1List) : l1List[m].stamp = l1[q] /\ l1List[m].key = q
        BY <1>1, <2>8, <3>1 DEF Fitting
    <3>3. m # j
        BY <2>2, <3>1, <3>2
    <3>4. l1[q] # l1[k]
        BY <1>1, <2>2, <3>2, <3>3 DEF Fitting, StampsApart
    <3> QED BY <2>5, <3>1, <3>4
  <2> HIDE DEF S, R, g
  <2>9. Keep(l1List, R) = <<l1List[j]>>
      BY <2>3, <2>7, KeepOne
  <2>10. Bytes(Keep(l1List, R)) = Entry(l1[k]).size
      BY <2>2, <2>3, <2>9, BytesOne
  <2> QED BY <2>1, <2>4, <2>6, <2>8, <2>10, RemovalKeeps
<1> QED BY <1>2, <1>3

\* cleanupExpired: what the map refers to and has expired is removed from both.
LEMMA CleanupKeeps == ASSUME L1Inv, CleanupExpired PROVE L1Inv'
<1> DEFINE gone == {l1[k] : k \in {q \in Keys : l1[q] # Unmapped /\ Entry(l1[q]).expired}}
           R == {e \in Range(l1List) : e.stamp \in gone}
           S == Range(l1List) \ R
           g == [k \in Keys |-> IF l1[k] \in gone THEN Unmapped ELSE l1[k]]
<1>1. l1' = g /\ l1List' = Keep(l1List, S) /\ l1Size' = l1Size - Bytes(Keep(l1List, R))
    BY DEF CleanupExpired
<1>2. /\ l1 \in [Keys -> Nat] /\ DOMAIN l1List = 1..Len(l1List)
    BY ListSized DEF L1Inv, Fitting
<1>3. g \in [Keys -> Nat] /\ \A k \in Keys : g[k] # 0 => g[k] = l1[k] /\ g[k] \notin gone
    BY <1>2 DEF Unmapped
<1>4. \A i \in 1..Len(l1List) : l1List[i] \in Range(l1List)
    BY <1>2 DEF Range
<1> HIDE DEF gone, g
<1>5. \A i \in 1..Len(l1List) : l1List[i] \in S <=> l1List[i] \notin R
    BY <1>4
<1>6. \A k \in Keys : g[k] # 0 =>
        g[k] = l1[k] /\ \A i \in 1..Len(l1List) : l1List[i].stamp = g[k] => l1List[i] \in S
    BY <1>3, <1>4
<1> HIDE DEF R, S
<1> QED BY <1>1, <1>3, <1>5, <1>6, RemovalKeeps

\* The least of a set of natural numbers.
LEMMA LeastOf ==
    ASSUME NEW S, S \subseteq Nat, S # {}
    PROVE  Least(S) \in S /\ \A m \in S : Least(S) <= m
<1>1. \E n \in S : \A m \in S : n <= m
    BY LeastElement
<1> QED BY <1>1 DEF Least

\* As many values as a function has arguments, at most.
LEMMA FewValues ==
    ASSUME NEW D, IsFiniteSet(D), NEW f, DOMAIN f = D
    PROVE  /\ IsFiniteSet({f[x] : x \in D}) /\ Cardinality({f[x] : x \in D}) \in Nat
           /\ Cardinality({f[x] : x \in D}) <= Cardinality(D)
<1> DEFINE V == {f[x] : x \in D}
           h == [x \in D |-> f[x]]
<1>1. h \in Surjection(D, V)
    BY DEF Surjection
<1> HIDE DEF V, h
<1>2. IsFiniteSet(V) /\ Cardinality(V) <= Cardinality(D)
    BY <1>1, FS_Surjection
<1>3. Cardinality(V) \in Nat
    BY <1>2, FS_CardinalityType
<1> QED BY <1>2, <1>3 DEF V

\* There is a stamp that is not in use, since fewer are in use than are tried.
LEMMA Unused ==
    ASSUME Fitting(l1List, l1)
    PROVE  FreshStamp \in Nat \ {0} /\ \A i \in 1..Len(l1List) : l1List[i].stamp # FreshStamp
<1> DEFINE M == Len(l1List) + Cardinality(Callers) + 1
           D == {n \in 1..M : /\ ~InList(n)
                              /\ \A c \in Callers : call[c].at = "touch" => call[c].stamp # n}
           stampOf == [i \in 1..Len(l1List) |-> l1List[i].stamp]
           stampHeld == [c \in Callers |-> call[c].stamp]
           U == {stampOf[i] : i \in 1..Len(l1List)}
           V == {stampHeld[c] : c \in Callers}
<1>1. Len(l1List) \in Nat /\ IsFiniteSet(Callers) /\ Cardinality(Callers) \in Nat
    BY ListSized, SegmentConfig, FS_CardinalityType DEF Fitting
<1>2. FreshStamp = Least(D)
    BY DEF FreshStamp
<1>3. \A n \in 1..M : n \in D \/ n \in U \/ n \in V
    BY DEF InList
<1>4. /\ IsFiniteSet(1..Len(l1List))
      /\ Cardinality(1..Len(l1List)) = IF 1 > Len(l1List) THEN 0 ELSE Len(l1List) - 1 + 1
  <2>1. 1 \in Int /\ Len(l1List) \in Int
      BY <1>1
  <2> QED BY <2>1, FS_Interval
<1>5. Cardinality(1..Len(l1List)) = Len(l1List)
    BY <1>1, <1>4
<1>6. IsFiniteSet(U) /\ Cardinality(U) \in Nat /\ Cardinality(U) <= Len(l1List)
  <2>1. DOMAIN stampOf = 1..Len(l1List)
      OBVIOUS
  <2> HIDE DEF stampOf
  <2> QED BY <1>4, <1>5, <2>1, FewValues
<1>7. IsFiniteSet(V) /\ Cardinality(V) \in Nat /\ Cardinality(V) <= Cardinality(Callers)
  <2>1. DOMAIN stampHeld = Callers
      OBVIOUS
  <2> HIDE DEF stampHeld
  <2> QED BY <1>1, <2>1, FewValues
<1>8. M \in Nat /\ M = Len(l1List) + Cardinality(Callers) + 1
    BY <1>1
<1>9. D \subseteq Nat \ {0}
    BY <1>8
<1>10. \A n \in D : ~InList(n)
    OBVIOUS
<1> HIDE DEF M, D, U, V
<1>11. D # {}
  <2> SUFFICES ASSUME D = {} PROVE FALSE
      OBVIOUS
  <2>1. 1..M \subseteq U \union V
      BY <1>3
  <2>2. IsFiniteSet(U \union V)
        /\ Cardinality(U \union V) = Cardinality(U) + Cardinality(V) - Cardinality(U \intersect V)
      BY <1>6, <1>7, FS_Union
  <2>3. IsFiniteSet(U \intersect V)
      BY <1>6, FS_Intersection
  <2>4. Cardinality(U \intersect V) \in Nat
      BY <2>3, FS_CardinalityType
  <2>5. Cardinality(1..M) = IF 1 > M THEN 0 ELSE M - 1 + 1
    <3>1. 1 \in Int /\ M \in Int
        BY <1>8
    <3> QED BY <3>1, FS_Interval
  <2>6. Cardinality(1..M) <= Cardinality(U \union V)
      BY <2>1, <2>2, FS_Subset
  <2>7. Cardinality(1..M) = M
      BY <1>8, <2>5
  <2> QED BY <1>1, <1>6, <1>7, <1>8, <2>2, <2>4, <2>6, <2>7
<1>12. Least(D) \in D
    BY <1>9, <1>11, LeastOf
<1> QED BY <1>2, <1>9, <1>10, <1>12 DEF InList

\* getL1 moves a hit to the front, if it is still listed.
LEMMA TouchKeeps == ASSUME L1Inv, NEW c \in Callers, TouchHit(c) PROVE L1Inv'
<1>1. Fitting(l1List, l1) /\ l1Size = Bytes(l1List) /\ L1Bounded /\ UNCHANGED <<l1, l1Size>>
    BY DEF L1Inv, TouchHit
<1>2. CASE ~InList(call[c].stamp)
    BY <1>1, <1>2 DEF TouchHit, L1Inv, L1Bounded
<1>3. CASE InList(call[c].stamp)
  <2>1. PICK j \in 1..Len(l1List) : l1List[j].stamp = call[c].stamp
      BY <1>3 DEF InList
  <2> DEFINE e == l1List[j]
             S == {x \in Range(l1List) : x.stamp # call[c].stamp}
  <2>2. l1List' = <<e>> \o Keep(l1List, S)
      BY <1>1, <1>3, <2>1, EntryOf DEF TouchHit, Without
  <2>3. /\ l1List \in Seq(L1Entries) /\ l1 \in [Keys -> Nat] /\ DOMAIN l1List = 1..Len(l1List)
        /\ e \in L1Entries /\ e.size \in Nat /\ Bytes(l1List) \in Nat /\ Len(l1List) \in Nat
      BY <1>1, ListSized DEF Fitting
  <2>4. \A i \in 1..Len(l1List) : l1List[i] \in S <=> l1List[i].stamp # e.stamp
      BY <2>1, <2>3 DEF Range
  <2>5. \A i \in 1..Len(l1List) : l1List[i].stamp = e.stamp => l1List[i].key = e.key
      BY <1>1, <2>1 DEF Fitting, StampsApart
  <2>9. e.stamp = l1List[j].stamp /\ e.size = l1List[j].size
      OBVIOUS
  <2> HIDE DEF S, e
  <2>6. /\ Fitting(l1List', l1) /\ Len(l1List') = 1 + Len(Keep(l1List, S))
        /\ Bytes(l1List') = Bytes(l1List) - e.size + e.size
    <3> DEFINE u == <<e>> \o Keep(l1List, S)
    <3>1. LeavesOut(l1List, S, e) /\ OfOneKey(l1List, e) /\ PointsTo(l1, l1, e)
        BY <2>4, <2>5 DEF LeavesOut, OfOneKey, PointsTo
    <3>2. InFront(u, l1List, S, e, l1)
        BY <1>1, <2>3, <3>1, ToFront
    <3> HIDE DEF u
    <3>3. l1List' = u
        BY <2>2 DEF u
    <3> QED BY <2>9, <3>2, <3>3 DEF InFront
  <2>7. Bytes(l1List') = Bytes(l1List)
      BY <2>3, <2>6
  <2>8. ASSUME Len(l1List) = 1 PROVE Len(l1List') = 1
    <3>1. \A i \in 1..Len(l1List) : l1List[i] \notin S
        BY <2>4, <2>8, <2>9
    <3>2. Keep(l1List, S) = <<>>
        BY <2>3, <3>1, KeepNone
    <3> QED BY <2>6, <3>2
  <2> QED BY <1>1, <2>6, <2>7, <2>8 DEF L1Inv, L1Bounded
<1> QED BY <1>2, <1>3

\* Evictions leave list, map and size in accord.
LEMMA EvictionFits ==
    ASSUME Fitting(l1List, l1), l1Size = Bytes(l1List), NEW n \in 0..Len(l1List)
    PROVE  /\ Fitting(ListLess(n), MapLess(n)) /\ SizeLess(n) = Bytes(ListLess(n))
           /\ Len(ListLess(n)) = Len(l1List) - n
           /\ \A i \in 1..Len(ListLess(n)) : i \in 1..Len(l1List) /\ ListLess(n)[i] = l1List[i]
           /\ n = Len(l1List) => \A q \in Keys : MapLess(n)[q] = Unmapped
<1> DEFINE m == Len(l1List) - n
           t == ListLess(n)
           b == SubSeq(l1List, m + 1, Len(l1List))
<1>1. /\ l1List \in Seq(L1Entries) /\ StampsApart(l1List) /\ l1 \in [Keys -> Nat] /\ Sized(l1List)
      /\ Len(l1List) \in Nat /\ DOMAIN l1List = 1..Len(l1List)
    BY ListSized DEF Fitting
<1>2. m \in 0..Len(l1List)
    BY <1>1
<1>3. t = SubSeq(l1List, 1, m)
    BY DEF ListLess
<1>4. t \in Seq(L1Entries) /\ Len(t) = m /\ \A i \in 1..m : i \in 1..Len(l1List) /\ t[i] = l1List[i]
  <2> HIDE DEF t, b, m
  <2>1. Len(SubSeq(l1List, 1, m)) = m /\ SubSeq(l1List, 1, m) \in Seq(L1Entries)
      BY <1>1, <1>2
  <2>2. \A i \in 1..m : i \in 1..Len(l1List) /\ SubSeq(l1List, 1, m)[i] = l1List[i]
      BY <1>1, <1>2
  <2> QED BY <1>3, <2>1, <2>2
<1>5. Bytes(l1List) = Bytes(t) + Bytes(b)
    BY <1>1, <1>2, <1>3, BytesSplit
<1>6. SizeLess(n) = Bytes(t)
  <2>1. SizeLess(n) = l1Size - Bytes(b)
      BY DEF SizeLess
  <2>2. Bytes(t) \in Nat /\ Bytes(b) \in Nat
    <3>1. b \in Seq(L1Entries)
        BY <1>1, <1>2
    <3> QED BY <1>4, <3>1, ListSized
  <2> QED BY <1>5, <2>1, <2>2
<1> HIDE DEF t, b
<1>7. StampsApart(t)
    BY <1>1, <1>4 DEF StampsApart
<1>8. MapLess(n) \in [Keys -> Nat]
    BY <1>1 DEF MapLess, Unmapped
<1>9. ASSUME NEW q \in Keys, MapLess(n)[q] # Unmapped
      PROVE  \E i \in 1..Len(t) : t[i].stamp = MapLess(n)[q] /\ t[i].key = q
  <2>1. /\ MapLess(n)[q] = l1[q] /\ l1[q] # 0
        /\ \A i \in (m + 1)..Len(l1List) : l1List[i].key # q
      BY <1>9 DEF MapLess, Unmapped
  <2>2. PICK i \in 1..Len(l1List) : l1List[i].stamp = l1[q] /\ l1List[i].key = q
      BY <2>1 DEF Fitting
  <2>3. i \in 1..m
      BY <1>1, <1>2, <2>1, <2>2
  <2> QED BY <1>4, <2>1, <2>2, <2>3
<1>10. Fitting(t, MapLess(n))
    BY <1>4, <1>7, <1>8, <1>9 DEF Fitting, Unmapped
<1>11. ASSUME n = Len(l1List), NEW q \in Keys PROVE MapLess(n)[q] = Unmapped
    BY <1>1, <1>4, <1>9, <1>11
<1> QED BY <1>4, <1>6, <1>10, <1>11 DEF t

\* Evictions stop when the segment fits and the map has room, or nothing is left.
LEMMA EvictionEnds ==
    ASSUME Fitting(l1List, l1), NEW size
    PROVE  /\ EvictL1(size) \in 0..Len(l1List)
           /\ \/ EvictL1(size) = Len(l1List)
              \/ /\ SizeLess(EvictL1(size)) + size <= L1MaxSize
                 /\ Cardinality({q \in Keys : MapLess(EvictL1(size))[q] # Unmapped}) < L1MaxItems
<1> DEFINE P(n) == /\ SizeLess(n) + size <= L1MaxSize
                   /\ Cardinality({q \in Keys : MapLess(n)[q] # Unmapped}) < L1MaxItems
           D == {n \in 0..Len(l1List) : n = Len(l1List) \/ P(n)}
<1>1. Len(l1List) \in Nat
    BY ListSized DEF Fitting
<1>2. EvictL1(size) = Least(D)
    BY DEF EvictL1
<1>3. D \subseteq Nat /\ Len(l1List) \in D
    BY <1>1
<1>4. \A n \in D : n \in 0..Len(l1List) /\ (n = Len(l1List) \/ P(n))
    OBVIOUS
<1> HIDE DEF D
<1>5. Least(D) \in D
    BY <1>3, LeastOf
<1> QED BY <1>2, <1>4, <1>5

\* setL1: the new segment goes to the front, in place of what its key referred to.
LEMMA SetKeeps ==
    ASSUME L1Inv, NEW k \in Keys, NEW size \in Nat, setL1(k, size)
    PROVE  L1Inv'
<1> DEFINE n == EvictL1(size)
           t == ListLess(n)
           f == MapLess(n)
           z == SizeLess(n)
           old == f[k]
           stamp == IF old # Unmapped THEN old ELSE FreshStamp
           e == [stamp |-> stamp, key |-> k, size |-> size, expired |-> FALSE]
           S == {x \in Range(l1List) : x.stamp # stamp}
           u == <<e>> \o Keep(t, S)
           g == [f EXCEPT ![k] = stamp]
<1>1. /\ l1List' = u /\ l1' = g
      /\ l1Size' = z - (IF old # Unmapped THEN Entry(old).size ELSE 0) + size
    BY DEF setL1
<1>2. Fitting(l1List, l1) /\ l1Size = Bytes(l1List)
    BY DEF L1Inv
<1>3. n \in 0..Len(l1List)
      /\ (n = Len(l1List) \/ (z + size <= L1MaxSize /\ Cardinality({q \in Keys : f[q] # Unmapped}) < L1MaxItems))
    BY <1>2, EvictionEnds
<1> HIDE DEF n
<1>4. /\ Fitting(t, f) /\ z = Bytes(t) /\ Len(t) = Len(l1List) - n
      /\ \A i \in 1..Len(t) : i \in 1..Len(l1List) /\ t[i] = l1List[i]
      /\ n = Len(l1List) => \A q \in Keys : f[q] = Unmapped
    BY <1>2, <1>3, EvictionFits
<1> HIDE DEF t, f, z
<1>5. /\ t \in Seq(L1Entries) /\ f \in [Keys -> Nat] /\ Bytes(t) \in Nat /\ Len(t) \in Nat
      /\ DOMAIN l1List = 1..Len(l1List) /\ Len(l1List) \in Nat
      /\ \A i \in 1..Len(t) : t[i].size \in Nat
    BY <1>2, <1>4, ListSized DEF Fitting
<1>6. stamp \in Nat \ {0}
  <2>1. CASE old # Unmapped
      BY <1>5, <2>1 DEF Unmapped
  <2>2. CASE old = Unmapped
      BY <1>2, <2>2, Unused
  <2> QED BY <2>1, <2>2
<1>7. \A i \in 1..Len(t) : t[i].stamp = stamp => t[i].key = k
  <2>1. CASE old # Unmapped
    <3>1. PICK j \in 1..Len(t) : t[j].stamp = old /\ t[j].key = k
        BY <1>4, <2>1 DEF Fitting, Unmapped
    <3> QED BY <1>4, <2>1, <3>1 DEF Fitting, StampsApart
  <2>2. CASE old = Unmapped
      BY <1>2, <1>4, <2>2, Unused
  <2> QED BY <2>1, <2>2
<1>8. \A i \in 1..Len(t) : t[i] \in S <=> t[i].stamp # stamp
    BY <1>4, <1>5 DEF Range
<1>9. old # Unmapped => stamp = old
    OBVIOUS
<1>10. old = Unmapped => stamp = FreshStamp
    OBVIOUS
<1> HIDE DEF stamp, S
<1>11. /\ e \in L1Entries /\ e.stamp = stamp /\ e.key = k /\ e.size = size
    BY <1>6 DEF L1Entries
<1>12. /\ g \in [Keys -> Nat] /\ g[k] = stamp /\ \A q \in Keys : q # k => g[q] = f[q]
    BY <1>5, <1>6
<1> HIDE DEF e, g
<1>13. \A q \in Keys : g[q] # 0 => g[q] = f[q] \/ (q = e.key /\ g[q] = e.stamp)
    BY <1>11, <1>12
<1>14. /\ \A i \in 1..Len(t) : t[i] \in S <=> t[i].stamp # e.stamp
       /\ \A i \in 1..Len(t) : t[i].stamp = e.stamp => t[i].key = e.key
    BY <1>7, <1>8, <1>11
<1>15. /\ Fitting(u, g) /\ Len(u) = 1 + Len(Keep(t, S))
       /\ \A j \in 1..Len(t) : t[j].stamp = e.stamp => Bytes(u) = Bytes(t) - t[j].size + e.size
       /\ (\A j \in 1..Len(t) : t[j].stamp # e.stamp) => Bytes(u) = Bytes(t) + e.size
  <2>1. Fitting(t, f) /\ e \in L1Entries /\ g \in [Keys -> Nat]
      BY <1>4, <1>11, <1>12
  <2>2. LeavesOut(t, S, e) /\ OfOneKey(t, e) /\ PointsTo(g, f, e)
      BY <1>13, <1>14 DEF LeavesOut, OfOneKey, PointsTo
  <2>3. InFront(u, t, S, e, g)
      BY <2>1, <2>2, ToFront
  <2> HIDE DEF u
  <2> QED BY <2>3 DEF InFront
<1> HIDE DEF u
<1>16. l1Size' = Bytes(u) /\ Bytes(u) <= z + size /\ Bytes(u) \in Nat
  <2>0. Bytes(u) \in Nat
      BY <1>15, ListSized DEF Fitting
  <2>1. CASE old # Unmapped
    <3>1. PICK j \in 1..Len(t) : t[j].stamp = old /\ t[j].key = k
        BY <1>4, <2>1 DEF Fitting, Unmapped
    <3>2. t[j] = l1List[j] /\ j \in 1..Len(l1List)
        BY <1>4
    <3>3. Entry(old) = t[j]
        BY <1>2, <3>1, <3>2, EntryOf
    <3>4. Bytes(u) = Bytes(t) - t[j].size + size
        BY <1>9, <1>11, <1>15, <2>1, <3>1
    <3>5. l1Size' = z - t[j].size + size
        BY <1>1, <2>1, <3>3
    <3>6. t[j].size \in Nat
        BY <1>5
    <3> QED BY <1>4, <1>5, <2>0, <3>4, <3>5, <3>6
  <2>2. CASE old = Unmapped
    <3>1. \A j \in 1..Len(t) : t[j].stamp # e.stamp
        BY <1>2, <1>4, <1>10, <1>11, <2>2, Unused
    <3>2. Bytes(u) = Bytes(t) + size
        BY <1>11, <1>15, <3>1
    <3>3. l1Size' = z - 0 + size
        BY <1>1, <2>2
    <3> QED BY <1>4, <1>5, <2>0, <3>2, <3>3
  <2> QED BY <2>1, <2>2
<1>17. l1Size' <= L1MaxSize \/ Len(l1List') = 1
  <2>0. L1MaxSize \in Nat
      BY SegmentConfig
  <2>1. CASE n = Len(l1List)
    <3>1. Len(t) = 0
        BY <1>4, <1>5, <2>1
    <3>2. \A i \in 1..Len(t) : t[i] \notin S
        BY <3>1
    <3>3. Keep(t, S) = <<>>
        BY <1>5, <3>2, KeepNone
    <3> QED BY <1>1, <1>15, <3>3
  <2>2. CASE z + size <= L1MaxSize
      BY <1>4, <1>5, <1>16, <2>0, <2>2
  <2> QED BY <1>3, <2>1, <2>2
<1>18. Cardinality({q \in Keys : l1'[q] # Unmapped}) <= L1MaxItems
  <2> DEFINE F == {q \in Keys : f[q] # Unmapped}
             G == {q \in Keys : g[q] # Unmapped}
  <2>0. L1MaxItems \in Nat \ {0}
      BY SegmentConfig
  <2>1. G = F \union {k}
      BY <1>6, <1>12 DEF Unmapped
  <2>2. IsFiniteSet(F) /\ Cardinality(F) \in Nat
      BY <1>4, FewKeys
  <2>3. Cardinality(F) < L1MaxItems
    <3>1. CASE n = Len(l1List)
      <4>1. F = {}
          BY <1>4, <3>1
      <4>2. Cardinality(F) = 0
          BY <4>1, FS_EmptySet
      <4> QED BY <2>0, <4>2
    <3>2. CASE n # Len(l1List)
        BY <1>3, <3>2
    <3> QED BY <3>1, <3>2
  <2> HIDE DEF F, G
  <2>4. Cardinality(F \union {k}) = IF k \in F THEN Cardinality(F) ELSE Cardinality(F) + 1
      BY <2>2, FS_AddElement
  <2>5. Cardinality(G) <= L1MaxItems
      BY <2>0, <2>1, <2>2, <2>3, <2>4
  <2> QED BY <1>1, <2>5 DEF G
<1> QED BY <1>1, <1>15, <1>16, <1>17, <1>18 DEF L1Inv, L1Bounded

\* What a call still knows.
LEMMA CallFields ==
    ASSUME NEW r \in Calls
    PROVE  /\ r.at \in {"l2", "expired", "unlink"} => r.key \in Keys
           /\ r.at \in {"write", "promote"} => r.key \in Keys /\ r.size \in 1..L2MaxSize
BY DEF Calls

-----------------------------------------------------------------------------
(* The segment cache: the disk level *)

Files == [key : Keys, size : 1..L2MaxSize, expired : BOOLEAN]

\* There is one file to a key.
KeysApart(s) == \A i, j \in 1..Len(s) : i # j => s[i].key # s[j].key

\* What the limit allows in addition after the restarts so far.
Allowance == restarts * L2MaxSize

\* The inductive invariant of the disk level.  l2Size may count more than there is,
\* and after restarts less, but by no more than the files that were forgotten.
DiskInv ==
    /\ disk \in Seq(Files) /\ KeysApart(disk)
    /\ l2Size \in Int /\ restarts \in Nat
    /\ Bytes(disk) <= l2Size + Allowance
    /\ Bytes(disk) <= Allowance + L2MaxSize

SegmentInv == L1Inv /\ DiskInv /\ call \in [Callers -> Calls]

\* Files have sizes.
LEMMA FilesSized ==
    ASSUME NEW s \in Seq(Files)
    PROVE  /\ Sized(s) /\ Len(s) \in Nat /\ DOMAIN s = 1..Len(s) /\ Bytes(s) \in Nat
           /\ \A i \in 1..Len(s) : s[i] \in Files /\ s[i].size \in Nat
<1>1. Len(s) \in Nat /\ DOMAIN s = 1..Len(s) /\ \A i \in 1..Len(s) : s[i] \in Files
    OBVIOUS
<1>2. \A f \in Files : f.size \in Nat
    BY SegmentConfig DEF Files
<1>3. Sized(s)
    BY <1>1, <1>2 DEF Sized
<1> QED BY <1>1, <1>2, <1>3, BytesNat

\* Removing files.
LEMMA FilesKept ==
    ASSUME NEW s \in Seq(Files), KeysApart(s), NEW S, NEW R,
           \A i \in 1..Len(s) : s[i] \in S <=> s[i] \notin R
    PROVE  /\ Keep(s, S) \in Seq(Files) /\ KeysApart(Keep(s, S))
           /\ Bytes(Keep(s, S)) \in Nat /\ Bytes(Keep(s, R)) \in Nat
           /\ Bytes(s) = Bytes(Keep(s, S)) + Bytes(Keep(s, R))
<1> DEFINE k == Keep(s, S)
<1>0. Sized(s)
    BY FilesSized
<1>1. k \in Seq(Files) /\ Keep(s, R) \in Seq(Files)
    BY KeepSeq
<1>2. \A i \in 1..Len(k) : \E j \in 1..Len(s) : k[i] = s[j]
  <2>1. KeptOf(k, s, S)
      BY KeepElements
  <2> QED BY <2>1 DEF KeptOf
<1>3. \A i, j \in 1..Len(s) : i # j => s[i] # s[j]
    BY DEF KeysApart
<1>4. \A i, j \in 1..Len(k) : i # j => k[i] # k[j]
    BY <1>3, KeepApart
<1>5. Bytes(s) = Bytes(k) + Bytes(Keep(s, R))
    BY <1>0, KeepBytes
<1> HIDE DEF k
<1>6. ASSUME NEW i \in 1..Len(k), NEW j \in 1..Len(k), k[i].key = k[j].key PROVE i = j
  <2>1. PICK a \in 1..Len(s) : k[i] = s[a]
      BY <1>2
  <2>2. PICK b \in 1..Len(s) : k[j] = s[b]
      BY <1>2
  <2>3. a = b
      BY <1>6, <2>1, <2>2 DEF KeysApart
  <2> QED BY <1>4, <2>1, <2>2, <2>3
<1>7. KeysApart(k)
    BY <1>6 DEF KeysApart
<1>8. Bytes(k) \in Nat /\ Bytes(Keep(s, R)) \in Nat
    BY <1>1, FilesSized
<1> QED BY <1>1, <1>5, <1>7, <1>8 DEF k

\* The files but that of a key, and what it took.
LEMMA WithoutFile ==
    ASSUME DiskInv, NEW k
    PROVE  /\ NoFile(k) \in Seq(Files) /\ KeysApart(NoFile(k)) /\ Bytes(NoFile(k)) \in Nat
           /\ Bytes(NoFile(k)) <= Bytes(disk)
           /\ OnDisk(k) => /\ File(k) \in Files
                           /\ Bytes(NoFile(k)) = Bytes(disk) - File(k).size
<1> DEFINE S == {f \in Range(disk) : f.key # k}
           R == {f \in Range(disk) : f.key = k}
<1>1. /\ disk \in Seq(Files) /\ KeysApart(disk) /\ DOMAIN disk = 1..Len(disk)
      /\ Bytes(disk) \in Nat /\ \A i \in 1..Len(disk) : disk[i] \in Files /\ disk[i].size \in Nat
    BY FilesSized DEF DiskInv
<1>2. \A i \in 1..Len(disk) : disk[i] \in Range(disk)
    BY <1>1 DEF Range
<1>3. \A i \in 1..Len(disk) : disk[i] \in S <=> disk[i] \notin R
    BY <1>2
<1>4. NoFile(k) = Keep(disk, S)
    BY DEF NoFile
<1>5. \A i \in 1..Len(disk) : disk[i] \in R <=> disk[i].key = k
    BY <1>2
<1> HIDE DEF S, R
<1>6. /\ NoFile(k) \in Seq(Files) /\ KeysApart(NoFile(k)) /\ Bytes(NoFile(k)) \in Nat
      /\ Bytes(Keep(disk, R)) \in Nat /\ Bytes(disk) = Bytes(NoFile(k)) + Bytes(Keep(disk, R))
    BY <1>1, <1>3, <1>4, FilesKept
<1>7. ASSUME OnDisk(k) PROVE File(k) \in Files /\ Bytes(Keep(disk, R)) = File(k).size
  <2>1. PICK j \in 1..Len(disk) : disk[j].key = k
      BY <1>7 DEF OnDisk
  <2>2. File(k) = disk[j]
    <3>1. \A f \in Range(disk) : f.key = k => f = disk[j]
        BY <1>1, <2>1 DEF Range, KeysApart
    <3> QED BY <1>2, <2>1, <3>1 DEF File
  <2>3. \A i \in 1..Len(disk) : disk[i] \in R <=> i = j
      BY <1>1, <1>5, <2>1 DEF KeysApart
  <2>4. Keep(disk, R) = <<disk[j]>>
      BY <1>1, <2>3, KeepOne
  <2>5. Bytes(<<disk[j]>>) = disk[j].size
    <3>1. <<>> \in Seq(Files) /\ Append(<<>>, disk[j]) = <<disk[j]>>
        BY <1>1
    <3>2. Sized(<<>>)
        BY <3>1, FilesSized
    <3>3. Bytes(Append(<<>>, disk[j])) = Bytes(<<>>) + disk[j].size
        BY <1>1, <3>1, <3>2, BytesAppend
    <3> QED BY <1>1, <3>1, <3>3, BytesEmpty
  <2> QED BY <1>1, <2>2, <2>4, <2>5
<1>8. Bytes(NoFile(k)) <= Bytes(disk)
    BY <1>1, <1>6
<1>9. ASSUME OnDisk(k) PROVE File(k) \in Files /\ Bytes(NoFile(k)) = Bytes(disk) - File(k).size
    BY <1>1, <1>6, <1>7, <1>9
<1> QED BY <1>6, <1>8, <1>9

\* The limits as numbers.
LEMMA Limits ==
    ASSUME restarts \in Nat
    PROVE  /\ Allowance \in Nat /\ L2MaxSize \in Nat
           /\ (restarts + 1) * L2MaxSize = Allowance + L2MaxSize
BY SegmentConfig DEF Allowance

\* Files go, and no more is subtracted from l2Size than they took.
LEMMA FilesGone ==
    ASSUME DiskInv, UNCHANGED restarts, disk' \in Seq(Files), KeysApart(disk'), l2Size' \in Int,
           Bytes(disk') <= Bytes(disk), l2Size - l2Size' <= Bytes(disk) - Bytes(disk')
    PROVE  DiskInv'
<1>1. Bytes(disk) \in Nat /\ Bytes(disk') \in Nat
    BY FilesSized DEF DiskInv
<1>2. Allowance' = Allowance
    BY DEF Allowance
<1>3. Allowance \in Nat /\ L2MaxSize \in Nat
    BY Limits DEF DiskInv
<1>4. /\ l2Size \in Int /\ restarts \in Nat
      /\ Bytes(disk) <= l2Size + Allowance /\ Bytes(disk) <= Allowance + L2MaxSize
    BY DEF DiskInv
<1>5. Bytes(disk') <= l2Size' + Allowance
    BY <1>1, <1>3, <1>4
<1>6. Bytes(disk') <= Allowance + L2MaxSize
    BY <1>1, <1>3, <1>4
<1> QED BY <1>2, <1>4, <1>5, <1>6 DEF DiskInv

\* getL2 and deleteL2 remove the file of a key; the latter subtracts its size.
LEMMA FileRemovals ==
    ASSUME DiskInv, UNCHANGED restarts, NEW k, disk' = NoFile(k),
           l2Size' = l2Size \/ (OnDisk(k) /\ l2Size' = l2Size - File(k).size)
    PROVE  DiskInv'
<1>1. /\ disk' \in Seq(Files) /\ KeysApart(disk') /\ Bytes(disk') \in Nat
      /\ Bytes(disk') <= Bytes(disk)
    BY WithoutFile
<1>2. Bytes(disk) \in Nat /\ l2Size \in Int
    BY FilesSized DEF DiskInv
<1>3. CASE l2Size' = l2Size
    BY <1>1, <1>2, <1>3, FilesGone
<1>4. CASE OnDisk(k) /\ l2Size' = l2Size - File(k).size
  <2>1. File(k) \in Files /\ Bytes(disk') = Bytes(disk) - File(k).size
      BY <1>4, WithoutFile
  <2>2. File(k).size \in Nat
      BY <2>1, SegmentConfig DEF Files
  <2>3. l2Size' \in Int /\ l2Size - l2Size' <= Bytes(disk) - Bytes(disk')
      BY <1>1, <1>2, <1>4, <2>1, <2>2
  <2> QED BY <1>1, <2>3, FilesGone
<1> QED BY <1>3, <1>4

\* setL2: evictions stop when the segment fits or no file is left, which is why it is
\* within the limit either way.
LEMMA SetL2Keeps ==
    ASSUME DiskInv, UNCHANGED restarts, call \in [Callers -> Calls], NEW c \in Callers, SetL2(c)
    PROVE  DiskInv'
<1> DEFINE k == call[c].key
           size == call[c].size
           n == EvictL2(size)
           left == SubSeq(disk, n + 1, Len(disk))
           S == {f \in Range(disk) : f.key # k}
           R == {f \in Range(disk) : f.key = k}
           rest == Keep(left, S)
           freed == Bytes(SubSeq(disk, 1, n))
           new == [key |-> k, size |-> size, expired |-> FALSE]
<1>1. /\ call[c].at = "write"
      /\ \/ disk' = Append(rest, new) /\ l2Size' = l2Size - freed + size
         \/ disk' \in {left, rest} /\ l2Size' = l2Size - freed
    BY DEF SetL2
<1>2. k \in Keys /\ size \in 1..L2MaxSize
    BY <1>1, CallFields
<1>3. /\ disk \in Seq(Files) /\ KeysApart(disk) /\ Sized(disk) /\ Len(disk) \in Nat
      /\ DOMAIN disk = 1..Len(disk) /\ Bytes(disk) \in Nat /\ l2Size \in Int
    BY FilesSized DEF DiskInv
<1>4. n \in 0..Len(disk) /\ (n = Len(disk) \/ l2Size - freed + size <= L2MaxSize)
  <2> DEFINE P(m) == l2Size - Bytes(SubSeq(disk, 1, m)) + size <= L2MaxSize
             D == {m \in 0..Len(disk) : m = Len(disk) \/ P(m)}
  <2>1. n = Least(D)
      BY DEF EvictL2
  <2>2. D \subseteq Nat /\ Len(disk) \in D
      BY <1>3
  <2>3. \A m \in D : m \in 0..Len(disk) /\ (m = Len(disk) \/ P(m))
      OBVIOUS
  <2> HIDE DEF D
  <2>4. Least(D) \in D
      BY <2>2, LeastOf
  <2> QED BY <2>1, <2>3, <2>4
<1> HIDE DEF n, k, size
<1>5. /\ left \in Seq(Files) /\ Len(left) = Len(disk) - n
      /\ \A i \in 1..Len(left) : n + i \in 1..Len(disk) /\ left[i] = disk[n + i]
  <2>1. n \in 0..Len(disk) /\ disk \in Seq(Files) /\ Len(disk) \in Nat
      BY <1>3, <1>4
  <2>2. left \in Seq(Files) /\ Len(left) = Len(disk) - n
      BY <2>1
  <2>3. ASSUME NEW i \in 1..Len(left) PROVE n + i \in 1..Len(disk) /\ left[i] = disk[n + i]
      BY <2>1, <2>2
  <2> QED BY <2>2, <2>3
<1>6. SubSeq(disk, 1, n) \in Seq(Files)
  <2>1. n \in 0..Len(disk) /\ disk \in Seq(Files) /\ Len(disk) \in Nat
      BY <1>3, <1>4
  <2> QED BY <2>1
<1>7. Bytes(disk) = freed + Bytes(left) /\ freed \in Nat /\ Bytes(left) \in Nat
    BY <1>3, <1>4, <1>5, <1>6, BytesSplit, FilesSized
<1> HIDE DEF left, freed
<1>8. KeysApart(left)
  <2> SUFFICES ASSUME NEW i \in 1..Len(left), NEW j \in 1..Len(left), i # j PROVE left[i].key # left[j].key
      BY DEF KeysApart
  <2>1. n + i # n + j
      BY <1>4
  <2> QED BY <1>3, <1>5, <2>1 DEF KeysApart
<1>9. \A i \in 1..Len(left) : left[i] \in Range(disk)
    BY <1>3, <1>5 DEF Range
<1>10. \A i \in 1..Len(left) : left[i] \in S <=> left[i] \notin R
    BY <1>9
<1>11. \A f \in S : f.key # k
    OBVIOUS
<1> HIDE DEF S, R
<1>12. /\ rest \in Seq(Files) /\ KeysApart(rest) /\ Bytes(rest) \in Nat
       /\ Bytes(Keep(left, R)) \in Nat /\ Bytes(left) = Bytes(rest) + Bytes(Keep(left, R))
    BY <1>5, <1>8, <1>10, FilesKept
<1>13. Bytes(rest) <= Bytes(left)
    BY <1>7, <1>12
<1>14. \A i \in 1..Len(rest) : rest[i].key # k
  <2>1. KeptOf(rest, left, S)
      BY <1>5, KeepElements
  <2> QED BY <1>11, <2>1 DEF KeptOf
<1> HIDE DEF rest
<1>15. CASE disk' \in {left, rest} /\ l2Size' = l2Size - freed
  <2>1. disk' \in Seq(Files) /\ KeysApart(disk')
      BY <1>5, <1>8, <1>12, <1>15
  <2>2. Bytes(disk') <= Bytes(left) /\ Bytes(disk') \in Nat
      BY <1>7, <1>12, <1>13, <1>15
  <2>3. /\ l2Size' \in Int /\ Bytes(disk') <= Bytes(disk)
        /\ l2Size - l2Size' <= Bytes(disk) - Bytes(disk')
      BY <1>3, <1>7, <1>15, <2>2
  <2> QED BY <2>1, <2>3, FilesGone
<1>16. CASE disk' = Append(rest, new) /\ l2Size' = l2Size - freed + size
  <2>1. new \in Files /\ new.size = size /\ new.key = k /\ size \in Nat /\ size <= L2MaxSize
      BY <1>2, SegmentConfig DEF Files
  <2> HIDE DEF new
  <2>2. /\ disk' \in Seq(Files) /\ Len(disk') = Len(rest) + 1 /\ disk'[Len(rest) + 1] = new
        /\ \A i \in 1..Len(rest) : disk'[i] = rest[i]
      BY <1>12, <1>16, <2>1
  <2>3. Sized(rest) /\ Len(rest) \in Nat
      BY <1>12, FilesSized
  <2>4. KeysApart(disk')
    <3> SUFFICES ASSUME NEW i \in 1..Len(disk'), NEW j \in 1..Len(disk'), i < j
                 PROVE  disk'[i].key # disk'[j].key
        BY <2>2, <2>3 DEF KeysApart
    <3>1. i \in 1..Len(rest)
        BY <2>2, <2>3
    <3>2. CASE j = Len(rest) + 1
        BY <1>14, <2>1, <2>2, <3>1, <3>2
    <3>3. CASE j # Len(rest) + 1
      <4>1. j \in 1..Len(rest) /\ i # j
          BY <2>2, <2>3, <3>3
      <4> QED BY <1>12, <2>2, <3>1, <4>1 DEF KeysApart
    <3> QED BY <3>2, <3>3
  <2>5. Bytes(disk') = Bytes(rest) + size
      BY <1>12, <1>16, <2>1, <2>3, BytesAppend
  <2>6. Allowance' = Allowance /\ Allowance \in Nat /\ L2MaxSize \in Nat
      BY Limits DEF DiskInv, Allowance
  <2>7. Bytes(disk) <= l2Size + Allowance
      BY DEF DiskInv
  <2>8. l2Size' \in Int /\ Bytes(disk') <= l2Size' + Allowance
      BY <1>3, <1>7, <1>12, <1>13, <1>16, <2>1, <2>5, <2>6, <2>7
  <2>9. Bytes(disk') <= Allowance + L2MaxSize
    <3>1. CASE n = Len(disk)
      <4>1. Len(left) = 0
          BY <1>3, <1>5, <3>1
      <4>2. left = <<>>
          BY <1>5, <4>1
      <4>3. Bytes(left) = 0
          BY <4>2, BytesEmpty
      <4> QED BY <1>12, <1>13, <2>1, <2>5, <2>6, <4>3
    <3>2. CASE l2Size - freed + size <= L2MaxSize
      <4>1. l2Size' <= L2MaxSize
          BY <1>16, <3>2
      <4>2. Bytes(disk') \in Int
          BY <1>12, <2>1, <2>5
      <4> QED BY <2>6, <2>8, <4>1, <4>2
    <3> QED BY <1>4, <3>1, <3>2
  <2> QED BY <2>2, <2>4, <2>6, <2>8, <2>9 DEF DiskInv
<1> QED BY <1>1, <1>15, <1>16

\* cleanupExpired removes the files that have expired, and counts them out.
LEMMA CleanupFiles == ASSUME DiskInv, CleanupExpired PROVE DiskInv'
<1> DEFINE R == {f \in Range(disk) : f.expired}
           S == Range(disk) \ R
<1>1. disk' = Keep(disk, S) /\ l2Size' = l2Size - Bytes(Keep(disk, R)) /\ UNCHANGED restarts
    BY DEF CleanupExpired
<1>2. disk \in Seq(Files) /\ KeysApart(disk) /\ DOMAIN disk = 1..Len(disk) /\ l2Size \in Int
    BY FilesSized DEF DiskInv
<1>3. \A i \in 1..Len(disk) : disk[i] \in S <=> disk[i] \notin R
    BY <1>2 DEF Range
<1> HIDE DEF S, R
<1>4. /\ disk' \in Seq(Files) /\ KeysApart(disk') /\ Bytes(disk') \in Nat
      /\ Bytes(Keep(disk, R)) \in Nat /\ Bytes(disk) = Bytes(disk') + Bytes(Keep(disk, R))
    BY <1>1, <1>2, <1>3, FilesKept
<1>5. /\ l2Size' \in Int /\ Bytes(disk') <= Bytes(disk)
      /\ l2Size - l2Size' <= Bytes(disk) - Bytes(disk')
    BY <1>1, <1>2, <1>4
<1> QED BY <1>1, <1>4, <1>5, FilesGone

\* A restart forgets what it finds, which is within the limits so far.
LEMMA RestartKeeps == ASSUME SegmentInv, Restart PROVE SegmentInv'
<1>1. /\ l1' = [k \in Keys |-> Unmapped] /\ l1List' = <<>> /\ l1Size' = 0 /\ l2Size' = 0
      /\ call' = [c \in Callers |-> NoCall] /\ restarts' = restarts + 1 /\ UNCHANGED disk
    BY DEF Restart
<1>2. Fitting(l1List', l1')
    BY <1>1 DEF Fitting, StampsApart, Unmapped
<1>3. Cardinality({k \in Keys : l1'[k] # Unmapped}) <= L1MaxItems
  <2>1. {k \in Keys : l1'[k] # Unmapped} = {}
      BY <1>1
  <2> QED BY <2>1, FS_EmptySet, SegmentConfig
<1>4. L1Inv'
    BY <1>1, <1>2, <1>3, BytesEmpty, SegmentConfig DEF L1Inv, L1Bounded
<1>5. call' \in [Callers -> Calls]
    BY <1>1 DEF NoCall, Calls
<1>6. DiskInv'
  <2>1. /\ disk \in Seq(Files) /\ KeysApart(disk) /\ restarts \in Nat
        /\ Bytes(disk) <= Allowance + L2MaxSize
      BY DEF SegmentInv, DiskInv
  <2>2. Allowance' = Allowance + L2MaxSize /\ Allowance \in Nat /\ L2MaxSize \in Nat
    <3>1. Allowance' = (restarts + 1) * L2MaxSize
        BY <1>1 DEF Allowance
    <3> QED BY <2>1, <3>1, Limits
  <2>3. Bytes(disk) \in Nat
      BY <2>1, FilesSized
  <2>4. restarts' \in Nat /\ Bytes(disk) <= 0 + Allowance' /\ Bytes(disk) <= Allowance' + L2MaxSize
      BY <1>1, <2>1, <2>2, <2>3
  <2> QED BY <1>1, <2>1, <2>4 DEF DiskInv
<1> QED BY <1>4, <1>5, <1>6 DEF SegmentInv

\* Time passes: sizes, stamps and keys stay.
LEMMA AgeKeeps == ASSUME SegmentInv, Age PROVE SegmentInv'
<1>1. UNCHANGED <<l1, l1Size, l2Size, call, restarts>>
    BY DEF Age
<1>2. CASE UNCHANGED disk /\ \E i \in 1..Len(l1List) : l1List' = [l1List EXCEPT ![i].expired = TRUE]
  <2>1. PICK i \in 1..Len(l1List) : l1List' = [l1List EXCEPT ![i] = [l1List[i] EXCEPT !.expired = TRUE]]
      BY <1>2
  <2>2. /\ l1List \in Seq(L1Entries) /\ Len(l1List) \in Nat
        /\ Fitting(l1List, l1) /\ l1Size = Bytes(l1List) /\ L1Bounded
      BY ListSized DEF SegmentInv, L1Inv, Fitting
  <2> DEFINE e == [l1List[i] EXCEPT !.expired = TRUE]
  <2>3. /\ e \in L1Entries /\ e.size = l1List[i].size /\ e.stamp = l1List[i].stamp
        /\ e.key = l1List[i].key
    <3>1. ASSUME NEW r \in L1Entries
          PROVE  LET x == [r EXCEPT !.expired = TRUE]
                 IN  x \in L1Entries /\ x.size = r.size /\ x.stamp = r.stamp /\ x.key = r.key
        BY DEF L1Entries
    <3>2. l1List[i] \in L1Entries
        BY <2>2
    <3> QED BY <3>1, <3>2
  <2>9. l1List' = [l1List EXCEPT ![i] = e]
      BY <2>1
  <2> HIDE DEF e
  <2>4. /\ l1List' \in Seq(L1Entries) /\ Len(l1List') = Len(l1List) /\ l1List'[i] = e
        /\ \A j \in 1..Len(l1List) : j # i => l1List'[j] = l1List[j]
      BY <2>2, <2>3, <2>9
  <2>5. \A j \in 1..Len(l1List) : /\ l1List'[j].size = l1List[j].size
                                  /\ l1List'[j].stamp = l1List[j].stamp
                                  /\ l1List'[j].key = l1List[j].key
      BY <2>3, <2>4
  <2>6. Bytes(l1List') = Bytes(l1List)
      BY <2>2, <2>4, <2>5, ListSized, BytesSame
  <2>7. Fitting(l1List', l1)
    <3>1. StampsApart(l1List')
        BY <2>2, <2>4, <2>5 DEF Fitting, StampsApart
    <3>2. \A q \in Keys : l1[q] # 0 =>
            \E j \in 1..Len(l1List') : l1List'[j].stamp = l1[q] /\ l1List'[j].key = q
        BY <2>2, <2>4, <2>5 DEF Fitting
    <3> QED BY <2>2, <2>4, <3>1, <3>2 DEF Fitting
  <2>8. L1Inv'
      BY <1>1, <2>2, <2>4, <2>6, <2>7 DEF L1Inv, L1Bounded
  <2> QED BY <1>1, <1>2, <2>8 DEF SegmentInv, DiskInv, Allowance
<1>3. CASE UNCHANGED l1List /\ \E i \in 1..Len(disk) : disk' = [disk EXCEPT ![i].expired = TRUE]
  <2>1. PICK i \in 1..Len(disk) : disk' = [disk EXCEPT ![i] = [disk[i] EXCEPT !.expired = TRUE]]
      BY <1>3
  <2>2. disk \in Seq(Files) /\ Len(disk) \in Nat /\ KeysApart(disk)
      BY FilesSized DEF SegmentInv, DiskInv
  <2> DEFINE e == [disk[i] EXCEPT !.expired = TRUE]
  <2>3. e \in Files /\ e.size = disk[i].size /\ e.key = disk[i].key
    <3>1. ASSUME NEW r \in Files
          PROVE  LET x == [r EXCEPT !.expired = TRUE]
                 IN  x \in Files /\ x.size = r.size /\ x.key = r.key
        BY DEF Files
    <3>2. disk[i] \in Files
        BY <2>2
    <3> QED BY <3>1, <3>2
  <2>9. disk' = [disk EXCEPT ![i] = e]
      BY <2>1
  <2> HIDE DEF e
  <2>4. /\ disk' \in Seq(Files) /\ Len(disk') = Len(disk) /\ disk'[i] = e
        /\ \A j \in 1..Len(disk) : j # i => disk'[j] = disk[j]
      BY <2>2, <2>3, <2>9
  <2>5. \A j \in 1..Len(disk) : disk'[j].size = disk[j].size /\ disk'[j].key = disk[j].key
      BY <2>3, <2>4
  <2>6. Bytes(disk') = Bytes(disk)
      BY <2>2, <2>4, <2>5, FilesSized, BytesSame
  <2>7. KeysApart(disk')
      BY <2>2, <2>4, <2>5 DEF KeysApart
  <2>8. DiskInv'
      BY <1>1, <2>4, <2>6, <2>7 DEF SegmentInv, DiskInv, Allowance
  <2> QED BY <1>1, <1>3, <2>8 DEF SegmentInv, L1Inv, L1Bounded
<1> QED BY <1>2, <1>3 DEF Age

\* The next step of a call.
LEMMA NextCall ==
    ASSUME call \in [Callers -> Calls], NEW c \in Callers, NEW r \in Calls, NextStep(c, r)
    PROVE  call' \in [Callers -> Calls]
BY DEF NextStep

\* The steps of the calls.
LEMMA CallKeeps ==
    ASSUME SegmentInv, UNCHANGED restarts, NEW c \in Callers,
           \/ \E k \in Keys : Get(c, k) \/ Invalidate(c, k) \/ \E s \in Sizes : Set(c, k, s)
           \/ \E m \in {MediaOf[k] : k \in Keys} : InvalidateMedia(c, m)
           \/ TouchHit(c) \/ DeleteExpired(c) \/ GetL2(c) \/ Promote(c) \/ SetL2(c) \/ DeleteL2(c)
    PROVE  SegmentInv'
<1>1. L1Inv /\ DiskInv /\ call \in [Callers -> Calls] /\ call[c] \in Calls
    BY DEF SegmentInv
<1>2. ASSUME SameL1 PROVE L1Inv'
    BY <1>1, <1>2 DEF SameL1, L1Inv, L1Bounded
<1>3. ASSUME SameL2 PROVE DiskInv'
    BY <1>1, <1>3 DEF SameL2, DiskInv, Allowance
<1>4. NoCall \in Calls
    BY DEF NoCall, Calls
<1>5. \A k \in Keys : /\ [at |-> "l2", key |-> k] \in Calls /\ [at |-> "expired", key |-> k] \in Calls
                      /\ [at |-> "unlink", key |-> k] \in Calls
    BY DEF Calls
<1>6. \A k \in Keys, s \in 1..L2MaxSize : /\ [at |-> "write", key |-> k, size |-> s] \in Calls
                                          /\ [at |-> "promote", key |-> k, size |-> s] \in Calls
    BY DEF Calls
<1>7. ASSUME EndCall(c) PROVE call' \in [Callers -> Calls]
    BY <1>1, <1>4, <1>7, NextCall DEF EndCall
<1>8. CASE \E k \in Keys : Get(c, k)
  <2>1. PICK k \in Keys : Get(c, k)
      BY <1>8
  <2>2. l1[k] \in Nat
      BY <1>1 DEF L1Inv, Fitting
  <2>3. [at |-> "touch", stamp |-> l1[k]] \in Calls
      BY <2>2 DEF Calls
  <2>4. \/ NextStep(c, [at |-> "l2", key |-> k])
        \/ NextStep(c, [at |-> "expired", key |-> k])
        \/ NextStep(c, [at |-> "touch", stamp |-> l1[k]])
      BY <2>1 DEF Get
  <2>5. call' \in [Callers -> Calls]
      BY <1>1, <1>5, <2>3, <2>4, NextCall
  <2> QED BY <1>2, <1>3, <2>1, <2>5 DEF Get, SegmentInv
<1>9. CASE \E k \in Keys : Invalidate(c, k)
  <2>1. PICK k \in Keys : Invalidate(c, k)
      BY <1>9
  <2>2. call' \in [Callers -> Calls]
      BY <1>1, <1>5, <2>1, NextCall DEF Invalidate
  <2>3. L1Inv'
      BY <1>1, <2>1, DeleteKeeps DEF Invalidate
  <2> QED BY <1>3, <2>1, <2>2, <2>3 DEF Invalidate, SegmentInv
<1>10. CASE \E k \in Keys, s \in Sizes : Set(c, k, s)
  <2>1. PICK k \in Keys, s \in Sizes : Set(c, k, s)
      BY <1>10
  <2>2. s \in 1..L2MaxSize /\ s \in Nat
      BY SegmentConfig
  <2>3. call' \in [Callers -> Calls]
      BY <1>1, <1>6, <2>1, <2>2, NextCall DEF Set
  <2>4. L1Inv'
      BY <1>1, <2>1, <2>2, SetKeeps DEF Set
  <2> QED BY <1>3, <2>1, <2>3, <2>4 DEF Set, SegmentInv
<1>11. CASE \E m \in {MediaOf[k] : k \in Keys} : InvalidateMedia(c, m)
  <2>1. PICK m : InvalidateMedia(c, m)
      BY <1>11
  <2>2. /\ l1' = [k \in Keys |-> IF MediaOf[k] = m THEN Unmapped ELSE l1[k]]
        /\ UNCHANGED <<l1List, l1Size, call>> /\ SameL2
      BY <2>1 DEF InvalidateMedia
  <2>3. Fitting(l1List, l1) /\ l1Size = Bytes(l1List) /\ L1Bounded
      BY <1>1 DEF L1Inv
  <2>4. Fitting(l1List', l1')
      BY <2>2, <2>3 DEF Fitting, Unmapped
  <2>5. \A k \in Keys : l1'[k] # Unmapped => l1[k] # Unmapped
      BY <2>2
  <2>6. Cardinality({k \in Keys : l1[k] # Unmapped}) <= L1MaxItems
      BY <2>3 DEF L1Bounded
  <2>7. Cardinality({k \in Keys : l1'[k] # Unmapped}) <= L1MaxItems
      BY <2>3, <2>5, <2>6, FewerKeys
  <2>8. L1Inv'
      BY <2>2, <2>3, <2>4, <2>7 DEF L1Inv, L1Bounded
  <2> QED BY <1>1, <1>3, <2>2, <2>8 DEF SegmentInv
<1>12. CASE TouchHit(c)
    BY <1>1, <1>3, <1>7, <1>12, TouchKeeps DEF TouchHit, SegmentInv
<1>13. CASE DeleteExpired(c)
  <2>1. call[c].key \in Keys
      BY <1>1, <1>13, CallFields DEF DeleteExpired
  <2>2. call' \in [Callers -> Calls]
      BY <1>1, <1>5, <1>13, <2>1, NextCall DEF DeleteExpired
  <2>3. L1Inv'
      BY <1>1, <1>13, <2>1, DeleteKeeps DEF DeleteExpired
  <2> QED BY <1>3, <1>13, <2>2, <2>3 DEF DeleteExpired, SegmentInv
<1>14. CASE GetL2(c)
  <2> DEFINE k == call[c].key
  <2>1. k \in Keys
      BY <1>1, <1>14, CallFields DEF GetL2
  <2>2. SameL1 /\ UNCHANGED l2Size
      BY <1>14 DEF GetL2
  <2>3. CASE OnDisk(k) /\ ~File(k).expired
    <3>1. NextStep(c, [at |-> "promote", key |-> k, size |-> File(k).size]) /\ UNCHANGED disk
        BY <1>14, <2>3 DEF GetL2
    <3>2. File(k).size \in 1..L2MaxSize
        BY <1>1, <2>3, WithoutFile DEF Files
    <3>3. call' \in [Callers -> Calls]
        BY <1>1, <1>6, <2>1, <3>1, <3>2, NextCall
    <3> QED BY <1>2, <1>3, <2>2, <3>1, <3>3 DEF SegmentInv, SameL2
  <2>4. CASE ~(OnDisk(k) /\ ~File(k).expired)
    <3>1. EndCall(c) /\ disk' = NoFile(k)
        BY <1>14, <2>4 DEF GetL2
    <3>2. DiskInv'
        BY <1>1, <2>2, <3>1, FileRemovals
    <3> QED BY <1>2, <1>7, <2>2, <3>1, <3>2 DEF SegmentInv
  <2> QED BY <2>3, <2>4
<1>15. CASE Promote(c)
  <2>1. call[c].key \in Keys /\ call[c].size \in Nat
    <3>1. call[c].key \in Keys /\ call[c].size \in 1..L2MaxSize
        BY <1>1, <1>15, CallFields DEF Promote
    <3> QED BY <3>1
  <2>2. L1Inv'
      BY <1>1, <1>15, <2>1, SetKeeps DEF Promote
  <2> QED BY <1>3, <1>7, <1>15, <2>2 DEF Promote, SegmentInv
<1>16. CASE SetL2(c)
    BY <1>1, <1>2, <1>7, <1>16, SetL2Keeps DEF SetL2, SegmentInv
<1>17. CASE DeleteL2(c)
  <2> DEFINE k == call[c].key
  <2>1. disk' = NoFile(k) /\ (l2Size' = l2Size \/ (OnDisk(k) /\ l2Size' = l2Size - File(k).size))
      BY <1>17 DEF DeleteL2
  <2>2. DiskInv'
      BY <1>1, <2>1, FileRemovals
  <2> QED BY <1>2, <1>7, <1>17, <2>2 DEF DeleteL2, SegmentInv
<1> QED BY <1>8, <1>9, <1>10, <1>11, <1>12, <1>13, <1>14, <1>15, <1>16, <1>17

\* Every behaviour keeps the books of both levels.
LEMMA SegmentInvariant == SegmentSpec => []SegmentInv
<1>1. SegmentInit => SegmentInv
  <2> SUFFICES ASSUME SegmentInit PROVE SegmentInv
      OBVIOUS
  <2>1. /\ l1 = [k \in Keys |-> Unmapped] /\ l1List = <<>> /\ l1Size = 0 /\ disk = <<>> /\ l2Size = 0
        /\ call = [c \in Callers |-> NoCall] /\ restarts = 0
      BY DEF SegmentInit
  <2>2. Fitting(l1List, l1)
      BY <2>1 DEF Fitting, StampsApart, Unmapped
  <2>3. {k \in Keys : l1[k] # Unmapped} = {}
      BY <2>1
  <2>4. L1Inv
    <3>1. Cardinality({k \in Keys : l1[k] # Unmapped}) = 0
        BY <2>3, FS_EmptySet
    <3>2. L1MaxItems \in Nat /\ L1MaxSize \in Nat
        BY SegmentConfig
    <3>3. L1Bounded
        BY <2>1, <3>1, <3>2 DEF L1Bounded
    <3> QED BY <2>1, <2>2, <3>3, BytesEmpty DEF L1Inv
  <2>5. call \in [Callers -> Calls]
      BY <2>1 DEF NoCall, Calls
  <2>6. Allowance \in Nat /\ L2MaxSize \in Nat /\ Bytes(disk) = 0
      BY <2>1, Limits, BytesEmpty
  <2>7. disk \in Seq(Files) /\ KeysApart(disk) /\ l2Size \in Int /\ restarts \in Nat
      BY <2>1 DEF KeysApart
  <2>8. Bytes(disk) <= l2Size + Allowance /\ Bytes(disk) <= Allowance + L2MaxSize
      BY <2>1, <2>6
  <2> QED BY <2>4, <2>5, <2>7, <2>8 DEF SegmentInv, DiskInv
<1>2. SegmentInv /\ [SegmentNext]_segmentVars => SegmentInv'
  <2> SUFFICES ASSUME SegmentInv, [SegmentNext]_segmentVars PROVE SegmentInv'
      OBVIOUS
  <2>1. CASE UNCHANGED segmentVars
      BY <2>1 DEF segmentVars, SegmentInv, L1Inv, L1Bounded, DiskInv, Allowance
  <2>2. CASE CleanupExpired
      BY <2>2, CleanupKeeps, CleanupFiles DEF SegmentInv, CleanupExpired
  <2>3. CASE Age
      BY <2>3, AgeKeeps
  <2>4. CASE Restart
      BY <2>4, RestartKeeps
  <2>5. CASE SegmentNext /\ ~(CleanupExpired \/ Age \/ Restart)
    <3>1. PICK c \in Callers :
            /\ UNCHANGED restarts
            /\ \/ \E k \in Keys : Get(c, k) \/ Invalidate(c, k) \/ \E s \in Sizes : Set(c, k, s)
               \/ \E m \in {MediaOf[k] : k \in Keys} : InvalidateMedia(c, m)
               \/ TouchHit(c) \/ DeleteExpired(c) \/ GetL2(c) \/ Promote(c) \/ SetL2(c) \/ DeleteL2(c)
        BY <2>5 DEF SegmentNext
    <3> QED BY <3>1, CallKeeps
  <2> QED BY <2>1, <2>2, <2>3, <2>4, <2>5 DEF SegmentNext
<1> QED BY <1>1, <1>2, PTL DEF SegmentSpec

\* The books of the memory level balance and it keeps to its limits under every
\* interleaving (getL1, setL1, evictL1, deleteL1, InvalidateMedia, cleanupExpired),
\* for any number of callers and segments of any size.
THEOREM L1BooksAlways == SegmentSpec => []L1Books
<1>1. SegmentInv => L1Books
  <2> SUFFICES ASSUME SegmentInv PROVE L1Books
      OBVIOUS
  <2>1. Fitting(l1List, l1) /\ l1Size = Bytes(l1List) /\ L1Bounded
      BY DEF SegmentInv, L1Inv
  <2>2. ASSUME NEW k \in Keys, l1[k] # Unmapped PROVE InList(l1[k]) /\ Entry(l1[k]).key = k
      BY <2>1, <2>2, MappedEntry
  <2> QED BY <2>1, <2>2 DEF L1Books, L1Exact
<1> QED BY <1>1, SegmentInvariant, PTL

\* The disk level keeps to its limit and one more limit's worth for every restart
\* (getL2, setL2, evictL2, deleteL2, cleanupExpired, NewSegmentCache).
THEOREM DiskBoundedAlways == SegmentSpec => []DiskBounded
<1>1. SegmentInv => DiskBounded
    BY Limits DEF SegmentInv, DiskInv, DiskBounded
<1> QED BY <1>1, SegmentInvariant, PTL

-----------------------------------------------------------------------------
(* The request rate limiter *)

Requests == [number : Nat, time : Nat]

\* The requests of an address that were admitted from time t on, for a window.
Admitted(a, t) == {r \in admitted[a] : t <= r.time /\ r.time < t + Window}

\* The inductive invariant.  Requests are numbered one after the other, so that a new
\* one is not among the admitted ones, and none is from the future.
LimiterInv ==
    /\ now \in 0..MaxNow
    /\ requests \in [Addresses -> SUBSET Requests]
    /\ admitted \in [Addresses -> SUBSET Requests]
    /\ \A a \in Addresses :
         /\ IsFiniteSet(admitted[a]) /\ requests[a] \subseteq admitted[a]
         /\ \A r \in admitted[a] : r.number <= Cardinality(admitted[a]) /\ r.time <= now
         /\ WithinWindow(requests[a]) = WithinWindow(admitted[a])
         /\ \A t \in 0..MaxNow : Cardinality(Admitted(a, t)) <= Limit

\* No address has a request at the start.
LEMMA LimiterInitInv == LimiterInit => LimiterInv
<1> SUFFICES ASSUME LimiterInit PROVE LimiterInv
    OBVIOUS
<1>1. now \in 0..MaxNow /\ requests \in [Addresses -> SUBSET Requests]
      /\ admitted \in [Addresses -> SUBSET Requests]
    BY LimiterConfig DEF LimiterInit
<1>2. ASSUME NEW a \in Addresses
      PROVE  /\ IsFiniteSet(admitted[a]) /\ requests[a] \subseteq admitted[a]
             /\ \A r \in admitted[a] : r.number <= Cardinality(admitted[a]) /\ r.time <= now
             /\ WithinWindow(requests[a]) = WithinWindow(admitted[a])
             /\ \A t \in 0..MaxNow : Cardinality(Admitted(a, t)) <= Limit
  <2>1. requests[a] = {} /\ admitted[a] = {}
      BY DEF LimiterInit
  <2>2. \A t \in 0..MaxNow : Admitted(a, t) = {}
      BY <2>1 DEF Admitted
  <2>3. IsFiniteSet({}) /\ Cardinality({}) = 0
      BY FS_EmptySet
  <2> QED BY <2>1, <2>2, <2>3, LimiterConfig
<1> QED BY <1>1, <1>2 DEF LimiterInv

\* A request is admitted only into windows with room for it: all that such a window
\* holds so far is within the current window too.
LEMMA AllowKeeps == ASSUME LimiterInv, NEW a \in Addresses, Allow(a) PROVE LimiterInv'
<1> DEFINE valid == WithinWindow(requests[a])
           r0 == [number |-> Cardinality(admitted[a]) + 1, time |-> now]
           new == IF Cardinality(valid) < Limit THEN {r0} ELSE {}
<1>1. /\ requests' = [requests EXCEPT ![a] = valid \union new]
      /\ admitted' = [admitted EXCEPT ![a] = @ \union new]
      /\ now' = now
    BY DEF Allow
<1>2. /\ IsFiniteSet(admitted[a]) /\ requests[a] \subseteq admitted[a]
      /\ \A r \in admitted[a] : r.number <= Cardinality(admitted[a]) /\ r.time <= now
      /\ WithinWindow(requests[a]) = WithinWindow(admitted[a])
      /\ \A t \in 0..MaxNow : Cardinality(Admitted(a, t)) <= Limit
      /\ admitted[a] \subseteq Requests /\ requests[a] \subseteq Requests
      /\ now \in 0..MaxNow
    BY DEF LimiterInv
<1>3. Cardinality(admitted[a]) \in Nat
    BY <1>2, FS_CardinalityType
<1>4. r0 \in Requests /\ r0 \notin admitted[a]
    BY <1>2, <1>3, LimiterConfig DEF Requests
<1>5. /\ requests'[a] = valid \union new /\ admitted'[a] = admitted[a] \union new
      /\ \A b \in Addresses \ {a} : requests'[b] = requests[b] /\ admitted'[b] = admitted[b]
    BY <1>1 DEF LimiterInv
<1>6. /\ now' \in 0..MaxNow
      /\ requests' \in [Addresses -> SUBSET Requests]
      /\ admitted' \in [Addresses -> SUBSET Requests]
  <2>1. valid \subseteq requests[a] /\ new \subseteq {r0}
      BY DEF WithinWindow
  <2>2. valid \union new \subseteq Requests /\ admitted[a] \union new \subseteq Requests
      BY <1>2, <1>4, <2>1
  <2> HIDE DEF valid, new
  <2> QED BY <1>1, <2>2 DEF LimiterInv
<1>7. ASSUME NEW b \in Addresses, b # a
      PROVE  /\ IsFiniteSet(admitted'[b]) /\ requests'[b] \subseteq admitted'[b]
             /\ \A r \in admitted'[b] : r.number <= Cardinality(admitted'[b]) /\ r.time <= now'
             /\ WithinWindow(requests[b])' = WithinWindow(admitted[b])'
             /\ \A t \in 0..MaxNow : Cardinality(Admitted(b, t)') <= Limit
  <2>1. requests'[b] = requests[b] /\ admitted'[b] = admitted[b] /\ now' = now
      BY <1>1, <1>5, <1>7
  <2>2. \A t \in 0..MaxNow : Admitted(b, t)' = Admitted(b, t)
      BY <2>1 DEF Admitted
  <2>3. /\ WithinWindow(requests[b])' = WithinWindow(requests[b])
        /\ WithinWindow(admitted[b])' = WithinWindow(admitted[b])
      BY <2>1 DEF WithinWindow
  <2> QED BY <2>1, <2>2, <2>3 DEF LimiterInv
<1>8. /\ IsFiniteSet(admitted'[a]) /\ requests'[a] \subseteq admitted'[a]
      /\ \A r \in admitted'[a] : r.number <= Cardinality(admitted'[a]) /\ r.time <= now'
      /\ WithinWindow(requests[a])' = WithinWindow(admitted[a])'
      /\ \A t \in 0..MaxNow : Cardinality(Admitted(a, t)') <= Limit
  <2>1. CASE ~(Cardinality(valid) < Limit)
    <3>1. requests'[a] = valid /\ admitted'[a] = admitted[a] /\ now' = now
        BY <1>1, <1>5, <2>1
    <3>2. \A t \in 0..MaxNow : Admitted(a, t)' = Admitted(a, t)
        BY <3>1 DEF Admitted
    <3>3. WithinWindow(requests[a])' = valid /\ WithinWindow(admitted[a])' = valid
        BY <1>2, <3>1 DEF WithinWindow
    <3>4. valid \subseteq requests[a]
        BY DEF WithinWindow
    <3> QED BY <1>2, <3>1, <3>2, <3>3, <3>4
  <2>2. CASE Cardinality(valid) < Limit
    <3>1. requests'[a] = valid \union {r0} /\ admitted'[a] = admitted[a] \union {r0} /\ now' = now
        BY <1>1, <1>5, <2>2
    <3>2. valid \subseteq admitted[a]
        BY <1>2 DEF WithinWindow
    <3>3. IsFiniteSet(admitted'[a]) /\ Cardinality(admitted'[a]) = Cardinality(admitted[a]) + 1
      <4> DEFINE s == admitted[a]
      <4>1. IsFiniteSet(s) /\ r0 \notin s /\ admitted'[a] = s \union {r0}
          BY <1>2, <1>4, <3>1
      <4> HIDE DEF r0, s
      <4>2. /\ IsFiniteSet(s \union {r0})
            /\ Cardinality(s \union {r0}) = IF r0 \in s THEN Cardinality(s) ELSE Cardinality(s) + 1
          BY <4>1, FS_AddElement
      <4> QED BY <4>1, <4>2 DEF s
    <3>4. \A r \in admitted'[a] : r.number <= Cardinality(admitted'[a]) /\ r.time <= now'
      <4> SUFFICES ASSUME NEW r \in admitted'[a]
                   PROVE  r.number <= Cardinality(admitted'[a]) /\ r.time <= now'
          OBVIOUS
      <4>1. CASE r = r0
          BY <1>2, <1>3, <3>1, <3>3, <4>1, LimiterConfig
      <4>2. CASE r \in admitted[a]
        <5>1. r.number \in Nat /\ r.number <= Cardinality(admitted[a]) /\ r.time <= now
            BY <1>2, <4>2 DEF Requests
        <5> QED BY <1>3, <3>1, <3>3, <5>1
      <4> QED BY <3>1, <4>1, <4>2
    <3>5. WithinWindow(requests[a])' = WithinWindow(admitted[a])'
        BY <1>2, <3>1 DEF WithinWindow
    <3>6. ASSUME NEW t \in 0..MaxNow PROVE Cardinality(Admitted(a, t)') <= Limit
      <4>1. CASE ~(t <= now /\ now < t + Window)
        <5>1. Admitted(a, t)' = Admitted(a, t)
            BY <3>1, <4>1 DEF Admitted
        <5> QED BY <1>2, <5>1
      <4>2. CASE t <= now /\ now < t + Window
        <5>1. Admitted(a, t)' = Admitted(a, t) \union {r0}
            BY <3>1, <4>2 DEF Admitted
        <5>2. Admitted(a, t) \subseteq valid
          <6> SUFFICES ASSUME NEW r \in Admitted(a, t) PROVE r \in valid
              OBVIOUS
          <6>1. r \in admitted[a] /\ t <= r.time /\ r.time \in Nat
              BY <1>2 DEF Admitted, Requests
          <6>2. r.time > now - Window
              BY <1>2, <4>2, <6>1, LimiterConfig
          <6> QED BY <1>2, <6>1, <6>2 DEF WithinWindow
        <5>3. IsFiniteSet(valid)
            BY <1>2, <3>2, FS_Subset
        <5>4. /\ IsFiniteSet(Admitted(a, t))
              /\ Cardinality(Admitted(a, t)) <= Cardinality(valid)
            BY <5>2, <5>3, FS_Subset
        <5>5. Cardinality(Admitted(a, t)) \in Nat /\ Cardinality(valid) \in Nat
            BY <5>3, <5>4, FS_CardinalityType
        <5>6. r0 \notin Admitted(a, t)
            BY <1>4 DEF Admitted
        <5>7. Cardinality(Admitted(a, t) \union {r0}) = Cardinality(Admitted(a, t)) + 1
            BY <5>4, <5>6, FS_AddElement
        <5> QED BY <2>2, <5>1, <5>4, <5>5, <5>7, LimiterConfig
      <4> QED BY <4>1, <4>2
    <3> QED BY <3>1, <3>2, <3>3, <3>4, <3>5, <3>6
  <2> QED BY <2>1, <2>2
<1>9. \A b \in Addresses :
        /\ IsFiniteSet(admitted'[b]) /\ requests'[b] \subseteq admitted'[b]
        /\ \A r \in admitted'[b] : r.number <= Cardinality(admitted'[b]) /\ r.time <= now'
        /\ WithinWindow(requests[b])' = WithinWindow(admitted[b])'
        /\ \A t \in 0..MaxNow : Cardinality(Admitted(b, t)') <= Limit
    BY <1>7, <1>8
<1> QED BY <1>6, <1>9 DEF LimiterInv

\* Pruning loses nothing of the current window, and the window only moves on.
LEMMA LimiterStep == LimiterInv /\ [LimiterNext]_limiterVars => LimiterInv'
<1> SUFFICES ASSUME LimiterInv, [LimiterNext]_limiterVars PROVE LimiterInv'
    OBVIOUS
<1>1. CASE \E a \in Addresses : Allow(a)
    BY <1>1, AllowKeeps
<1>2. CASE Cleanup
  <2>1. now' = now /\ admitted' = admitted /\ requests' = [a \in Addresses |-> WithinWindow(requests[a])]
      BY <1>2 DEF Cleanup
  <2>2. \A a \in Addresses, t \in 0..MaxNow : Admitted(a, t)' = Admitted(a, t)
      BY <2>1 DEF Admitted
  <2>3. \A a \in Addresses : requests'[a] = WithinWindow(requests[a])
                             /\ WithinWindow(requests[a]) \subseteq requests[a]
      BY <2>1 DEF WithinWindow
  <2>4. \A a \in Addresses : WithinWindow(requests[a])' = WithinWindow(admitted[a])'
    <3> TAKE a \in Addresses
    <3>1. WithinWindow(requests[a]) = WithinWindow(admitted[a])
        BY DEF LimiterInv
    <3> QED BY <2>1, <2>3, <3>1 DEF WithinWindow
  <2>5. requests' \in [Addresses -> SUBSET Requests]
      BY <2>1, <2>3 DEF LimiterInv
  <2> QED BY <2>1, <2>2, <2>3, <2>4, <2>5 DEF LimiterInv
<1>3. CASE Tick
  <2>1. now' = now + 1 /\ now < MaxNow /\ requests' = requests /\ admitted' = admitted
      BY <1>3 DEF Tick
  <2>2. \A a \in Addresses, t \in 0..MaxNow : Admitted(a, t)' = Admitted(a, t)
      BY <2>1 DEF Admitted
  <2>3. now \in 0..MaxNow /\ now' \in 0..MaxNow
      BY <2>1, LimiterConfig DEF LimiterInv
  <2>4. ASSUME NEW a \in Addresses
        PROVE  /\ WithinWindow(requests[a])' = WithinWindow(admitted[a])'
               /\ \A r \in admitted'[a] : r.number <= Cardinality(admitted'[a]) /\ r.time <= now'
    <3>1. /\ WithinWindow(requests[a]) = WithinWindow(admitted[a])
          /\ requests[a] \subseteq Requests /\ admitted[a] \subseteq Requests
          /\ \A r \in admitted[a] : r.number <= Cardinality(admitted[a]) /\ r.time <= now
        BY DEF LimiterInv
    <3>2. \A r \in Requests : r.time \in Nat
        BY DEF Requests
    <3>3. \A S \in SUBSET Requests :
            {r \in S : r.time > (now + 1) - Window} = {r \in WithinWindow(S) : r.time > (now + 1) - Window}
        BY <2>3, <3>2, LimiterConfig DEF WithinWindow
    <3>4. /\ {r \in requests[a] : r.time > (now + 1) - Window}
               = {r \in admitted[a] : r.time > (now + 1) - Window}
        BY <3>1, <3>3
    <3>5. /\ WithinWindow(requests[a])' = {r \in requests[a] : r.time > (now + 1) - Window}
          /\ WithinWindow(admitted[a])' = {r \in admitted[a] : r.time > (now + 1) - Window}
        BY <2>1 DEF WithinWindow
    <3> QED BY <2>1, <2>3, <3>1, <3>2, <3>4, <3>5
  <2> QED BY <2>1, <2>2, <2>3, <2>4 DEF LimiterInv
<1>4. CASE UNCHANGED limiterVars
  <2>1. now' = now /\ admitted' = admitted /\ requests' = requests
      BY <1>4 DEF limiterVars
  <2> QED BY <2>1 DEF LimiterInv, WithinWindow, Admitted
<1> QED BY <1>1, <1>2, <1>3, <1>4 DEF LimiterNext

\* No window of any length holds more than Limit admitted requests of an address,
\* and pruning forgets none that still counts (rateLimiter.Allow, cleanup).
THEOREM WindowKeptAlways == LimiterSpec => []WindowKept
<1>1. LimiterInv => WindowKept
    BY DEF LimiterInv, WindowKept, Admitted
<1> QED BY <1>1, LimiterInitInv, LimiterStep, PTL DEF LimiterSpec

-----------------------------------------------------------------------------
(* The encoder inventory *)

Accelerators == {"nvenc", "qsv", "vaapi", "videotoolbox", "amf"}

\* What the tables say of an encoder; only a hardware encoder names an accelerator.
EncoderRow(i) ==
    /\ i.hw \in Accelerators \union {"none"} /\ i.rank \in Nat
    /\ i.hw = "none" => i.rank <= 30
    /\ i.at1080 \in BOOLEAN /\ i.at4K \in BOOLEAN /\ i.ten \in BOOLEAN /\ i.hdr \in BOOLEAN

EncoderNames == {i.name : i \in EncoderInfo}
EncoderCodecs == {i.codec : i \in EncoderInfo}
Details == [name : EncoderNames, codec : EncoderCodecs, isHW : BOOLEAN, rank : Nat,
            at1080 : BOOLEAN, at4K : BOOLEAN, ten : BOOLEAN, hdr : BOOLEAN]

\* An encoder of the capabilities is one that ffmpeg lists and that the host can run,
\* and a software encoder ranks far below any hardware.
DetailSound(e, h) ==
    /\ e \in Details /\ e.name \in h.lists
    /\ e.isHW => \E i \in EncoderInfo : i.name = e.name /\ i.hw \in h.starts
    /\ ~e.isHW => e.rank <= 30

CapsSound == \A e \in caps : DetailSound(e, host)

\* The tables.
LEMMA EncoderRows == \A i \in EncoderInfo : EncoderRow(i)
<1>1. ASSUME NEW n, NEW c, NEW k \in 0..30, NEW a \in BOOLEAN, NEW t \in BOOLEAN, NEW d \in BOOLEAN
      PROVE  EncoderRow(Soft(n, c, k, a, t, d))
    BY DEF Soft, Enc, EncoderRow
<1>2. 30 \in 0..30 /\ 10 \in 0..30 /\ 8 \in 0..30 /\ 5 \in 0..30 /\ 0 \in 0..30
    OBVIOUS
<1>3. \A i \in SoftEncoders : EncoderRow(i)
    BY <1>1, <1>2 DEF SoftEncoders
<1>4. \A n, c : EncoderRow(Plain(n, c))
    BY <1>1, <1>2 DEF Plain
<1>5. \A i \in PlainEncoders : EncoderRow(i)
    BY <1>4 DEF PlainEncoders
<1>6. ASSUME NEW i \in HardEncoders PROVE EncoderRow(i)
  <2>1. ASSUME NEW n, NEW c, NEW w \in Accelerators, NEW k \in Nat, NEW u \in BOOLEAN, NEW f,
               i = Hard(n, c, w, k, u, f)
        PROVE  EncoderRow(i)
      BY <2>1 DEF Hard, Enc, EncoderRow, Accelerators
  <2> QED BY <1>6, <2>1, ZenonT(60) DEF HardEncoders, Accelerators
<1> QED BY <1>3, <1>5, <1>6 DEF EncoderInfo

\* An accelerator that is reported is one that ffmpeg has started, or V4L2.
LEMMA AcceleratorsStart ==
    ASSUME NEW h, NEW listed, NEW a \in ProbeHardwareAcceleration(h, listed)
    PROVE  a.type \in h.starts \/ a.type = "v4l2"
<1>1. /\ \A b \in ProbeNVENC(h) : b.type \in h.starts
      /\ \A b \in ProbeVAAPI(h) : b.type \in h.starts
      /\ \A b \in ProbeV4L2(h) : b.type = "v4l2"
    BY DEF ProbeNVENC, ProbeVAAPI, ProbeV4L2, Accel
<1>2. \A hw : \A b \in ProbeListed(h, hw, listed) : b.type \in h.starts
    BY DEF ProbeListed, Accel
<1> QED BY <1>1, <1>2 DEF ProbeHardwareAcceleration

\* What a discovery finds is sound for the host it was made on.
LEMMA DiscoveredSound ==
    ASSUME NEW h, NEW listed, listed \subseteq h.lists,
           NEW e \in BuildEncoderDetails(listed, ProbeHardwareAcceleration(h, listed))
    PROVE  DetailSound(e, h)
<1> DEFINE accels == ProbeHardwareAcceleration(h, listed)
           ten(i) == IF i.fromAccel THEN \E a \in accels : a.type = i.hw /\ a.ten ELSE i.ten
<1>1. PICK i \in EncoderInfo :
        /\ i.name \in listed /\ (i.hw = "none" \/ \E a \in accels : a.type = i.hw)
        /\ e = [name |-> i.name, codec |-> i.codec, isHW |-> i.hw # "none", rank |-> i.rank,
                at1080 |-> i.at1080, at4K |-> i.at4K, ten |-> ten(i),
                hdr |-> IF i.fromAccel THEN ten(i) ELSE i.hdr]
    BY DEF BuildEncoderDetails
<1>2. EncoderRow(i)
    BY EncoderRows
<1>3. i.name \in EncoderNames /\ i.codec \in EncoderCodecs /\ ten(i) \in BOOLEAN
    BY <1>2 DEF EncoderNames, EncoderCodecs, EncoderRow
<1>4. e.name = i.name /\ e.isHW = (i.hw # "none") /\ e.rank = i.rank
    BY <1>1
<1> HIDE DEF ten
<1>5. e \in Details
    BY <1>1, <1>2, <1>3 DEF Details, EncoderRow
<1>6. ASSUME i.hw # "none" PROVE i.hw \in h.starts
  <2>1. PICK a \in accels : a.type = i.hw
      BY <1>1, <1>6
  <2>2. i.hw # "v4l2"
      BY <1>2 DEF EncoderRow, Accelerators
  <2> QED BY <2>1, <2>2, AcceleratorsStart
<1> QED BY <1>1, <1>2, <1>4, <1>5, <1>6 DEF DetailSound, EncoderRow

\* A benchmark revises the estimates of an encoder and nothing else.
LEMMA BenchmarkedSound ==
    ASSUME NEW h, NEW e, DetailSound(e, h), NEW a \in BOOLEAN, NEW b \in BOOLEAN
    PROVE  DetailSound([e EXCEPT !.at1080 = a, !.at4K = b], h)
<1> DEFINE f == [e EXCEPT !.at1080 = a, !.at4K = b]
<1>1. e \in Details
    BY DEF DetailSound
<1>2. f \in Details /\ f.name = e.name /\ f.isHW = e.isHW /\ f.rank = e.rank
    BY <1>1 DEF Details
<1> QED BY <1>2 DEF DetailSound

\* The capabilities stay sound for the host they were discovered on.
LEMMA CapsStep == CapsSound /\ [InventoryNext]_inventoryVars => CapsSound'
<1> SUFFICES ASSUME CapsSound, [InventoryNext]_inventoryVars PROVE CapsSound'
    OBVIOUS
<1>1. CASE \E h \in Hosts : Discover(h)
  <2>1. PICK h \in Hosts : Discover(h)
      BY <1>1
  <2>2. CASE ~h.ffmpeg
      BY <2>1, <2>2 DEF Discover, CapsSound
  <2>3. CASE h.ffmpeg
    <3>1. PICK listed \in {h.lists, {}} :
            /\ caps' = BuildEncoderDetails(listed, ProbeHardwareAcceleration(h, listed))
            /\ host' = h
        BY <2>1, <2>3 DEF Discover
    <3>2. listed \subseteq h.lists
        OBVIOUS
    <3> QED BY <3>1, <3>2, DiscoveredSound DEF CapsSound
  <2> QED BY <2>2, <2>3
<1>2. CASE \E e \in caps, s \in {5, 10, 40} : Benchmarked(e, s)
  <2>1. PICK e \in caps, s \in {5, 10, 40} : Benchmarked(e, s)
      BY <1>2
  <2>2. /\ caps' = (caps \ {e}) \cup {[e EXCEPT !.at1080 = s >= 10, !.at4K = s >= 40]}
        /\ host' = host
      BY <2>1 DEF Benchmarked
  <2>3. (s >= 10) \in BOOLEAN /\ (s >= 40) \in BOOLEAN
      OBVIOUS
  <2>4. DetailSound([e EXCEPT !.at1080 = s >= 10, !.at4K = s >= 40], host)
      BY <2>3, BenchmarkedSound DEF CapsSound
  <2> QED BY <2>2, <2>4 DEF CapsSound
<1>3. CASE UNCHANGED <<host, caps>>
    BY <1>3 DEF CapsSound
<1>4. CASE BenchmarkAll \/ \E e \in caps : BenchmarkFails(e)
    BY <1>3, <1>4 DEF BenchmarkAll, BenchmarkFails
<1>5. CASE \E c \in WantedCodecs, hdr, ten \in BOOLEAN : SelectEncoder(c, hdr, ten)
    BY <1>3, <1>5 DEF SelectEncoder
<1>6. CASE UNCHANGED inventoryVars
    BY <1>3, <1>6 DEF inventoryVars
<1> QED BY <1>1, <1>2, <1>4, <1>5, <1>6 DEF InventoryNext

\* Any hardware encoder scores above any software encoder, whatever else it can do.
LEMMA HardwareAhead ==
    ASSUME NEW h, NEW e, NEW f, DetailSound(e, h), DetailSound(f, h), f.isHW, ~e.isHW
    PROVE  ~(EncoderScore(f) <= EncoderScore(e))
<1>1. e.rank \in Nat /\ f.rank \in Nat /\ e.rank <= 30
    BY DEF DetailSound, Details
<1>2. EncoderScore(f) >= 100 /\ EncoderScore(f) \in Int
    BY <1>1 DEF EncoderScore
<1>3. EncoderScore(e) <= 80 /\ EncoderScore(e) \in Int
    BY <1>1 DEF EncoderScore
<1> QED BY <1>2, <1>3

\* Which requirements were given up, by the candidates that are left.
LEMMA FilteredIs ==
    ASSUME NEW codec, NEW hdr, NEW ten
    PROVE  \/ Filtered(codec, hdr, ten) = {e \in GetEncoders(codec) : Fits(e, hdr, ten)}
           \/ /\ Filtered(codec, hdr, ten) = {e \in GetEncoders(codec) : Fits(e, FALSE, ten)}
              /\ \A e \in GetEncoders(codec) : ~Fits(e, hdr, ten)
           \/ /\ Filtered(codec, hdr, ten) = GetEncoders(codec)
              /\ \A e \in GetEncoders(codec) : ~Fits(e, hdr, ten) /\ ~Fits(e, FALSE, ten)
BY DEF Filtered

\* What SelectionSound says of an encoder e selected for a codec and its requirements.
BestOf(e, codec, hdr, ten) ==
    /\ e.name \in host.lists
    /\ e.isHW => \E i \in EncoderInfo : i.name = e.name /\ i.hw \in host.starts
    /\ ten /\ ~e.ten => \A f \in GetEncoders(codec) : ~f.ten
    /\ hdr /\ ~e.hdr => \A f \in GetEncoders(codec) : ~Fits(f, TRUE, ten)
    /\ ~e.isHW => \A f \in GetEncoders(codec) : f.isHW =>
         \/ ten /\ e.ten /\ ~f.ten
         \/ hdr /\ e.hdr /\ ~f.hdr

\* The encoder that is picked is sound, and gives up no more than it has to.
LEMMA PickSound ==
    ASSUME CapsSound, NEW codec, NEW hdr \in BOOLEAN, NEW ten \in BOOLEAN,
           NEW e \in Filtered(codec, hdr, ten),
           \A f \in Filtered(codec, hdr, ten) : EncoderScore(f) <= EncoderScore(e)
    PROVE  BestOf(e, codec, hdr, ten)
<1>1. Filtered(codec, hdr, ten) \subseteq GetEncoders(codec) /\ GetEncoders(codec) \subseteq caps
    BY FilteredIs DEF GetEncoders
<1>2. DetailSound(e, host) /\ \A f \in GetEncoders(codec) : DetailSound(f, host)
    BY <1>1 DEF CapsSound
<1>3. /\ e.ten \in BOOLEAN /\ e.hdr \in BOOLEAN /\ e \in GetEncoders(codec)
      /\ \A f \in GetEncoders(codec) : f.ten \in BOOLEAN /\ f.hdr \in BOOLEAN
    BY <1>1, <1>2 DEF DetailSound, Details
<1>4. ASSUME NEW f \in GetEncoders(codec), ~e.isHW, f.isHW
      PROVE  f \notin Filtered(codec, hdr, ten)
    BY <1>2, <1>4, HardwareAhead
<1>5. CASE Filtered(codec, hdr, ten) = {f \in GetEncoders(codec) : Fits(f, hdr, ten)}
    BY <1>2, <1>3, <1>4, <1>5 DEF Fits, DetailSound, BestOf
<1>6. CASE /\ Filtered(codec, hdr, ten) = {f \in GetEncoders(codec) : Fits(f, FALSE, ten)}
           /\ \A f \in GetEncoders(codec) : ~Fits(f, hdr, ten)
    BY <1>2, <1>3, <1>4, <1>6 DEF Fits, DetailSound, BestOf
<1>7. CASE /\ Filtered(codec, hdr, ten) = GetEncoders(codec)
           /\ \A f \in GetEncoders(codec) : ~Fits(f, hdr, ten) /\ ~Fits(f, FALSE, ten)
    BY <1>2, <1>3, <1>4, <1>7 DEF Fits, DetailSound, BestOf
<1> QED BY <1>5, <1>6, <1>7, FilteredIs

\* For every host, every list of encoders and every outcome of the benchmarks, an
\* encoder that is selected exists on the host and gives up 10-bit, HDR and hardware
\* only where nothing better is left.
THEOREM SelectionSoundAlways == InventorySpec => SelectionSound
<1>1. InventoryInit => CapsSound
    BY DEF InventoryInit, CapsSound
<1>2. CapsSound /\ [InventoryNext]_inventoryVars => CapsSound'
    BY CapsStep
<1> DEFINE Step ==
        picked' # picked =>
        LET e == picked'.enc
            want == picked'.for
            rivals == GetEncoders(want.codec)
        IN  /\ e.name \in host.lists
            /\ e.isHW => \E i \in EncoderInfo : i.name = e.name /\ i.hw \in host.starts
            /\ want.ten /\ ~e.ten => \A f \in rivals : ~f.ten
            /\ want.hdr /\ ~e.hdr => \A f \in rivals : ~Fits(f, TRUE, want.ten)
            /\ ~e.isHW => \A f \in rivals : f.isHW =>
                 \/ want.ten /\ e.ten /\ ~f.ten
                 \/ want.hdr /\ e.hdr /\ ~f.hdr
<1>3. CapsSound /\ [InventoryNext]_inventoryVars => [Step]_inventoryVars
  <2> SUFFICES ASSUME CapsSound, InventoryNext, picked' # picked PROVE Step
      BY DEF inventoryVars
  <2>1. PICK codec \in WantedCodecs, hdr, ten \in BOOLEAN : SelectEncoder(codec, hdr, ten)
      BY DEF InventoryNext, Discover, BenchmarkAll, Benchmarked, BenchmarkFails
  <2>2. PICK e \in Filtered(codec, hdr, ten) :
          /\ \A f \in Filtered(codec, hdr, ten) : EncoderScore(f) <= EncoderScore(e)
          /\ picked' = [for |-> [codec |-> codec, hdr |-> hdr, ten |-> ten], enc |-> e]
      BY <2>1 DEF SelectEncoder
  <2>3. /\ picked'.enc = e /\ picked'.for.codec = codec
        /\ picked'.for.hdr = hdr /\ picked'.for.ten = ten
      BY <2>2
  <2>4. BestOf(e, codec, hdr, ten)
      BY <2>2, PickSound
  <2> QED BY <2>3, <2>4 DEF BestOf
<1> QED BY <1>1, <1>2, <1>3, PTL DEF InventorySpec, SelectionSound

=============================================================================
