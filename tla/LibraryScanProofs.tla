-------------------------- MODULE LibraryScanProofs --------------------------
(***************************************************************************)
(* A scan reported as completed has indexed the library, for any number of *)
(* files, of concurrent scans and for every setting of the breaker.        *)
(***************************************************************************)
EXTENDS LibraryScan, TLAPS

ScanRecords == [at : {"idle", "next", "allow", "probe", "record", "save", "stamp"},
                file : 0..(NumFiles + 1), result : {"none", "probed", "failed"},
                expired : BOOLEAN]

\* What a scan has behind it is indexed, and while it works on a file there is one.
Behind(s) ==
    /\ At(s, "next") => scan[s].file \in 1..(NumFiles + 1)
    /\ scan[s].at \in {"allow", "probe", "record", "save"} => scan[s].file \in Files
    /\ ~lost => \A f \in Files : f < scan[s].file => items[f] # "absent"

IInv == TypeOK /\ CompletedIsIndexed /\ \A s \in Scans : Behind(s)

-----------------------------------------------------------------------------
(* The breaker's operations keep its record's type. *)

\* One more failure keeps the saturated counter in its range.
LEMMA BumpType == \A n \in 0..FailureThreshold : Bump(n) \in 0..FailureThreshold
BY BreakerConfig DEF Bump

\* Each operation of the breaker returns a breaker.
LEMMA BreakerTypes ==
    ASSUME NEW b \in Breakers
    PROVE  /\ AfterAllow(b) \in Breakers /\ AfterSuccess(b) \in Breakers
           /\ AfterFailure(b) \in Breakers /\ AfterTimeout(b) \in Breakers
<1>1. /\ b.state \in States /\ b.failures \in 0..FailureThreshold
      /\ b.successes \in Nat /\ b.lastFailure \in Stamps
    BY DEF Breakers
<1>2. AfterAllow(b) \in Breakers
    BY DEF Breakers, AfterAllow, States
<1>3. AfterSuccess(b) \in Breakers
  <2>1. 0 \in 0..FailureThreshold /\ b.successes + 1 \in Nat
      BY <1>1, BreakerConfig
  <2> QED BY <1>1, <2>1 DEF Breakers, AfterSuccess, States
<1>4. AfterFailure(b) \in Breakers
  <2>1. Bump(b.failures) \in 0..FailureThreshold
      BY <1>1, BumpType
  <2> HIDE DEF Bump
  <2> QED BY <1>1, <2>1 DEF Breakers, AfterFailure, States, Stamps
<1>5. AfterTimeout(b) \in Breakers
    BY <1>1 DEF Breakers, AfterTimeout, Stamps
<1> QED BY <1>2, <1>3, <1>4, <1>5

-----------------------------------------------------------------------------
(* What an action does to the scan it belongs to, and to the others *)

\* Moving on within a file leaves everything behind as it was.
LEMMA GotoTypes ==
    ASSUME TypeOK, NEW s \in Scans,
           NEW label \in {"idle", "next", "allow", "probe", "record", "save", "stamp"},
           Goto(s, label)
    PROVE  /\ scan' \in [Scans -> ScanRecords]
           /\ scan'[s].at = label /\ scan'[s].file = scan[s].file
           /\ \A t \in Scans : t # s => scan'[t] = scan[t]
BY DEF TypeOK, ScanRecords, Goto

\* The loop goes on with the file after this one.
LEMMA AdvanceTypes ==
    ASSUME TypeOK, NEW s \in Scans, scan[s].file \in Files, Advance(s)
    PROVE  /\ scan' \in [Scans -> ScanRecords]
           /\ scan'[s].at = "next" /\ scan'[s].file = scan[s].file + 1
           /\ \A t \in Scans : t # s => scan'[t] = scan[t]
<1>1. scan[s].file + 1 \in 0..(NumFiles + 1)
    BY ScanConfig DEF Files
<1>2. scan \in [Scans -> ScanRecords]
    BY DEF TypeOK, ScanRecords
<1> QED BY <1>1, <1>2 DEF Advance, ScanRecords

\* A step that is about at most the scan s, takes nothing from the index and does not
\* report completion leaves the other scans and the report as they were.
LEMMA Others ==
    ASSUME CompletedIsIndexed, \A t \in Scans : Behind(t), NEW s,
           \A t \in Scans : t # s => scan'[t] = scan[t],
           s \in Scans => Behind(s)',
           lost => lost',
           ~lost' => \A f \in Files : items[f] # "absent" => items'[f] # "absent",
           status' = "completed" => status = "completed"
    PROVE  CompletedIsIndexed' /\ \A t \in Scans : Behind(t)'
<1>1. CompletedIsIndexed'
    BY DEF CompletedIsIndexed
<1>2. ASSUME NEW t \in Scans PROVE Behind(t)'
  <2>1. CASE t # s
      BY <2>1 DEF Behind, At
  <2>2. CASE t = s
      BY <2>2
  <2> QED BY <2>1, <2>2
<1> QED BY <1>1, <1>2

\* A scan that stays at its file, and does not start one, has the same behind it.
LEMMA SameFile ==
    ASSUME NEW s \in Scans, Behind(s), scan'[s].file = scan[s].file,
           scan[s].file \in Files \/ scan'[s].at \in {"idle", "stamp"}, scan'[s].at # "next",
           UNCHANGED <<items, lost>>
    PROVE  Behind(s)'
BY DEF Behind, At

-----------------------------------------------------------------------------
(* The invariant, action by action *)

\* A scan starts with nothing behind it.
LEMMA StartScanInv ==
    ASSUME IInv, NEW s \in Scans, StartScan(s)
    PROVE  IInv'
<1>1. /\ scan' = [scan EXCEPT ![s] = [NotRunning EXCEPT !.at = "next", !.file = 1]]
      /\ status' = "scanning" /\ UNCHANGED <<breaker, lib, items, editor, lost>>
    BY DEF StartScan
<1>2. /\ [NotRunning EXCEPT !.at = "next", !.file = 1] \in ScanRecords
      /\ [NotRunning EXCEPT !.at = "next", !.file = 1].at = "next"
      /\ [NotRunning EXCEPT !.at = "next", !.file = 1].file = 1
  <2>1. NotRunning \in ScanRecords
      BY ScanConfig DEF NotRunning, ScanRecords
  <2>2. 1 \in 0..(NumFiles + 1)
      BY ScanConfig
  <2> QED BY <2>1, <2>2 DEF ScanRecords
<1>3. scan \in [Scans -> ScanRecords]
    BY DEF IInv, TypeOK, ScanRecords
<1>4. /\ scan' \in [Scans -> ScanRecords] /\ scan'[s].at = "next" /\ scan'[s].file = 1
      /\ \A t \in Scans : t # s => scan'[t] = scan[t]
    BY <1>1, <1>2, <1>3
<1>5. TypeOK'
    BY <1>1, <1>4 DEF IInv, TypeOK, ScanRecords
<1>6. Behind(s)'
    BY <1>1, <1>4, ScanConfig DEF Behind, At, Files
<1> QED BY <1>1, <1>4, <1>5, <1>6, Others DEF IInv

\* The loop is left with every file behind it, or by the context with no report.
LEMMA NextFileInv ==
    ASSUME IInv, NEW s \in Scans, NextFile(s)
    PROVE  IInv'
<1>1. /\ At(s, "next") /\ UNCHANGED <<breaker, lib, items, editor, lost>>
      /\ \/ scan[s].file \in Files /\ Goto(s, "stamp") /\ UNCHANGED status
         \/ scan[s].file \in Files /\ Goto(s, "allow") /\ UNCHANGED status
         \/ scan[s].file \notin Files /\ Goto(s, "stamp") /\ status' = "completed"
    BY DEF NextFile
<1>2. /\ scan' \in [Scans -> ScanRecords]
      /\ scan'[s].at \in {"stamp", "allow"} /\ scan'[s].file = scan[s].file
      /\ scan'[s].at = "allow" => scan[s].file \in Files
      /\ \A t \in Scans : t # s => scan'[t] = scan[t]
    BY <1>1, GotoTypes DEF IInv
<1>3. status' \in {"idle", "scanning", "completed"}
    BY <1>1 DEF IInv, TypeOK
<1>4. TypeOK'
    BY <1>1, <1>2, <1>3 DEF IInv, TypeOK, ScanRecords
<1>5. Behind(s)'
    BY <1>1, <1>2 DEF IInv, Behind, At
<1>6. CASE UNCHANGED status
    BY <1>1, <1>2, <1>4, <1>5, <1>6, Others DEF IInv
<1>7. CASE scan[s].file \notin Files
  <2>1. scan[s].file = NumFiles + 1
      BY <1>1, <1>7, ScanConfig DEF IInv, Behind, Files
  <2>2. \A f \in Files : f < scan[s].file
      BY <2>1, ScanConfig DEF Files
  <2>3. CompletedIsIndexed'
      BY <1>1, <2>2 DEF IInv, Behind, CompletedIsIndexed
  <2>4. \A t \in Scans : Behind(t)'
      BY <1>1, <1>2, <1>5 DEF IInv, Behind, At
  <2> QED BY <1>4, <2>3, <2>4 DEF IInv
<1> QED BY <1>1, <1>6, <1>7

\* Whatever the breaker and the probe say, the scan stays at its file.
LEMMA ProbeInv ==
    ASSUME IInv, NEW s \in Scans, Allow(s) \/ Probe(s) \/ Record(s)
    PROVE  IInv'
<1>1. scan[s].at \in {"allow", "probe", "record"} /\ UNCHANGED <<lib, items, status, editor, lost>>
    BY DEF Allow, Probe, Record, At
<1>2. breaker' \in Breakers
    BY BreakerTypes DEF IInv, TypeOK, Allow, Probe, Record
<1>3. PICK label \in {"probe", "record", "save"}, result \in {"none", "probed", "failed"} :
          scan' = [scan EXCEPT ![s].at = label, ![s].result = result]
  <2>1. scan \in [Scans -> ScanRecords]
      BY DEF IInv, TypeOK, ScanRecords
  <2>2. \A label : [scan EXCEPT ![s].at = label]
                   = [scan EXCEPT ![s].at = label, ![s].result = scan[s].result]
      BY <2>1 DEF ScanRecords
  <2>3. scan[s].result \in {"none", "probed", "failed"}
      BY <2>1 DEF ScanRecords
  <2> QED BY <2>2, <2>3 DEF Allow, Probe, Record, Goto
<1>4. /\ scan' \in [Scans -> ScanRecords] /\ scan'[s].at = label /\ scan'[s].file = scan[s].file
      /\ \A t \in Scans : t # s => scan'[t] = scan[t]
  <2>1. scan \in [Scans -> ScanRecords]
      BY DEF IInv, TypeOK, ScanRecords
  <2> QED BY <1>3, <2>1 DEF ScanRecords
<1>5. TypeOK'
    BY <1>1, <1>2, <1>4 DEF IInv, TypeOK, ScanRecords
<1>6. Behind(s) /\ scan[s].file \in Files
    BY <1>1 DEF IInv, Behind
<1>7. Behind(s)'
    BY <1>1, <1>4, <1>6, SameFile
<1> QED BY <1>1, <1>4, <1>5, <1>7, Others DEF IInv

\* The file of the scan is indexed before it goes on to the next one.
LEMMA SaveInv ==
    ASSUME IInv, NEW s \in Scans, Save(s)
    PROVE  IInv'
<1>1. /\ At(s, "save") /\ status' = "scanning" /\ Advance(s) /\ UNCHANGED <<breaker, lib, editor, lost>>
    BY DEF Save
<1>2. PICK row \in {"full", "minimal"} : items' = [items EXCEPT ![scan[s].file] = row]
    BY DEF Save
<1>3. Behind(s) /\ scan[s].file \in Files
    BY <1>1 DEF IInv, Behind, At
<1>4. /\ scan' \in [Scans -> ScanRecords] /\ scan'[s].at = "next"
      /\ scan'[s].file = scan[s].file + 1
      /\ \A t \in Scans : t # s => scan'[t] = scan[t]
    BY <1>1, <1>3, AdvanceTypes DEF IInv
<1>5. /\ items' \in [Files -> {"absent", "minimal", "full"}]
      /\ items'[scan[s].file] # "absent"
      /\ \A f \in Files : items[f] # "absent" => items'[f] # "absent"
    BY <1>2, <1>3 DEF IInv, TypeOK
<1>6. TypeOK'
    BY <1>1, <1>4, <1>5 DEF IInv, TypeOK, ScanRecords
<1>7. Behind(s)'
  <2>1. scan'[s].file \in 1..(NumFiles + 1)
      BY <1>3, <1>4, ScanConfig DEF Files
  <2>2. \A f \in Files : f < scan'[s].file => f < scan[s].file \/ f = scan[s].file
      BY <1>3, <1>4, ScanConfig DEF Files
  <2> QED BY <1>1, <1>3, <1>4, <1>5, <2>1, <2>2 DEF Behind, At
<1> QED BY <1>1, <1>4, <1>5, <1>6, <1>7, Others DEF IInv

\* A failed save goes on as well; lost remembers it.
LEMMA SaveFailsInv ==
    ASSUME IInv, NEW s \in Scans, SaveFails(s)
    PROVE  IInv'
<1>1. At(s, "save") /\ lost' = TRUE /\ Advance(s) /\ UNCHANGED <<breaker, lib, items, status, editor>>
    BY DEF SaveFails
<1>2. scan[s].file \in Files
    BY <1>1 DEF IInv, Behind, At
<1>3. /\ scan' \in [Scans -> ScanRecords] /\ scan'[s].at = "next"
      /\ scan'[s].file = scan[s].file + 1
      /\ \A t \in Scans : t # s => scan'[t] = scan[t]
    BY <1>1, <1>2, AdvanceTypes DEF IInv
<1>4. TypeOK'
    BY <1>1, <1>3 DEF IInv, TypeOK, ScanRecords
<1>5. scan'[s].file \in 1..(NumFiles + 1)
    BY <1>2, <1>3, ScanConfig DEF Files
<1>6. Behind(s)'
    BY <1>1, <1>3, <1>5 DEF Behind, At
<1> QED BY <1>1, <1>3, <1>4, <1>6, Others DEF IInv

\* The scan is over, whatever it has indexed.
LEMMA StampInv ==
    ASSUME IInv, NEW s \in Scans, StampScanTime(s)
    PROVE  IInv'
<1>1. /\ scan' = [scan EXCEPT ![s] = NotRunning] /\ UNCHANGED <<breaker, items, status, editor, lost>>
      /\ lib' = lib \/ lib' = [lib EXCEPT !.scanned = TRUE]
    BY DEF StampScanTime
<1>2. NotRunning \in ScanRecords /\ NotRunning.at = "idle" /\ NotRunning.file = 0
    BY ScanConfig DEF NotRunning, ScanRecords
<1>3. scan \in [Scans -> ScanRecords]
    BY DEF IInv, TypeOK, ScanRecords
<1>4. /\ scan' \in [Scans -> ScanRecords] /\ scan'[s].at = "idle" /\ scan'[s].file = 0
      /\ \A t \in Scans : t # s => scan'[t] = scan[t]
    BY <1>1, <1>2, <1>3
<1>5. lib' \in [exists : BOOLEAN, scanned : BOOLEAN]
    BY <1>1 DEF IInv, TypeOK
<1>6. TypeOK'
    BY <1>1, <1>4, <1>5 DEF IInv, TypeOK, ScanRecords
<1>7. Behind(s)'
    BY <1>4, ScanConfig DEF Behind, At, Files
<1> QED BY <1>1, <1>4, <1>6, <1>7, Others DEF IInv

\* The timeout of its context moves no scan.
LEMMA ExpireInv ==
    ASSUME IInv, NEW s \in Scans, Expire(s)
    PROVE  IInv'
<1>1. scan' = [scan EXCEPT ![s].expired = TRUE] /\ UNCHANGED <<breaker, lib, items, status, editor, lost>>
    BY DEF Expire
<1>2. /\ scan' \in [Scans -> ScanRecords]
      /\ scan'[s].at = scan[s].at /\ scan'[s].file = scan[s].file
      /\ \A t \in Scans : t # s => scan'[t] = scan[t]
    BY <1>1 DEF IInv, TypeOK, ScanRecords
<1>3. TypeOK'
    BY <1>1, <1>2 DEF IInv, TypeOK, ScanRecords
<1>4. Behind(s)'
    BY <1>1, <1>2 DEF IInv, Behind, At
<1> QED BY <1>1, <1>2, <1>3, <1>4, Others DEF IInv

\* Updating the library's row and the passing of time leave the scans alone, and
\* deleting the library is remembered.
LEMMA EnvironmentInv ==
    ASSUME IInv, UpdateRead \/ UpdateWrite \/ Delete \/ Elapse
    PROVE  IInv'
<1>1. /\ UNCHANGED <<status, scan>> /\ (lost' = lost \/ lost' = TRUE)
      /\ (items' = items \/ (items' = [f \in Files |-> "absent"] /\ lost' = TRUE))
    BY DEF UpdateRead, UpdateWrite, Delete, Elapse
<1>2. /\ lib' \in [exists : BOOLEAN, scanned : BOOLEAN]
      /\ editor' \in [exists : BOOLEAN, scanned : BOOLEAN]
  <2>1. NoRow \in [exists : BOOLEAN, scanned : BOOLEAN]
      BY DEF NoRow
  <2>2. lib' \in {lib, editor, NoRow} /\ editor' \in {lib, editor, NoRow}
      BY DEF UpdateRead, UpdateWrite, Delete, Elapse
  <2> QED BY <2>1, <2>2 DEF IInv, TypeOK
<1>3. breaker' \in Breakers
    BY BreakerTypes DEF IInv, TypeOK, UpdateRead, UpdateWrite, Delete, Elapse
<1>4. items' \in [Files -> {"absent", "minimal", "full"}] /\ lost' \in BOOLEAN
    BY <1>1 DEF IInv, TypeOK
<1>5. TypeOK'
    BY <1>1, <1>2, <1>3, <1>4 DEF IInv, TypeOK
<1>6. CompletedIsIndexed' /\ \A t \in Scans : Behind(t)'
    BY <1>1 DEF IInv, CompletedIsIndexed, Behind, At
<1> QED BY <1>5, <1>6 DEF IInv

-----------------------------------------------------------------------------

\* Before the first scan nothing is indexed and nothing reported.
LEMMA InitInv == Init => IInv
<1> SUFFICES ASSUME Init PROVE IInv
    OBVIOUS
<1>1. NotRunning \in ScanRecords /\ NotRunning.at = "idle" /\ NotRunning.file = 0
    BY ScanConfig DEF NotRunning, ScanRecords
<1>2. New \in Breakers
    BY BreakerConfig DEF New, Breakers, States, Stamps
<1>3. scan \in [Scans -> ScanRecords] /\ \A s \in Scans : scan[s] = NotRunning
    BY <1>1 DEF Init
<1>4. TypeOK
    BY <1>2, <1>3 DEF Init, TypeOK, ScanRecords, NoRow
<1>5. CompletedIsIndexed
    BY DEF Init, CompletedIsIndexed
<1>6. \A s \in Scans : Behind(s)
    BY <1>1, <1>3, ScanConfig DEF Behind, At, Files
<1> QED BY <1>4, <1>5, <1>6 DEF IInv

\* Every step of every scan, of the library API and of the clock.
LEMMA NextInv == IInv /\ [Next]_vars => IInv'
<1> SUFFICES ASSUME IInv, [Next]_vars PROVE IInv'
    OBVIOUS
<1>1. ASSUME NEW s \in Scans, StartScan(s) \/ Step(s) \/ Expire(s) PROVE IInv'
    BY <1>1, StartScanInv, NextFileInv, ProbeInv, SaveInv, SaveFailsInv, StampInv, ExpireInv
    DEF Step
<1>2. CASE UpdateRead \/ UpdateWrite \/ Delete \/ Elapse
    BY <1>2, EnvironmentInv
<1>3. CASE UNCHANGED vars
    BY <1>3 DEF vars, IInv, TypeOK, CompletedIsIndexed, Behind, At
<1> QED BY <1>1, <1>2, <1>3 DEF Next

\* However many scans of the library run at once, whatever the probes return and the
\* breaker rejects, a library whose scan is reported as completed has a row for
\* every media file, unless a save failed or the library was deleted meanwhile.
THEOREM ScanSoundAlways == Spec => []ScanSound
<1>1. IInv => ScanSound
    BY DEF IInv, ScanSound
<1> QED BY <1>1, InitInv, NextInv, PTL DEF Spec
=============================================================================
