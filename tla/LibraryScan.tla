----------------------------- MODULE LibraryScan -----------------------------
(***************************************************************************)
(* Scanning one media library: ScanLibrary of internal/media/scanner.go    *)
(* run by the background goroutines of LibraryHandler.Scan                 *)
(* (internal/api/library.go), against the library and item rows of         *)
(* internal/media/store.go and the ffprobe circuit breaker.  Several scans *)
(* of the library may run at once, and it may be updated or deleted        *)
(* meanwhile.                                                              *)
(*                                                                         *)
(* Breaker operations are those of BreakerOps, one step each.  The files   *)
(* are the media files the walk finds, in its order.                       *)
(***************************************************************************)
EXTENDS BreakerOps, FiniteSets

CONSTANTS
    Scans,        \* goroutine slots for ScanLibrary
    NumFiles      \* media files in the library

ASSUME ScanConfig == NumFiles \in Nat

Files == 1..NumFiles

VARIABLES
    breaker,  \* ffprobeBreaker
    lib,      \* the library row: exists, scanned (last_scan_at is set)
    items,    \* item rows: "absent", "minimal" (file name only) or "full"
    status,   \* scanStatus[lib.ID].Status, "idle" when there is none
    scan,     \* each scan: its step, the file it is at, its probe result, its context
    editor,   \* Update between its read and its write: the row it has read
    lost      \* a save failed or the library was deleted (history)

vars == <<breaker, lib, items, status, scan, editor, lost>>

NoRow == [exists |-> FALSE, scanned |-> FALSE]
NotRunning == [at |-> "idle", file |-> 0, result |-> "none", expired |-> FALSE]

Init ==
    /\ breaker = New
    /\ lib = [exists |-> TRUE, scanned |-> FALSE]
    /\ items = [f \in Files |-> "absent"]
    /\ status = "idle"
    /\ scan = [s \in Scans |-> NotRunning]
    /\ editor = NoRow
    /\ lost = FALSE

At(s, label) == scan[s].at = label
Goto(s, label) == scan' = [scan EXCEPT ![s].at = label]

-----------------------------------------------------------------------------
(* LibraryHandler.Scan and ScanLibrary *)

\* The library is found; the goroutine starts and reports ScanStatusScanning.
\* filepath.Walk never returns an error here: its callback swallows them all.
StartScan(s) ==
    /\ At(s, "idle") /\ lib.exists
    /\ scan' = [scan EXCEPT ![s] = [NotRunning EXCEPT !.at = "next", !.file = 1]]
    /\ status' = "scanning"
    /\ UNCHANGED <<breaker, lib, items, editor, lost>>

\* Top of the loop: return without touching the status when the context is done,
\* go on with the next file, or mark the scan complete.
NextFile(s) ==
    /\ At(s, "next")
    /\ \/ /\ scan[s].expired /\ scan[s].file \in Files
          /\ Goto(s, "stamp") /\ UNCHANGED status
       \/ /\ ~scan[s].expired /\ scan[s].file \in Files
          /\ Goto(s, "allow") /\ UNCHANGED status
       \/ /\ scan[s].file \notin Files
          /\ Goto(s, "stamp") /\ status' = "completed"
    /\ UNCHANGED <<breaker, lib, items, editor, lost>>

\* Faulty variant: a file whose probe is rejected is skipped.
AllowSkips(s) ==
    /\ At(s, "allow")
    /\ breaker' = AfterAllow(breaker)
    /\ scan' = IF Allowed(breaker)
                 THEN [scan EXCEPT ![s].at = "probe"]
                 ELSE [scan EXCEPT ![s].at = "next", ![s].file = @ + 1]
    /\ UNCHANGED <<lib, items, status, editor, lost>>

\* ffprobeBreaker.Do admits the probe, or returns ErrCircuitOpen with probeErr
\* still "not attempted".
Allow(s) ==
    /\ At(s, "allow")
    /\ breaker' = AfterAllow(breaker)
    /\ scan' = IF Allowed(breaker)
                 THEN [scan EXCEPT ![s].at = "probe"]
                 ELSE [scan EXCEPT ![s].at = "record", ![s].result = "failed"]
    /\ UNCHANGED <<lib, items, status, editor, lost>>

\* Probe returns and Do records its outcome.
Probe(s) ==
    /\ At(s, "probe")
    /\ \E ok \in BOOLEAN :
           /\ ok => ~scan[s].expired
           /\ scan' = [scan EXCEPT ![s].at = "record",
                                   ![s].result = IF ok THEN "probed" ELSE "failed"]
           /\ breaker' = IF ok THEN AfterSuccess(breaker) ELSE AfterFailure(breaker)
    /\ UNCHANGED <<lib, items, status, editor, lost>>

\* ScanLibrary records the outcome a second time, a rejected probe as a failure.
Record(s) ==
    /\ At(s, "record")
    /\ breaker' = IF scan[s].result = "probed" THEN AfterSuccess(breaker)
                                               ELSE AfterFailure(breaker)
    /\ Goto(s, "save")
    /\ UNCHANGED <<lib, items, status, editor, lost>>

Advance(s) == scan' = [scan EXCEPT ![s].at = "next", ![s].file = @ + 1, ![s].result = "none"]

\* SaveMediaItem inserts or overwrites the row of this path; progress is reported.
\* "PRAGMA foreign_keys = ON" was sent to one connection of the pool: on any other
\* the insert succeeds even when the library is gone.
Save(s) ==
    /\ At(s, "save") /\ ~scan[s].expired
    /\ items' = [items EXCEPT ![scan[s].file] =
                    IF scan[s].result = "probed" THEN "full" ELSE "minimal"]
    /\ status' = "scanning"
    /\ Advance(s)
    /\ UNCHANGED <<breaker, lib, editor, lost>>

\* Faulty variant: a failed save is tried again, for ever.
SaveFailsRetries(s) ==
    /\ At(s, "save")
    /\ lost' = TRUE
    /\ Goto(s, "record")
    /\ UNCHANGED <<breaker, lib, items, status, editor>>

\* SaveMediaItem fails (context done, foreign key, database error): continue.
SaveFails(s) ==
    /\ At(s, "save")
    /\ lost' = TRUE
    /\ Advance(s)
    /\ UNCHANGED <<breaker, lib, items, status, editor>>

\* UpdateLibraryScanTime, whatever ScanLibrary returned; it fails when the
\* context it shares with the scan is done.
StampScanTime(s) ==
    /\ At(s, "stamp")
    /\ lib' = IF lib.exists /\ ~scan[s].expired THEN [lib EXCEPT !.scanned = TRUE] ELSE lib
    /\ scan' = [scan EXCEPT ![s] = NotRunning]
    /\ UNCHANGED <<breaker, items, status, editor, lost>>

\* The one-hour timeout of the scan's context.
Expire(s) ==
    /\ ~At(s, "idle") /\ ~scan[s].expired
    /\ scan' = [scan EXCEPT ![s].expired = TRUE]
    /\ UNCHANGED <<breaker, lib, items, status, editor, lost>>

-----------------------------------------------------------------------------
(* LibraryHandler.Update and Delete *)

UpdateRead ==
    /\ lib.exists /\ ~editor.exists
    /\ editor' = lib
    /\ UNCHANGED <<breaker, lib, items, status, scan, lost>>

\* SaveLibrary upserts the whole row as it was read.
UpdateWrite ==
    /\ editor.exists
    /\ lib' = editor
    /\ editor' = NoRow
    /\ UNCHANGED <<breaker, items, status, scan, lost>>

\* DELETE FROM libraries; the items go with it if the connection that runs the
\* statement enforces foreign keys.
Delete ==
    /\ lib.exists
    /\ lib' = NoRow
    /\ \E foreignKeys \in BOOLEAN :
          items' = IF foreignKeys THEN [f \in Files |-> "absent"] ELSE items
    /\ lost' = TRUE
    /\ UNCHANGED <<breaker, status, scan, editor>>

-----------------------------------------------------------------------------
(* The breaker's timeout passes: between scans, or while one of them stalls. *)

Elapse ==
    /\ breaker.lastFailure = "fresh"
    /\ breaker' = AfterTimeout(breaker)
    /\ UNCHANGED <<lib, items, status, scan, editor, lost>>

Step(s) ==
    \/ NextFile(s) \/ Allow(s) \/ Probe(s) \/ Record(s) \/ Save(s) \/ SaveFails(s)
    \/ StampScanTime(s)

Next ==
    \/ \E s \in Scans : StartScan(s) \/ Step(s) \/ Expire(s)
    \/ UpdateRead \/ UpdateWrite \/ Delete
    \/ Elapse

Spec == Init /\ [][Next]_vars

\* A started scan keeps going.
FairSpec == Spec /\ \A s \in Scans : WF_vars(Step(s))

-----------------------------------------------------------------------------
(* Properties *)

\* Every variable stays in its range: ScanLibrary never goes past the file after
\* the last one, and the ffprobe breaker's counters stay in range.
TypeOK ==
    /\ breaker \in Breakers
    /\ lib \in [exists : BOOLEAN, scanned : BOOLEAN]
    /\ items \in [Files -> {"absent", "minimal", "full"}]
    /\ status \in {"idle", "scanning", "completed"}
    /\ scan \in [Scans -> [at : {"idle", "next", "allow", "probe", "record", "save", "stamp"},
                           file : 0..(NumFiles + 1), result : {"none", "probed", "failed"},
                           expired : BOOLEAN]]
    /\ editor \in [exists : BOOLEAN, scanned : BOOLEAN]
    /\ lost \in BOOLEAN

\* A scan reported as completed has indexed every file, unless a save failed or
\* the library was deleted: no outcome of a probe and no rejection by the
\* breaker makes ScanLibrary skip a file.
CompletedIsIndexed ==
    status = "completed" /\ ~lost => \A f \in Files : items[f] # "absent"

\* Scans stay within the library's files and the breaker's range, and one that is
\* reported as completed has indexed them all.
ScanSound == TypeOK /\ CompletedIsIndexed

\* "DeleteLibrary removes a library and its items": no item row outlives its
\* library, whether or not a scan is still running when it is deleted.
NoOrphanItems == ~lib.exists => \A f \in Files : items[f] = "absent"

\* Every scan that was started ends.
ScansEnd == \A s \in Scans : ~At(s, "idle") ~> At(s, "idle")
=============================================================================
