--------------------------- MODULE StreamSessions ---------------------------
(***************************************************************************)
(* HLS streaming: the session table and temporary files of                 *)
(* internal/stream/handler.go and GenerateHLS of segmenter.go.             *)
(*                                                                         *)
(* A request to ServeHLS runs GenerateHLS under the ffmpeg breaker, or     *)
(* falls back to direct play when the breaker rejects it, then registers a *)
(* session and, outside the lock, sets its ManifestPath.  GenerateHLS runs *)
(* one goroutine per variant: each makes its directory, runs ffmpeg and    *)
(* sends its result on a buffered channel; the caller collects the results *)
(* and gives up at the first error while the others still run.             *)
(* EndSession, the minute-by-minute cleanup loop and a restart of the      *)
(* process act on the same sessions and directories.  A request names its  *)
(* session and its hls_<nanoseconds> directory.                            *)
(*                                                                         *)
(* Time is abstracted to the one question cleanup asks: more than          *)
(* sessionTTL ago or not.  The breaker's verdict is any it can give        *)
(* (Breaker.tla), and so is what becomes of an ffmpeg process.             *)
(***************************************************************************)
EXTENDS Naturals, FiniteSets

CONSTANTS Requests, Variants, Enders, MaxBytes

ASSUME StreamConfig == IsFiniteSet(Variants) /\ Variants # {} /\ MaxBytes \in Nat

VARIABLES
    pc,        \* where each ServeHLS request is
    worker,    \* step of each variant's goroutine of a request's GenerateHLS
    results,   \* resultChan: what was sent and not yet received
    playlists, \* manifest.Variants
    files,     \* the variants whose directory exists
    sessions,  \* h.sessions, by the request that started them
    access,    \* LastAccess of each session: "fresh" or "expired"
    manifest,  \* ManifestPath: "" unset, "hls" the request's own directory, "media" the item
    bytes,     \* BytesServed
    dirs,      \* the request's directory: "absent", "fresh" or "old" modification time
    media,     \* whether the directory of the media item is there
    ender,     \* each goroutine in EndSession: its step and its locals
    ended,     \* EventStreamEnded events published for a session
    reported,  \* BytesServed of the last of them
    listed,    \* directory entries the cleanup loop has still to look at
    crashed    \* the process has been restarted

gen == <<worker, results, playlists>>
session == <<sessions, access, manifest, bytes>>
ending == <<ender, ended, reported>>
vars == <<pc, gen, files, session, dirs, media, ending, listed, crashed>>

None == "none"
Idle == [at |-> "idle", id |-> None, ok |-> FALSE, path |-> ""]

Init ==
    /\ pc = [r \in Requests |-> "new"]
    /\ worker = [r \in Requests |-> [v \in Variants |-> "none"]]
    /\ results = [r \in Requests |-> {}]
    /\ playlists = [r \in Requests |-> {}]
    /\ files = [r \in Requests |-> {}]
    /\ sessions = {}
    /\ access = [r \in Requests |-> "fresh"]
    /\ manifest = [r \in Requests |-> ""]
    /\ bytes = [r \in Requests |-> 0]
    /\ dirs = [r \in Requests |-> "absent"]
    /\ media = TRUE
    /\ ender = [e \in Enders |-> Idle]
    /\ ended = [r \in Requests |-> 0]
    /\ reported = [r \in Requests |-> 0]
    /\ listed = {}
    /\ crashed = FALSE

\* os.RemoveAll of the session directories of the requests in gone.
RemoveDirs(gone) ==
    /\ dirs' = [r \in Requests |-> IF r \in gone THEN "absent" ELSE dirs[r]]
    /\ files' = [r \in Requests |-> IF r \in gone THEN {} ELSE files[r]]

Goto(r, label) == pc' = [pc EXCEPT ![r] = label]

-----------------------------------------------------------------------------
(* ServeHLS *)

\* The item's file is gone, the breaker is open and the format cannot be played
\* directly, or no session identifier can be drawn: an error response.
ServeRefused(r) ==
    /\ pc[r] \in {"new", "generated"}
    /\ Goto(r, "failed")
    /\ UNCHANGED <<gen, files, session, dirs, media, ending, listed, crashed>>

\* StartSession after GenerateHLS, or after a rejection by the breaker
\* (serveFallbackDirect).
StartSession(r) ==
    /\ \/ pc[r] = "generated" /\ Goto(r, "assign")
       \/ pc[r] = "new" /\ media /\ Goto(r, "assignDirect")
    /\ sessions' = sessions \union {r}
    /\ access' = [access EXCEPT ![r] = "fresh"]
    /\ UNCHANGED <<gen, files, manifest, bytes, dirs, media, ending, listed, crashed>>

\* session.ManifestPath = manifest.MasterPlaylist, and the response.
AssignManifest(r) ==
    /\ pc[r] = "assign"
    /\ manifest' = [manifest EXCEPT ![r] = "hls"]
    /\ Goto(r, "done")
    /\ UNCHANGED <<gen, files, sessions, access, bytes, dirs, media, ending, listed, crashed>>

\* session.ManifestPath = item.Path in serveFallbackDirect, and the response.
AssignDirect(r) ==
    /\ pc[r] = "assignDirect"
    /\ manifest' = [manifest EXCEPT ![r] = "media"]
    /\ Goto(r, "done")
    /\ UNCHANGED <<gen, files, sessions, access, bytes, dirs, media, ending, listed, crashed>>

-----------------------------------------------------------------------------
(* GenerateHLS *)

\* Stat succeeds, the breaker admits the call, the session directory is made and
\* the goroutines start.
ServeGenerate(r) ==
    /\ pc[r] = "new" /\ media
    /\ Goto(r, "generate")
    /\ dirs' = [dirs EXCEPT ![r] = "fresh"]
    /\ worker' = [worker EXCEPT ![r] = [v \in Variants |-> "start"]]
    /\ UNCHANGED <<results, playlists, files, session, media, ending, listed, crashed>>

\* Faulty variant: room for a single result.
CapacityOne == 1

\* make(chan variantResult, len(variants))
Capacity == Cardinality(Variants)

Send(r, v, err) ==
    /\ Cardinality(results[r]) < Capacity
    /\ results' = [results EXCEPT ![r] = @ \union {[variant |-> v, err |-> err]}]
    /\ worker' = [worker EXCEPT ![r][v] = "done"]

\* The goroutine gets past the context and name checks and makes its directory,
\* the session directory with it.
VariantMkdir(r, v) ==
    /\ worker[r][v] = "start"
    /\ worker' = [worker EXCEPT ![r][v] = "ffmpeg"]
    /\ files' = [files EXCEPT ![r] = @ \union {v}]
    /\ dirs' = [dirs EXCEPT ![r] = "fresh"]
    /\ UNCHANGED <<pc, results, playlists, session, media, ending, listed, crashed>>

\* Cancelled context, invalid name, MkdirAll or ffmpeg error, or a recovered panic.
VariantFail(r, v) ==
    /\ worker[r][v] \in {"start", "ffmpeg"}
    /\ Send(r, v, TRUE)
    /\ UNCHANGED <<pc, playlists, files, session, dirs, media, ending, listed, crashed>>

\* ffmpeg can write its playlist only while its directory is there.
VariantOk(r, v) ==
    /\ worker[r][v] = "ffmpeg" /\ v \in files[r]
    /\ Send(r, v, FALSE)
    /\ UNCHANGED <<pc, playlists, files, session, dirs, media, ending, listed, crashed>>

\* os.RemoveAll(sessionDir) and the error return.
GiveUp(r) == RemoveDirs({r}) /\ Goto(r, "failed")

\* Faulty variant: does not look at the error of a result.
CollectUnchecked(r) ==
    /\ pc[r] = "generate"
    /\ \E res \in results[r] :
          /\ results' = [results EXCEPT ![r] = @ \ {res}]
          /\ playlists' = [playlists EXCEPT ![r] = @ \union {res.variant}]
    /\ UNCHANGED <<pc, dirs, files, worker, session, media, ending, listed, crashed>>

\* The caller receives a result; an error ends GenerateHLS while other variants
\* may still be running.
Collect(r) ==
    /\ pc[r] = "generate"
    /\ \E res \in results[r] :
          /\ results' = [results EXCEPT ![r] = @ \ {res}]
          /\ IF res.err
               THEN GiveUp(r) /\ UNCHANGED playlists
               ELSE /\ playlists' = [playlists EXCEPT ![r] = @ \union {res.variant}]
                    /\ UNCHANGED <<pc, dirs, files>>
    /\ UNCHANGED <<worker, session, media, ending, listed, crashed>>

\* All results are in: write the master playlist into the directory.
WriteMaster(r) ==
    /\ pc[r] = "generate" /\ playlists[r] = Variants
    /\ \/ /\ dirs[r] # "absent"
          /\ Goto(r, "generated")
          /\ dirs' = [dirs EXCEPT ![r] = "fresh"]
          /\ UNCHANGED files
       \/ GiveUp(r)
    /\ UNCHANGED <<gen, session, media, ending, listed, crashed>>

-----------------------------------------------------------------------------
(* Operations on a session, by clients that hold its identifier *)

GetSession(r) ==
    /\ pc[r] = "done" /\ r \in sessions
    /\ access' = [access EXCEPT ![r] = "fresh"]
    /\ UNCHANGED <<pc, gen, files, sessions, manifest, bytes, dirs, media, ending, listed, crashed>>

\* Faulty variant: counts on a session that is no longer in the table.
UpdateBytesServedUnchecked(r) ==
    /\ pc[r] = "done"
    /\ bytes[r] < MaxBytes
    /\ bytes' = [bytes EXCEPT ![r] = @ + 1]
    /\ UNCHANGED <<pc, gen, files, sessions, access, manifest, dirs, media, ending, listed, crashed>>

UpdateBytesServed(r) ==
    /\ pc[r] = "done" /\ r \in sessions
    /\ bytes[r] < MaxBytes
    /\ bytes' = [bytes EXCEPT ![r] = @ + 1]
    /\ UNCHANGED <<pc, gen, files, sessions, access, manifest, dirs, media, ending, listed, crashed>>

\* Faulty variant: takes a session it did not find for found.
EndTakeAlwaysOk(e, r) ==
    /\ ender[e].at = "idle" /\ pc[r] = "done"
    /\ ender' = [ender EXCEPT ![e] =
                   [at |-> "remove", id |-> r, ok |-> TRUE,
                    path |-> IF r \in sessions THEN manifest[r] ELSE ""]]
    /\ sessions' = sessions \ {r}
    /\ UNCHANGED <<pc, gen, files, access, manifest, bytes, dirs, media, ended, reported, listed, crashed>>

\* Faulty variant: does not copy ManifestPath while it holds the lock.
EndTakeNoPath(e, r) ==
    /\ ender[e].at = "idle" /\ pc[r] = "done"
    /\ ender' = [ender EXCEPT ![e] =
                   [at |-> "remove", id |-> r, ok |-> r \in sessions,
                    path |-> ""]]
    /\ sessions' = sessions \ {r}
    /\ UNCHANGED <<pc, gen, files, access, manifest, bytes, dirs, media, ended, reported, listed, crashed>>

\* EndSession's critical section: look up, copy ManifestPath, delete.
EndTake(e, r) ==
    /\ ender[e].at = "idle" /\ pc[r] = "done"
    /\ ender' = [ender EXCEPT ![e] =
                   [at |-> "remove", id |-> r, ok |-> r \in sessions,
                    path |-> IF r \in sessions THEN manifest[r] ELSE ""]]
    /\ sessions' = sessions \ {r}
    /\ UNCHANGED <<pc, gen, files, access, manifest, bytes, dirs, media, ended, reported, listed, crashed>>

EndRemove(e) ==
    /\ ender[e].at = "remove"
    /\ RemoveDirs(IF ender[e].path = "hls" THEN {ender[e].id} ELSE {})
    /\ media' = (media /\ ender[e].path # "media")
    /\ ender' = [ender EXCEPT ![e].at = "publish"]
    /\ UNCHANGED <<pc, gen, session, ended, reported, listed, crashed>>

EndPublish(e) ==
    /\ ender[e].at = "publish"
    /\ IF ender[e].ok
         THEN /\ ended' = [ended EXCEPT ![ender[e].id] = @ + 1]
              /\ reported' = [reported EXCEPT ![ender[e].id] = bytes[ender[e].id]]
         ELSE UNCHANGED <<ended, reported>>
    /\ ender' = [ender EXCEPT ![e] = Idle]
    /\ UNCHANGED <<pc, gen, files, session, dirs, media, listed, crashed>>

-----------------------------------------------------------------------------
(* The cleanup loop *)

\* One tick: cleanupExpiredSessions under the lock, then cleanupOrphanedSegments
\* reads the temporary directory.
CleanupTick ==
    /\ listed = {}
    /\ LET expired == {r \in sessions : access[r] = "expired"}
       IN  /\ sessions' = sessions \ expired
           /\ RemoveDirs({r \in expired : manifest[r] = "hls"})
           /\ media' = (media /\ ~\E r \in expired : manifest[r] = "media")
    /\ listed' = {r \in Requests : dirs'[r] # "absent"}
    /\ UNCHANGED <<pc, gen, access, manifest, bytes, ending, crashed>>

\* Faulty variant: only directories of known sessions are swept.
CleanupOrphanKnown(r) ==
    /\ r \in listed
    /\ listed' = listed \ {r}
    /\ RemoveDirs(IF dirs[r] = "old" /\ r \in sessions THEN {r} ELSE {})
    /\ UNCHANGED <<pc, gen, session, media, ending, crashed>>

\* Without the lock: one entry of the listing, removed if older than the TTL.
CleanupOrphan(r) ==
    /\ r \in listed
    /\ listed' = listed \ {r}
    /\ RemoveDirs(IF dirs[r] = "old" THEN {r} ELSE {})
    /\ UNCHANGED <<pc, gen, session, media, ending, crashed>>

-----------------------------------------------------------------------------
(* Time and failure.  A session starts after the last change of its          *)
(* directory, so its LastAccess expires after the directory is old; no       *)
(* goroutine takes a whole TTL (4 hours) to start, and no request stalls     *)
(* that long between its manifest and its response.                          *)

DirAges(r) ==
    /\ dirs[r] = "fresh" /\ pc[r] \notin {"generated", "assign"}
    /\ \A v \in Variants : worker[r][v] # "start"
    /\ dirs' = [dirs EXCEPT ![r] = "old"]
    /\ UNCHANGED <<pc, gen, files, session, media, ending, listed, crashed>>

AccessAges(r) ==
    /\ r \in sessions /\ pc[r] = "done" /\ access[r] = "fresh" /\ dirs[r] # "fresh"
    /\ access' = [access EXCEPT ![r] = "expired"]
    /\ UNCHANGED <<pc, gen, files, sessions, manifest, bytes, dirs, media, ending, listed, crashed>>

\* The process dies and is started again: the table is empty, the files stay.
Restart ==
    /\ ~crashed
    /\ crashed' = TRUE
    /\ sessions' = {} /\ listed' = {}
    /\ pc' = [r \in Requests |-> IF pc[r] = "new" THEN "new" ELSE "failed"]
    /\ worker' = [r \in Requests |-> [v \in Variants |-> "none"]]
    /\ results' = [r \in Requests |-> {}]
    /\ ender' = [e \in Enders |-> Idle]
    /\ UNCHANGED <<playlists, files, access, manifest, bytes, dirs, media, ended, reported>>

Variant(r, v) == VariantMkdir(r, v) \/ VariantFail(r, v) \/ VariantOk(r, v)

Next ==
    \/ \E r \in Requests :
          \/ ServeRefused(r) \/ ServeGenerate(r) \/ Collect(r) \/ WriteMaster(r)
          \/ StartSession(r) \/ AssignManifest(r) \/ AssignDirect(r)
          \/ GetSession(r) \/ UpdateBytesServed(r)
          \/ CleanupOrphan(r) \/ DirAges(r) \/ AccessAges(r)
          \/ \E v \in Variants : Variant(r, v)
          \/ \E e \in Enders : EndTake(e, r)
    \/ \E e \in Enders : EndRemove(e) \/ EndPublish(e)
    \/ CleanupTick
    \/ Restart

Spec == Init /\ [][Next]_vars

\* The cleanup loop keeps ticking, time passes, ffmpeg processes end, runnable
\* goroutines run and a request that has its manifest goes on to respond; nobody
\* has to end a session or ask for one.
Fairness ==
    /\ WF_vars(CleanupTick)
    /\ \A r \in Requests :
          /\ WF_vars(CleanupOrphan(r)) /\ WF_vars(DirAges(r))
          /\ WF_vars(Collect(r) \/ WriteMaster(r)) /\ \A v \in Variants : WF_vars(Variant(r, v))
          /\ WF_vars(pc[r] = "generated" /\ StartSession(r)) /\ WF_vars(AssignManifest(r))

FairSpec == Spec /\ Fairness

-----------------------------------------------------------------------------
(* Properties *)

\* Every variable stays in its range; a directory that is absent holds no variant's
\* files, and a goroutine inside EndSession knows which session it is ending.
TypeOK ==
    /\ pc \in [Requests -> {"new", "generate", "generated", "assign", "assignDirect",
                            "done", "failed"}]
    /\ worker \in [Requests -> [Variants -> {"none", "start", "ffmpeg", "done"}]]
    /\ results \in [Requests -> SUBSET [variant : Variants, err : BOOLEAN]]
    /\ playlists \in [Requests -> SUBSET Variants]
    /\ files \in [Requests -> SUBSET Variants]
    /\ \A r \in Requests : dirs[r] = "absent" => files[r] = {}
    /\ sessions \subseteq Requests
    /\ access \in [Requests -> {"fresh", "expired"}]
    /\ manifest \in [Requests -> {"", "hls", "media"}]
    /\ bytes \in [Requests -> 0..MaxBytes]
    /\ dirs \in [Requests -> {"absent", "fresh", "old"}]
    /\ media \in BOOLEAN
    /\ ender \in [Enders -> [at : {"idle", "remove", "publish"}, id : Requests \union {None},
                             ok : BOOLEAN, path : {"", "hls", "media"}]]
    /\ \A e \in Enders : ender[e].at # "idle" => ender[e].id \in Requests
    /\ ended \in [Requests -> Nat]
    /\ reported \in [Requests -> 0..MaxBytes]
    /\ listed \subseteq Requests
    /\ crashed \in BOOLEAN

\* Concurrent EndSession calls for one session, racing each other and the TTL
\* cleanup, publish EventStreamEnded at most once.
EndedOnce == \A r \in Requests : ended[r] <= 1

\* The tables of sessions, directories and enders stay well-formed under that race,
\* and each session's end is published once.
SessionsSafe == TypeOK /\ EndedOnce

\* The EventStreamEnded of a session carries every byte UpdateBytesServed ever
\* counted for it, although EndSession reads BytesServed after it has unlocked.
EndReportsAllBytes == \A r \in Requests : ended[r] > 0 => reported[r] = bytes[r]

\* When an HLS session has left the table by EndSession or by expiry, its
\* directory is gone or its EndSession is about to remove it.
NoFilesAfterEnd ==
    \A r \in Requests :
        /\ pc[r] = "done" /\ r \notin sessions /\ manifest[r] = "hls"
        /\ dirs[r] # "absent"
        => \E e \in Enders : ender[e].at = "remove" /\ ender[e].id = r /\ ender[e].path = "hls"

\* A manifest GenerateHLS returns covers every requested variant, each of their
\* directories is there, and no goroutine of the call is left to disturb them:
\* neither the failure of a variant nor a sweep of the cleanup loop during a
\* generation of more than a TTL leads to a manifest of missing files.
ManifestComplete ==
    \A r \in Requests :
        pc[r] = "generated" =>
            /\ playlists[r] = Variants /\ files[r] = Variants
            /\ \A v \in Variants : worker[r][v] = "done"

\* GenerateHLS returns, and every goroutine it started ends even when the
\* collector has given up before receiving its result.
WorkersEnd ==
    \A r \in Requests :
        pc[r] = "generate" ~>
            pc[r] # "generate" /\ \A v \in Variants : worker[r][v] \in {"none", "done"}

\* No temporary directory stays for ever: not after a failed generation with
\* late variants, not for a client that never ends its session or keeps it
\* alive, and not for sessions whose process was restarted.
DirsReclaimed == \A r \in Requests : dirs[r] # "absent" ~> dirs[r] = "absent"

\* Ending a stream removes the session's own temporary files ("removes a session
\* and cleans up its files"), never the media library.
MediaKept == media
=============================================================================
