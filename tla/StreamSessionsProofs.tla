------------------------ MODULE StreamSessionsProofs ------------------------
(***************************************************************************)
(* The session table and the temporary directories are safe for any number *)
(* of requests, variants and concurrent EndSession calls.                  *)
(***************************************************************************)
EXTENDS StreamSessions, TLAPS

\* GenerateHLS of request r.  A goroutine that has not made its directory holds the
\* session directory fresh, so that the sweep can only take the directory when
\* nobody will make it again; while it is there, every variant that runs or has
\* succeeded has its files in it.
Generating(r) ==
    pc[r] = "generate" =>
        /\ \A v \in Variants :
              /\ worker[r][v] = "start" => dirs[r] = "fresh"
              /\ worker[r][v] = "ffmpeg" /\ dirs[r] # "absent" => v \in files[r]
        /\ \A v \in playlists[r] :
              worker[r][v] = "done" /\ (dirs[r] # "absent" => v \in files[r])
        /\ \A res \in results[r] :
              /\ worker[r][res.variant] = "done"
              /\ ~res.err /\ dirs[r] # "absent" => res.variant \in files[r]

\* Once GenerateHLS has returned a manifest its goroutines are over; until the response
\* is sent the directory is fresh and the session, once started, is in the table.
Responding(r) ==
    /\ pc[r] = "new" =>
          playlists[r] = {} /\ results[r] = {} /\ \A v \in Variants : worker[r][v] = "none"
    /\ pc[r] \in {"generated", "assign"} =>
          dirs[r] = "fresh" /\ \A v \in Variants : worker[r][v] = "done"
    /\ pc[r] = "generated" => playlists[r] = Variants /\ files[r] = Variants
    /\ pc[r] \in {"assign", "assignDirect"} => r \in sessions /\ access[r] = "fresh"
    /\ manifest[r] # "" => pc[r] \in {"done", "failed"}
    /\ pc[r] = "done" /\ manifest[r] = "hls" => \A v \in Variants : worker[r][v] = "done"

\* The goroutine e is in EndSession for r.
About(e, r) == ender[e].at # "idle" /\ ender[e].id = r

\* The end of a session is still to come as long as it is in the table; an
\* EndSession that took it from there is the only one that did, the event counts
\* once, and BytesServed is final by then.
Ending(r) ==
    /\ pc[r] \notin {"done", "failed"} => ended[r] = 0
    /\ r \in sessions => /\ pc[r] \in {"assign", "assignDirect", "done"}
                         /\ ended[r] = 0
                         /\ \A e \in Enders : About(e, r) => ~ender[e].ok
    /\ \A e \in Enders : About(e, r) /\ ender[e].ok => ended[r] = 0
    /\ \A d, e \in Enders : /\ About(d, r) /\ ender[d].ok
                            /\ About(e, r) /\ ender[e].ok
                            => d = e
    /\ ended[r] <= 1
    /\ ended[r] > 0 => reported[r] = bytes[r]

\* An EndSession for r runs after its request is over and has copied its manifest;
\* it, or the cleanup, takes the directory with the table entry.
Removing(r) ==
    /\ \A e \in Enders : About(e, r) =>
          pc[r] = "done" /\ (ender[e].path # "" => ender[e].path = manifest[r])
    /\ pc[r] = "done" /\ r \notin sessions /\ manifest[r] = "hls" /\ dirs[r] # "absent" =>
          \E e \in Enders : About(e, r) /\ ender[e].at = "remove" /\ ender[e].path = "hls"

Safe(r) == Generating(r) /\ Responding(r) /\ Ending(r) /\ Removing(r)

IInv == TypeOK /\ \A r \in Requests : Safe(r)

-----------------------------------------------------------------------------
(* Types *)

WorkerTypes == [Requests -> [Variants -> {"none", "start", "ffmpeg", "done"}]]
Results == [variant : Variants, err : BOOLEAN]
EnderTypes == [at : {"idle", "remove", "publish"}, id : Requests \union {None},
               ok : BOOLEAN, path : {"", "hls", "media"}]

\* What has been received and is to be received names variants of the request.
LEMMA VariantsNamed ==
    ASSUME TypeOK, NEW r \in Requests
    PROVE  /\ playlists[r] \subseteq Variants
           /\ \A res \in results[r] : res.variant \in Variants /\ res.err \in BOOLEAN
<1>1. playlists[r] \subseteq Variants /\ results[r] \subseteq Results
    BY DEF TypeOK, Results
<1>2. \A res \in Results : res.variant \in Variants /\ res.err \in BOOLEAN
    BY DEF Results
<1> QED BY <1>1, <1>2

\* A result that is sent is a result, and its goroutine is done.
LEMMA SendTypes ==
    ASSUME TypeOK, NEW r \in Requests, NEW v \in Variants, NEW err \in BOOLEAN, Send(r, v, err)
    PROVE  results' \in [Requests -> SUBSET Results] /\ worker' \in WorkerTypes
<1>1. [variant |-> v, err |-> err] \in Results
    BY DEF Results
<1>2. results \in [Requests -> SUBSET Results] /\ worker \in WorkerTypes
    BY DEF TypeOK, Results, WorkerTypes
<1>3. results' = [results EXCEPT ![r] = @ \union {[variant |-> v, err |-> err]}]
      /\ worker' = [worker EXCEPT ![r][v] = "done"]
    BY DEF Send
<1>4. results' \in [Requests -> SUBSET Results]
    BY <1>1, <1>2, <1>3
<1>5. worker' \in WorkerTypes
    BY <1>2, <1>3 DEF WorkerTypes
<1> QED BY <1>4, <1>5

\* RemoveAll leaves no files in a directory that is gone.
LEMMA RemoveTypes ==
    ASSUME TypeOK, NEW gone, RemoveDirs(gone)
    PROVE  /\ files' \in [Requests -> SUBSET Variants]
           /\ dirs' \in [Requests -> {"absent", "fresh", "old"}]
           /\ \A r \in Requests : dirs'[r] = "absent" => files'[r] = {}
BY DEF TypeOK, RemoveDirs

\* Every step keeps the types; what an action does to another request's entry of a
\* table it leaves alone is nothing.
LEMMA TypeNext == TypeOK /\ [Next]_vars => TypeOK'
<1> SUFFICES ASSUME TypeOK, [Next]_vars PROVE TypeOK'
    OBVIOUS
<1> USE DEF TypeOK, gen, session, ending, Goto, RemoveDirs, GiveUp, Send
<1>1. ASSUME NEW r \in Requests, ServeRefused(r) PROVE TypeOK'
    BY <1>1 DEF ServeRefused
<1>2. ASSUME NEW r \in Requests, ServeGenerate(r) PROVE TypeOK'
    BY <1>2 DEF ServeGenerate
<1>3. ASSUME NEW r \in Requests, Collect(r) PROVE TypeOK'
  <2>1. PICK res \in results[r] :
            /\ results' = [results EXCEPT ![r] = @ \ {res}]
            /\ \/ GiveUp(r) /\ UNCHANGED playlists
               \/ /\ playlists' = [playlists EXCEPT ![r] = @ \union {res.variant}]
                  /\ UNCHANGED <<pc, dirs, files>>
      BY <1>3 DEF Collect
  <2>2. UNCHANGED <<worker, session, media, ending, listed, crashed>>
      BY <1>3 DEF Collect
  <2>3. res.variant \in Variants
    <3> HIDE DEF TypeOK
    <3> QED BY <2>1, VariantsNamed
  <2>4. results' \in [Requests -> SUBSET [variant : Variants, err : BOOLEAN]]
      BY <2>1
  <2>5. CASE GiveUp(r) /\ UNCHANGED playlists
      BY <2>2, <2>4, <2>5, RemoveTypes
  <2>6. CASE playlists' = [playlists EXCEPT ![r] = @ \union {res.variant}]
             /\ UNCHANGED <<pc, dirs, files>>
      BY <2>2, <2>3, <2>4, <2>6
  <2> QED BY <2>1, <2>5, <2>6
<1>4. ASSUME NEW r \in Requests, WriteMaster(r) PROVE TypeOK'
  <2>1. CASE dirs[r] # "absent" /\ Goto(r, "generated") /\ dirs' = [dirs EXCEPT ![r] = "fresh"]
             /\ UNCHANGED files
      BY <1>4, <2>1 DEF WriteMaster
  <2>2. CASE GiveUp(r)
      BY <1>4, <2>2, RemoveTypes DEF WriteMaster
  <2> QED BY <1>4, <2>1, <2>2 DEF WriteMaster
<1>5. ASSUME NEW r \in Requests, StartSession(r) PROVE TypeOK'
    BY <1>5 DEF StartSession
<1>6. ASSUME NEW r \in Requests, AssignManifest(r) PROVE TypeOK'
    BY <1>6 DEF AssignManifest
<1>7. ASSUME NEW r \in Requests, AssignDirect(r) PROVE TypeOK'
    BY <1>7 DEF AssignDirect
<1>8. ASSUME NEW r \in Requests, GetSession(r) PROVE TypeOK'
    BY <1>8 DEF GetSession
<1>9. ASSUME NEW r \in Requests, UpdateBytesServed(r) PROVE TypeOK'
  <2>1. bytes' \in [Requests -> 0..MaxBytes]
    <3>1. bytes \in [Requests -> 0..MaxBytes] /\ MaxBytes \in Nat
        BY StreamConfig
    <3>2. bytes[r] < MaxBytes /\ bytes' = [bytes EXCEPT ![r] = @ + 1]
        BY <1>9 DEF UpdateBytesServed
    <3> HIDE DEF TypeOK
    <3>3. bytes[r] + 1 \in 0..MaxBytes
        BY <3>1, <3>2
    <3> QED BY <3>1, <3>2, <3>3
  <2> QED BY <1>9, <2>1 DEF UpdateBytesServed
<1>10. ASSUME NEW r \in Requests, CleanupOrphan(r) PROVE TypeOK'
    BY <1>10 DEF CleanupOrphan
<1>11. ASSUME NEW r \in Requests, DirAges(r) PROVE TypeOK'
    BY <1>11 DEF DirAges
<1>12. ASSUME NEW r \in Requests, AccessAges(r) PROVE TypeOK'
    BY <1>12 DEF AccessAges
<1>13. ASSUME NEW r \in Requests, NEW v \in Variants, VariantMkdir(r, v) PROVE TypeOK'
    BY <1>13 DEF VariantMkdir
<1>14. ASSUME NEW r \in Requests, NEW v \in Variants, VariantFail(r, v) PROVE TypeOK'
  <2>1. results' \in [Requests -> SUBSET Results] /\ worker' \in WorkerTypes
      BY <1>14, SendTypes DEF VariantFail
  <2> QED BY <1>14, <2>1 DEF VariantFail, Results, WorkerTypes
<1>15. ASSUME NEW r \in Requests, NEW v \in Variants, VariantOk(r, v) PROVE TypeOK'
  <2>1. results' \in [Requests -> SUBSET Results] /\ worker' \in WorkerTypes
      BY <1>15, SendTypes DEF VariantOk
  <2> QED BY <1>15, <2>1 DEF VariantOk, Results, WorkerTypes
<1>16. ASSUME NEW e \in Enders, NEW r \in Requests, EndTake(e, r) PROVE TypeOK'
  <2>1. ender' \in [Enders -> EnderTypes] /\ sessions' \subseteq Requests
        /\ \A d \in Enders : ender'[d].at # "idle" => ender'[d].id \in Requests
    <3> DEFINE rec == [at |-> "remove", id |-> r, ok |-> r \in sessions,
                       path |-> IF r \in sessions THEN manifest[r] ELSE ""]
    <3>1. manifest[r] \in {"", "hls", "media"} /\ ender \in [Enders -> EnderTypes]
          /\ sessions \subseteq Requests
          /\ \A d \in Enders : ender[d].at # "idle" => ender[d].id \in Requests
        BY DEF EnderTypes
    <3>2. ender' = [ender EXCEPT ![e] = rec] /\ sessions' = sessions \ {r}
        BY <1>16 DEF EndTake
    <3> HIDE DEF TypeOK
    <3>3. rec \in EnderTypes
      <4>1. \A ok \in BOOLEAN, p \in {"", "hls", "media"} :
                [at |-> "remove", id |-> r, ok |-> ok, path |-> p] \in EnderTypes
          BY DEF EnderTypes
      <4>2. (r \in sessions) \in BOOLEAN
          OBVIOUS
      <4>3. (IF r \in sessions THEN manifest[r] ELSE "") \in {"", "hls", "media"}
          BY <3>1
      <4> QED BY <4>1, <4>2, <4>3, Zenon
    <3>4. rec.id = r
        OBVIOUS
    <3> HIDE DEF rec
    <3>5. ender' \in [Enders -> EnderTypes]
        BY <3>1, <3>2, <3>3
    <3>6. ASSUME NEW d \in Enders, ender'[d].at # "idle" PROVE ender'[d].id \in Requests
        BY <3>1, <3>2, <3>4, <3>6
    <3> QED BY <3>1, <3>2, <3>5, <3>6
  <2> QED BY <1>16, <2>1 DEF EndTake, EnderTypes
<1>17. ASSUME NEW e \in Enders, EndRemove(e) PROVE TypeOK'
  <2>1. /\ files' \in [Requests -> SUBSET Variants]
        /\ dirs' \in [Requests -> {"absent", "fresh", "old"}]
        /\ \A r \in Requests : dirs'[r] = "absent" => files'[r] = {}
      BY <1>17, RemoveTypes DEF EndRemove
  <2>2. /\ ender' \in [Enders -> EnderTypes]
        /\ \A d \in Enders : ender'[d].at # "idle" => ender'[d].id \in Requests
    <3>1. /\ ender \in [Enders -> EnderTypes] /\ ender[e].at = "remove"
          /\ ender' = [ender EXCEPT ![e].at = "publish"]
          /\ \A d \in Enders : ender[d].at # "idle" => ender[d].id \in Requests
        BY <1>17 DEF EndRemove, EnderTypes
    <3> HIDE DEF TypeOK
    <3> QED BY <3>1 DEF EnderTypes
  <2>3. media' \in BOOLEAN
      BY <1>17 DEF EndRemove
  <2> QED BY <1>17, <2>1, <2>2, <2>3 DEF EndRemove, EnderTypes
<1>18. ASSUME NEW e \in Enders, EndPublish(e) PROVE TypeOK'
  <2>1. ender' \in [Enders -> EnderTypes]
        /\ \A d \in Enders : ender'[d].at # "idle" => ender'[d].id \in Requests
      BY <1>18 DEF EndPublish, EnderTypes, Idle
  <2>2. ended' \in [Requests -> Nat] /\ reported' \in [Requests -> 0..MaxBytes]
    <3>1. ender[e].id \in Requests /\ ended \in [Requests -> Nat]
          /\ reported \in [Requests -> 0..MaxBytes] /\ bytes \in [Requests -> 0..MaxBytes]
        BY <1>18 DEF EndPublish
    <3>2. CASE ender[e].ok
      <4>1. ended' = [ended EXCEPT ![ender[e].id] = @ + 1]
            /\ reported' = [reported EXCEPT ![ender[e].id] = bytes[ender[e].id]]
          BY <1>18, <3>2 DEF EndPublish
      <4> HIDE DEF TypeOK
      <4> QED BY <3>1, <4>1
    <3>3. CASE ~ender[e].ok
        BY <1>18, <3>1, <3>3 DEF EndPublish
    <3> QED BY <3>2, <3>3
  <2> QED BY <1>18, <2>1, <2>2 DEF EndPublish, EnderTypes
<1>19. CASE CleanupTick
    BY <1>19 DEF CleanupTick
<1>20. CASE Restart
    BY <1>20 DEF Restart, Idle
<1>21. CASE UNCHANGED vars
    BY <1>21 DEF vars
<1> QED
    BY <1>1, <1>2, <1>3, <1>4, <1>5, <1>6, <1>7, <1>8, <1>9, <1>10, <1>11, <1>12, <1>13,
       <1>14, <1>15, <1>16, <1>17, <1>18, <1>19, <1>20, <1>21 DEF Next, Variant

-----------------------------------------------------------------------------
(* What a step leaves alone *)

SameGen(r) == /\ pc'[r] = pc[r] /\ worker'[r] = worker[r]
              /\ results'[r] = results[r] /\ playlists'[r] = playlists[r]
SameDir(r) == dirs'[r] = dirs[r] /\ files'[r] = files[r]
SameSession(r) == /\ r \in sessions' <=> r \in sessions
                  /\ access'[r] = access[r] /\ manifest'[r] = manifest[r] /\ bytes'[r] = bytes[r]
SameEnd(r) == /\ ended'[r] = ended[r] /\ reported'[r] = reported[r]
              /\ \A e \in Enders : About(e, r) \/ About(e, r)' => ender'[e] = ender[e]
Same(r) == SameGen(r) /\ SameDir(r) /\ SameSession(r) /\ SameEnd(r)

\* A request whose entries are left alone stays as safe as it was.
LEMMA Frame ==
    ASSUME NEW r \in Requests, Safe(r), Same(r)
    PROVE  Safe(r)'
<1> USE DEF Same, Safe
<1>1. Generating(r)'
    BY DEF Generating, SameGen, SameDir
<1>2. Responding(r)'
    BY DEF Responding, SameGen, SameDir, SameSession
<1>3. \A e \in Enders : (About(e, r)' <=> About(e, r)) /\ (About(e, r) => ender'[e] = ender[e])
    BY DEF SameEnd, About
<1>4. Ending(r)'
    BY <1>3 DEF Ending, SameGen, SameSession, SameEnd
<1>5. Removing(r)'
    BY <1>3 DEF Removing, SameGen, SameDir, SameSession
<1> QED BY <1>1, <1>2, <1>4, <1>5

-----------------------------------------------------------------------------
(* ServeHLS *)

\* An error response ends the request; nothing was registered.
LEMMA ServeRefusedSafe ==
    ASSUME TypeOK, NEW r \in Requests, ServeRefused(r), NEW q \in Requests, Safe(q)
    PROVE  Safe(q)'
<1>1. /\ pc[r] \in {"new", "generated"} /\ pc' = [pc EXCEPT ![r] = "failed"]
      /\ UNCHANGED <<gen, files, session, dirs, ending>>
    BY DEF ServeRefused, Goto
<1>2. pc'[r] = "failed" /\ (q # r => pc'[q] = pc[q])
    BY <1>1 DEF TypeOK
<1>3. SameDir(q) /\ SameSession(q) /\ SameEnd(q)
      /\ UNCHANGED <<worker, results, playlists, ender>>
    BY <1>1 DEF gen, session, ending, SameDir, SameSession, SameEnd
<1>4. CASE q # r
    BY <1>2, <1>3, <1>4, Frame DEF Same, SameGen
<1>5. CASE q = r
  <2>1. \A e \in Enders : About(e, q)' <=> About(e, q)
      BY <1>3 DEF About
  <2>2. Generating(q)'
      BY <1>1, <1>2, <1>3, <1>5 DEF Safe, Generating, Responding, SameDir, SameSession, SameEnd
  <2>3. Responding(q)'
      BY <1>1, <1>2, <1>3, <1>5 DEF Safe, Generating, Responding, SameDir, SameSession, SameEnd
  <2>4. Ending(q)'
      BY <1>1, <1>2, <1>3, <1>5, <2>1 DEF Safe, Ending, SameDir, SameSession, SameEnd
  <2>5. Removing(q)'
      BY <1>1, <1>2, <1>3, <1>5, <2>1 DEF Safe, Responding, Ending, Removing, SameDir, SameSession, SameEnd
  <2> QED BY <2>2, <2>3, <2>4, <2>5 DEF Safe
<1> QED BY <1>4, <1>5

\* The session is registered before its manifest path is set.
LEMMA StartSessionSafe ==
    ASSUME TypeOK, NEW r \in Requests, StartSession(r), NEW q \in Requests, Safe(q)
    PROVE  Safe(q)'
<1>1. /\ \/ pc[r] = "generated" /\ pc' = [pc EXCEPT ![r] = "assign"]
         \/ pc[r] = "new" /\ pc' = [pc EXCEPT ![r] = "assignDirect"]
      /\ sessions' = sessions \union {r} /\ access' = [access EXCEPT ![r] = "fresh"]
      /\ UNCHANGED <<gen, files, manifest, bytes, dirs, ending>>
    BY DEF StartSession, Goto
<1>2. /\ \/ pc[r] = "generated" /\ pc'[r] = "assign"
         \/ pc[r] = "new" /\ pc'[r] = "assignDirect"
      /\ access'[r] = "fresh" /\ r \in sessions'
      /\ q # r => pc'[q] = pc[q] /\ access'[q] = access[q] /\ (q \in sessions' <=> q \in sessions)
    BY <1>1 DEF TypeOK
<1>3. SameDir(q) /\ SameEnd(q)
      /\ UNCHANGED <<worker, results, playlists, manifest, bytes, ender>>
    BY <1>1 DEF gen, ending, SameDir, SameEnd
<1>4. CASE q # r
    BY <1>2, <1>3, <1>4, Frame DEF Same, SameGen, SameSession
<1>5. CASE q = r
  <2>1. \A e \in Enders : ~About(e, q) /\ ~About(e, q)'
      BY <1>2, <1>3, <1>5 DEF Safe, Removing, About
  <2>2. Generating(q)'
      BY <1>2, <1>3, <1>5 DEF Safe, Generating, Responding, SameDir
  <2>3. Responding(q)'
      BY <1>2, <1>3, <1>5 DEF Safe, Generating, Responding, SameDir
  <2>4. Ending(q)'
      BY <1>2, <1>3, <1>5, <2>1 DEF Safe, Ending, SameEnd
  <2>5. Removing(q)'
      BY <1>2, <1>3, <1>5, <2>1 DEF Safe, Removing
  <2> QED BY <2>2, <2>3, <2>4, <2>5 DEF Safe
<1> QED BY <1>4, <1>5

\* The response: the session is in the table, so no EndSession saw it without a path.
LEMMA AssignSafe ==
    ASSUME TypeOK, NEW r \in Requests, AssignManifest(r) \/ AssignDirect(r),
           NEW q \in Requests, Safe(q)
    PROVE  Safe(q)'
<1>1. /\ \/ pc[r] = "assign" /\ manifest' = [manifest EXCEPT ![r] = "hls"]
         \/ pc[r] = "assignDirect" /\ manifest' = [manifest EXCEPT ![r] = "media"]
      /\ pc' = [pc EXCEPT ![r] = "done"]
      /\ UNCHANGED <<gen, files, sessions, access, bytes, dirs, ending>>
    BY DEF AssignManifest, AssignDirect, Goto
<1>2. /\ \/ pc[r] = "assign" /\ manifest'[r] = "hls"
         \/ pc[r] = "assignDirect" /\ manifest'[r] = "media"
      /\ pc'[r] = "done"
      /\ q # r => pc'[q] = pc[q] /\ manifest'[q] = manifest[q]
    BY <1>1 DEF TypeOK
<1>3. SameDir(q) /\ SameEnd(q)
      /\ UNCHANGED <<worker, results, playlists, sessions, access, bytes, ender>>
    BY <1>1 DEF gen, ending, SameDir, SameEnd
<1>4. CASE q # r
    BY <1>2, <1>3, <1>4, Frame DEF Same, SameGen, SameSession
<1>5. CASE q = r
  <2>1. \A e \in Enders : About(e, q)' <=> About(e, q)
      BY <1>3 DEF About
  <2>2. Generating(q)'
      BY <1>2, <1>3, <1>5 DEF Safe, Generating, Responding, SameDir, SameEnd
  <2>3. Responding(q)'
      BY <1>2, <1>3, <1>5 DEF Safe, Generating, Responding, SameDir, SameEnd
  <2>4. Ending(q)'
      BY <1>2, <1>3, <1>5, <2>1 DEF Safe, Ending, SameDir, SameEnd
  <2>5. Removing(q)'
      BY <1>2, <1>3, <1>5, <2>1 DEF Safe, Responding, Ending, Removing, SameDir, SameEnd
  <2> QED BY <2>2, <2>3, <2>4, <2>5 DEF Safe
<1> QED BY <1>4, <1>5

-----------------------------------------------------------------------------
(* GenerateHLS *)

\* The directory is made, fresh and empty, before the goroutines start.
LEMMA ServeGenerateSafe ==
    ASSUME TypeOK, NEW r \in Requests, ServeGenerate(r), NEW q \in Requests, Safe(q)
    PROVE  Safe(q)'
<1>1. /\ pc[r] = "new" /\ pc' = [pc EXCEPT ![r] = "generate"]
      /\ dirs' = [dirs EXCEPT ![r] = "fresh"]
      /\ worker' = [worker EXCEPT ![r] = [v \in Variants |-> "start"]]
      /\ UNCHANGED <<results, playlists, files, session, ending>>
    BY DEF ServeGenerate, Goto
<1>2. /\ pc[r] = "new" /\ pc'[r] = "generate" /\ dirs'[r] = "fresh"
      /\ \A v \in Variants : worker'[r][v] = "start"
      /\ q # r => pc'[q] = pc[q] /\ dirs'[q] = dirs[q] /\ worker'[q] = worker[q]
    BY <1>1 DEF TypeOK
<1>3. SameSession(q) /\ SameEnd(q) /\ UNCHANGED <<results, playlists, files, ender>>
    BY <1>1 DEF session, ending, SameSession, SameEnd
<1>4. CASE q # r
    BY <1>2, <1>3, <1>4, Frame DEF Same, SameGen, SameDir
<1>5. CASE q = r
  <2>1. \A e \in Enders : About(e, q)' <=> About(e, q)
      BY <1>3 DEF About
  <2>2. Generating(q)'
      BY <1>2, <1>3, <1>5 DEF Safe, Generating, Responding
  <2>3. Responding(q)'
      BY <1>2, <1>3, <1>5 DEF Safe, Responding, SameSession
  <2>4. Ending(q)'
      BY <1>2, <1>3, <1>5, <2>1 DEF Safe, Ending, SameSession, SameEnd
  <2>5. Removing(q)'
      BY <1>2, <1>3, <1>5, <2>1 DEF Safe, Removing
  <2> QED BY <2>2, <2>3, <2>4, <2>5 DEF Safe
<1> QED BY <1>4, <1>5

\* A goroutine in its first step makes its directory in one that is fresh already.
LEMMA VariantMkdirSafe ==
    ASSUME TypeOK, NEW r \in Requests, NEW v \in Variants, VariantMkdir(r, v),
           NEW q \in Requests, Safe(q)
    PROVE  Safe(q)'
<1>1. /\ worker[r][v] = "start" /\ worker' = [worker EXCEPT ![r][v] = "ffmpeg"]
      /\ files' = [files EXCEPT ![r] = @ \union {v}] /\ dirs' = [dirs EXCEPT ![r] = "fresh"]
      /\ UNCHANGED <<pc, results, playlists, session, ending>>
    BY DEF VariantMkdir
<1>2. /\ worker'[r][v] = "ffmpeg" /\ \A w \in Variants : w # v => worker'[r][w] = worker[r][w]
      /\ files'[r] = files[r] \union {v} /\ dirs'[r] = "fresh"
      /\ q # r => files'[q] = files[q] /\ dirs'[q] = dirs[q] /\ worker'[q] = worker[q]
    BY <1>1 DEF TypeOK
<1>3. SameSession(q) /\ SameEnd(q) /\ UNCHANGED <<pc, results, playlists, ender>>
    BY <1>1 DEF session, ending, SameSession, SameEnd
<1>4. CASE q # r
    BY <1>2, <1>3, <1>4, Frame DEF Same, SameGen, SameDir
<1>5. CASE q = r
  <2>1. playlists[r] \subseteq Variants /\ \A res \in results[r] : res.variant \in Variants
      BY VariantsNamed
  <2>2. Generating(q)'
      BY <1>1, <1>2, <1>3, <1>5, <2>1 DEF Safe, Generating
  <2>3. Responding(q)'
      BY <1>1, <1>2, <1>3, <1>5 DEF Safe, Responding, SameSession
  <2>4. Ending(q)'
      BY <1>1, <1>3, <1>5 DEF Safe, Ending, About, SameSession, SameEnd
  <2>5. Removing(q)'
      BY <1>1, <1>2, <1>3, <1>5 DEF Safe, Responding, Removing, About, SameSession, SameEnd
  <2> QED BY <2>2, <2>3, <2>4, <2>5 DEF Safe
<1> QED BY <1>4, <1>5

\* A goroutine ends with a result; a success has seen its directory.
LEMMA SendSafe ==
    ASSUME TypeOK, NEW r \in Requests, NEW v \in Variants, VariantFail(r, v) \/ VariantOk(r, v),
           NEW q \in Requests, Safe(q)
    PROVE  Safe(q)'
<1>1. PICK err \in BOOLEAN :
          /\ worker[r][v] \in {"start", "ffmpeg"} /\ (~err => v \in files[r])
          /\ results' = [results EXCEPT ![r] = @ \union {[variant |-> v, err |-> err]}]
          /\ worker' = [worker EXCEPT ![r][v] = "done"]
          /\ UNCHANGED <<pc, playlists, files, session, dirs, ending>>
    BY DEF VariantFail, VariantOk, Send
<1>2. /\ worker'[r][v] = "done" /\ \A w \in Variants : w # v => worker'[r][w] = worker[r][w]
      /\ results'[r] = results[r] \union {[variant |-> v, err |-> err]}
      /\ q # r => results'[q] = results[q] /\ worker'[q] = worker[q]
    BY <1>1 DEF TypeOK
<1>3. SameSession(q) /\ SameEnd(q) /\ SameDir(q) /\ UNCHANGED <<pc, playlists, files, dirs, ender>>
    BY <1>1 DEF session, ending, SameSession, SameEnd, SameDir
<1>4. CASE q # r
    BY <1>2, <1>3, <1>4, Frame DEF Same, SameGen
<1>5. CASE q = r
  <2>1. playlists[r] \subseteq Variants /\ \A res \in results[r] : res.variant \in Variants
      BY VariantsNamed
  <2>2. \A res \in results'[r] : res \in results[r] \/ (res.variant = v /\ res.err = err)
      BY <1>2
  <2>3. Generating(q)'
      BY <1>1, <1>2, <1>3, <1>5, <2>1, <2>2 DEF Safe, Generating
  <2>4. Responding(q)'
      BY <1>1, <1>2, <1>3, <1>5 DEF Safe, Responding, SameSession
  <2>5. Ending(q)' /\ Removing(q)'
      BY <1>3, <1>5 DEF Safe, Ending, Removing, About, SameSession, SameEnd
  <2> QED BY <2>3, <2>4, <2>5 DEF Safe
<1> QED BY <1>4, <1>5

\* Giving up takes the directory away from goroutines that may still run, and no
\* manifest follows.
LEMMA GiveUpSafe ==
    ASSUME TypeOK, NEW r \in Requests, pc[r] = "generate", GiveUp(r),
           UNCHANGED <<worker, playlists, session, ending>>,
           \A q \in Requests : q # r => results'[q] = results[q],
           NEW q \in Requests, Safe(q)
    PROVE  Safe(q)'
<1>1. /\ pc' = [pc EXCEPT ![r] = "failed"]
      /\ dirs' = [p \in Requests |-> IF p \in {r} THEN "absent" ELSE dirs[p]]
      /\ files' = [p \in Requests |-> IF p \in {r} THEN {} ELSE files[p]]
    BY DEF GiveUp, Goto, RemoveDirs
<1>2. pc'[r] = "failed" /\ (q # r => pc'[q] = pc[q] /\ SameDir(q))
    BY <1>1 DEF TypeOK, SameDir
<1>3. SameSession(q) /\ SameEnd(q) /\ UNCHANGED ender
    BY DEF session, ending, SameSession, SameEnd
<1>4. CASE q # r
    BY <1>2, <1>3, <1>4, Frame DEF Same, SameGen
<1>5. CASE q = r
  <2>1. \A e \in Enders : About(e, q)' <=> About(e, q)
      BY <1>3 DEF About
  <2>2. Generating(q)'
      BY <1>2, <1>3, <1>5 DEF Safe, Generating, Responding, SameSession, SameEnd
  <2>3. Responding(q)'
      BY <1>2, <1>3, <1>5 DEF Safe, Generating, Responding, SameSession, SameEnd
  <2>4. Ending(q)'
      BY <1>2, <1>3, <1>5, <2>1 DEF Safe, Ending, SameSession, SameEnd
  <2>5. Removing(q)'
      BY <1>2, <1>3, <1>5, <2>1 DEF Safe, Responding, Ending, Removing, SameSession, SameEnd
  <2> QED BY <2>2, <2>3, <2>4, <2>5 DEF Safe
<1> QED BY <1>4, <1>5

\* A received success goes to the manifest with its files; a received error gives up.
LEMMA CollectSafe ==
    ASSUME TypeOK, NEW r \in Requests, Collect(r), NEW q \in Requests, Safe(q)
    PROVE  Safe(q)'
<1>1. PICK res \in results[r] :
          /\ results' = [results EXCEPT ![r] = @ \ {res}]
          /\ \/ GiveUp(r) /\ UNCHANGED playlists
             \/ /\ ~res.err /\ playlists' = [playlists EXCEPT ![r] = @ \union {res.variant}]
                /\ UNCHANGED <<pc, dirs, files>>
    BY DEF Collect
<1>2. pc[r] = "generate" /\ UNCHANGED <<worker, session, ending>>
    BY DEF Collect
<1>3. results'[r] = results[r] \ {res} /\ \A p \in Requests : p # r => results'[p] = results[p]
    BY <1>1 DEF TypeOK
<1>4. CASE GiveUp(r) /\ UNCHANGED playlists
    BY <1>2, <1>3, <1>4, GiveUpSafe
<1>5. CASE /\ ~res.err /\ playlists' = [playlists EXCEPT ![r] = @ \union {res.variant}]
           /\ UNCHANGED <<pc, dirs, files>>
  <2>1. playlists'[r] = playlists[r] \union {res.variant}
        /\ (q # r => playlists'[q] = playlists[q])
      BY <1>5 DEF TypeOK
  <2>2. SameDir(q) /\ SameSession(q) /\ SameEnd(q) /\ UNCHANGED <<pc, dirs, files, worker, ender>>
      BY <1>2, <1>5 DEF session, ending, SameDir, SameSession, SameEnd
  <2>3. CASE q # r
      BY <1>3, <2>1, <2>2, <2>3, Frame DEF Same, SameGen
  <2>4. CASE q = r
    <3>1. Generating(q)'
        BY <1>3, <1>5, <2>1, <2>2, <2>4 DEF Safe, Generating
    <3>2. Responding(q)' /\ Ending(q)' /\ Removing(q)'
        BY <1>2, <2>2, <2>4 DEF Safe, Responding, Ending, Removing, About, SameSession, SameEnd
    <3> QED BY <3>1, <3>2 DEF Safe
  <2> QED BY <2>3, <2>4
<1> QED BY <1>1, <1>4, <1>5

\* The master playlist is written once every variant has succeeded, into a directory
\* that is still there, hence with the files of all of them.
LEMMA WriteMasterSafe ==
    ASSUME TypeOK, NEW r \in Requests, WriteMaster(r), NEW q \in Requests, Safe(q)
    PROVE  Safe(q)'
<1>1. pc[r] = "generate" /\ playlists[r] = Variants /\ UNCHANGED <<gen, session, ending>>
    BY DEF WriteMaster
<1>2. SameSession(q) /\ SameEnd(q) /\ UNCHANGED <<worker, results, playlists, ender>>
    BY <1>1 DEF gen, session, ending, SameSession, SameEnd
<1>3. CASE GiveUp(r)
    BY <1>1, <1>2, <1>3, GiveUpSafe
<1>4. CASE /\ dirs[r] # "absent" /\ pc' = [pc EXCEPT ![r] = "generated"]
           /\ dirs' = [dirs EXCEPT ![r] = "fresh"] /\ files' = files
  <2>1. pc'[r] = "generated" /\ dirs'[r] = "fresh"
        /\ (q # r => pc'[q] = pc[q] /\ dirs'[q] = dirs[q])
      BY <1>4 DEF TypeOK
  <2>2. CASE q # r
      BY <1>2, <1>4, <2>1, <2>2, Frame DEF Same, SameGen, SameDir
  <2>3. CASE q = r
    <3>1. files[r] = Variants /\ \A v \in Variants : worker[r][v] = "done"
      <4>1. files[r] \subseteq Variants
          BY DEF TypeOK
      <4> QED BY <1>1, <1>4, <2>3, <4>1 DEF Safe, Generating
    <3>2. Generating(q)' /\ Responding(q)'
        BY <1>1, <1>2, <1>4, <2>1, <2>3, <3>1 DEF Safe, Generating, Responding, SameSession
    <3>3. Ending(q)' /\ Removing(q)'
        BY <1>1, <1>2, <2>1, <2>3 DEF Safe, Ending, Removing, About, SameSession, SameEnd
    <3> QED BY <3>2, <3>3 DEF Safe
  <2> QED BY <2>2, <2>3
<1> QED BY <1>3, <1>4 DEF WriteMaster, Goto

-----------------------------------------------------------------------------
(* Operations on a session *)

\* A session in the table may be accessed again and again.
LEMMA GetSessionSafe ==
    ASSUME TypeOK, NEW r \in Requests, GetSession(r), NEW q \in Requests, Safe(q)
    PROVE  Safe(q)'
<1>1. /\ access' = [access EXCEPT ![r] = "fresh"]
      /\ UNCHANGED <<pc, gen, files, sessions, manifest, bytes, dirs, ending>>
    BY DEF GetSession
<1>2. access'[r] = "fresh" /\ (q # r => access'[q] = access[q])
    BY <1>1 DEF TypeOK
<1>3. /\ SameGen(q) /\ SameDir(q) /\ SameEnd(q) /\ UNCHANGED ender
      /\ UNCHANGED <<sessions, manifest, bytes>>
    BY <1>1 DEF gen, ending, SameGen, SameDir, SameEnd
<1>4. CASE q # r
    BY <1>2, <1>3, <1>4, Frame DEF Same, SameSession
<1>5. CASE q = r
  <2>0. Generating(q)'
      BY <1>3 DEF Safe, Generating, SameGen, SameDir
  <2>1. Responding(q)'
      BY <1>2, <1>3, <1>5 DEF Safe, Responding, SameGen, SameDir
  <2>2. \A e \in Enders : About(e, q)' <=> About(e, q)
      BY <1>3 DEF About
  <2>3. Ending(q)'
      BY <1>2, <1>3, <1>5, <2>2 DEF Safe, Ending, SameGen, SameEnd
  <2>4. Removing(q)'
      BY <1>3, <2>2 DEF Safe, Removing, SameGen, SameDir
  <2> QED BY <2>0, <2>1, <2>3, <2>4 DEF Safe
<1> QED BY <1>4, <1>5

\* Bytes are counted only while the session is in the table, before its end.
LEMMA UpdateBytesServedSafe ==
    ASSUME TypeOK, NEW r \in Requests, UpdateBytesServed(r), NEW q \in Requests, Safe(q)
    PROVE  Safe(q)'
<1>1. /\ r \in sessions /\ bytes' = [bytes EXCEPT ![r] = @ + 1]
      /\ UNCHANGED <<pc, gen, files, sessions, access, manifest, dirs, ending>>
    BY DEF UpdateBytesServed
<1>2. q # r => bytes'[q] = bytes[q]
    BY <1>1 DEF TypeOK
<1>3. /\ SameGen(q) /\ SameDir(q) /\ SameEnd(q) /\ UNCHANGED ender
      /\ UNCHANGED <<sessions, access, manifest>>
    BY <1>1 DEF gen, ending, SameGen, SameDir, SameEnd
<1>4. CASE q # r
    BY <1>2, <1>3, <1>4, Frame DEF Same, SameSession
<1>5. CASE q = r
  <2>0. Generating(q)'
      BY <1>3 DEF Safe, Generating, SameGen, SameDir
  <2>1. Responding(q)'
      BY <1>1, <1>3, <1>5 DEF Safe, Responding, SameGen, SameDir
  <2>2. \A e \in Enders : About(e, q)' <=> About(e, q)
      BY <1>3 DEF About
  <2>3. Ending(q)'
      BY <1>1, <1>3, <1>5, <2>2 DEF Safe, Ending, SameGen, SameEnd
  <2>4. Removing(q)'
      BY <1>3, <2>2 DEF Safe, Removing, SameGen, SameDir
  <2> QED BY <2>0, <2>1, <2>3, <2>4 DEF Safe
<1> QED BY <1>4, <1>5

\* EndSession's critical section takes the session from the table once.
LEMMA EndTakeSafe ==
    ASSUME TypeOK, NEW e \in Enders, NEW r \in Requests, EndTake(e, r), NEW q \in Requests, Safe(q)
    PROVE  Safe(q)'
<1> DEFINE rec == [at |-> "remove", id |-> r, ok |-> r \in sessions,
                   path |-> IF r \in sessions THEN manifest[r] ELSE ""]
<1>1. /\ ender[e].at = "idle" /\ pc[r] = "done"
      /\ ender' = [ender EXCEPT ![e] = rec] /\ sessions' = sessions \ {r}
      /\ UNCHANGED <<pc, gen, files, access, manifest, bytes, dirs, ended, reported>>
    BY DEF EndTake
<1>2. /\ rec.at = "remove" /\ rec.id = r /\ (rec.ok <=> r \in sessions)
      /\ rec.path = IF r \in sessions THEN manifest[r] ELSE ""
    OBVIOUS
<1> HIDE DEF rec
<1>3. ender'[e] = rec /\ \A d \in Enders : d # e => ender'[d] = ender[d]
    BY <1>1 DEF TypeOK
<1>4. SameGen(q) /\ SameDir(q) /\ UNCHANGED <<pc, access, manifest, bytes, ended, reported>>
    BY <1>1 DEF gen, SameGen, SameDir
<1>5. ~About(e, q) /\ \A d \in Enders : d # e => (About(d, q)' <=> About(d, q))
    BY <1>1, <1>3 DEF About
<1>6. CASE q # r
  <2>1. ~About(e, q)'
      BY <1>2, <1>3, <1>6 DEF About
  <2>2. Same(q)
      BY <1>1, <1>3, <1>4, <1>5, <1>6, <2>1 DEF Same, SameSession, SameEnd
  <2> QED BY <2>2, Frame
<1>7. CASE q = r
  <2>1. Generating(q)' /\ Responding(q)'
      BY <1>1, <1>4, <1>7 DEF Safe, Generating, Responding, SameGen, SameDir
  <2>2. Ending(q)'
    <3>1. About(e, q)' /\ (ender'[e].ok <=> q \in sessions)
        BY <1>2, <1>3, <1>7 DEF About
    <3>2. pc'[q] = "done" /\ q \notin sessions' /\ ended'[q] = ended[q] /\ reported'[q] = reported[q]
          /\ bytes'[q] = bytes[q]
        BY <1>1, <1>4, <1>7
    <3>3. \A d \in Enders : About(d, q)' /\ ender'[d].ok =>
              /\ d = e => q \in sessions
              /\ d # e => About(d, q) /\ ender[d].ok
        BY <1>3, <1>5, <3>1
    <3>4. \A d \in Enders : About(d, q)' /\ ender'[d].ok => ended[q] = 0
        BY <3>3 DEF Safe, Ending
    <3>5. \A c, d \in Enders : /\ About(c, q)' /\ ender'[c].ok
                               /\ About(d, q)' /\ ender'[d].ok
                               => c = d
        BY <3>3 DEF Safe, Ending
    <3>6. ended[q] <= 1 /\ (ended[q] > 0 => reported[q] = bytes[q])
        BY DEF Safe, Ending
    <3> QED BY <3>2, <3>4, <3>5, <3>6 DEF Ending
  <2>3. \A d \in Enders : About(d, q)' =>
            pc'[q] = "done" /\ (ender'[d].path # "" => ender'[d].path = manifest'[q])
    <3>1. pc'[q] = "done" /\ manifest'[q] = manifest[q]
        BY <1>1, <1>4, <1>7
    <3>2. ender'[e].path # "" => ender'[e].path = manifest[q]
        BY <1>2, <1>3, <1>7
    <3>3. \A d \in Enders : d # e /\ About(d, q)' =>
              (ender'[d].path # "" => ender'[d].path = manifest[q])
        BY <1>3, <1>5 DEF Safe, Removing
    <3> QED BY <3>1, <3>2, <3>3
  <2>4. ASSUME q \notin sessions', manifest'[q] = "hls", dirs'[q] # "absent"
        PROVE  \E d \in Enders : About(d, q)' /\ ender'[d].at = "remove" /\ ender'[d].path = "hls"
    <3>1. CASE r \in sessions
      <4>1. About(e, q)' /\ ender'[e].at = "remove" /\ ender'[e].path = "hls"
          BY <1>2, <1>3, <1>4, <1>7, <2>4, <3>1 DEF About
      <4> QED BY <4>1
    <3>2. CASE r \notin sessions
      <4>1. PICK d \in Enders : About(d, q) /\ ender[d].at = "remove" /\ ender[d].path = "hls"
          BY <1>1, <1>4, <1>7, <2>4, <3>2 DEF Safe, Removing, SameDir
      <4>2. d # e
          BY <1>5, <4>1
      <4> QED BY <1>3, <1>5, <4>1, <4>2
    <3> QED BY <3>1, <3>2
  <2> QED BY <2>1, <2>2, <2>3, <2>4 DEF Safe, Removing
<1> QED BY <1>6, <1>7

\* Its removal takes the directory of the manifest it has copied.
LEMMA EndRemoveSafe ==
    ASSUME TypeOK, NEW e \in Enders, EndRemove(e), NEW q \in Requests, Safe(q)
    PROVE  Safe(q)'
<1> DEFINE gone == IF ender[e].path = "hls" THEN {ender[e].id} ELSE {}
<1>1. /\ ender[e].at = "remove" /\ RemoveDirs(gone)
      /\ ender' = [ender EXCEPT ![e].at = "publish"]
      /\ UNCHANGED <<pc, gen, session, ended, reported>>
    BY DEF EndRemove
<1>2. /\ ender'[e].at = "publish" /\ ender'[e].id = ender[e].id
      /\ ender'[e].ok = ender[e].ok /\ ender'[e].path = ender[e].path
      /\ \A d \in Enders : d # e => ender'[d] = ender[d]
    BY <1>1 DEF TypeOK
<1>3. SameGen(q) /\ SameSession(q) /\ ended'[q] = ended[q] /\ reported'[q] = reported[q]
    BY <1>1 DEF gen, session, SameGen, SameSession
<1>4. \A d \in Enders : /\ About(d, q)' <=> About(d, q)
                        /\ ender'[d].ok = ender[d].ok /\ ender'[d].path = ender[d].path
    BY <1>1, <1>2 DEF About
<1>5. Ending(q)'
    BY <1>3, <1>4 DEF Safe, Ending, SameGen, SameSession
<1>6. CASE q \in gone
  <2>1. About(e, q) /\ ender[e].path = "hls" /\ dirs'[q] = "absent"
      BY <1>1, <1>6 DEF About, RemoveDirs
  <2>2. pc[q] = "done" /\ manifest[q] = "hls"
      BY <2>1 DEF Safe, Removing
  <2>3. Generating(q)' /\ Responding(q)'
      BY <1>3, <2>2 DEF Safe, Generating, Responding, SameGen, SameSession
  <2>4. Removing(q)'
      BY <1>3, <1>4, <2>1 DEF Safe, Removing, SameGen, SameSession
  <2> QED BY <1>5, <2>3, <2>4 DEF Safe
<1>7. CASE q \notin gone
  <2>1. SameDir(q)
      BY <1>1, <1>7 DEF RemoveDirs, SameDir
  <2>2. Generating(q)' /\ Responding(q)'
      BY <1>3, <2>1 DEF Safe, Generating, Responding, SameGen, SameSession, SameDir
  <2>3. \A d \in Enders : About(d, q) /\ ender[d].path = "hls" => d # e
      BY <1>1, <1>7 DEF About
  <2>4. Removing(q)'
      BY <1>2, <1>3, <1>4, <2>1, <2>3 DEF Safe, Removing, SameGen, SameSession, SameDir
  <2> QED BY <1>5, <2>2, <2>4 DEF Safe
<1> QED BY <1>6, <1>7

\* The event is published by the one EndSession that found the session, with the
\* bytes that nobody counts any more.
LEMMA EndPublishSafe ==
    ASSUME TypeOK, NEW e \in Enders, EndPublish(e), NEW q \in Requests, Safe(q)
    PROVE  Safe(q)'
<1>1. /\ ender[e].at = "publish" /\ ender' = [ender EXCEPT ![e] = Idle]
      /\ UNCHANGED <<pc, gen, files, session, dirs>>
    BY DEF EndPublish
<1>2. ender'[e].at = "idle" /\ \A d \in Enders : d # e => ender'[d] = ender[d]
    BY <1>1 DEF TypeOK, Idle
<1>3. SameGen(q) /\ SameSession(q) /\ SameDir(q)
    BY <1>1 DEF gen, session, SameGen, SameSession, SameDir
<1>4. ~About(e, q)' /\ \A d \in Enders : d # e => (About(d, q)' <=> About(d, q))
    BY <1>2 DEF About
<1>5. Generating(q)' /\ Responding(q)'
    BY <1>3 DEF Safe, Generating, Responding, SameGen, SameSession, SameDir
<1>6. Removing(q)'
    BY <1>1, <1>2, <1>3, <1>4 DEF Safe, Removing, SameGen, SameSession, SameDir
<1>7. CASE ender[e].id = q /\ ender[e].ok
  <2>1. About(e, q) /\ ender[e].id \in Requests
      BY <1>1, <1>7 DEF About
  <2>2. ended'[q] = ended[q] + 1 /\ reported'[q] = bytes[q]
      BY <1>7 DEF EndPublish, TypeOK
  <2>3. ended[q] = 0 /\ pc[q] = "done" /\ q \notin sessions
      BY <1>7, <2>1 DEF Safe, Ending, Removing
  <2>4. \A d \in Enders : About(d, q) /\ ender[d].ok => d = e
      BY <1>7, <2>1 DEF Safe, Ending
  <2>5. Ending(q)'
      BY <1>2, <1>3, <1>4, <2>2, <2>3, <2>4 DEF Ending, SameGen, SameSession
  <2> QED BY <1>5, <1>6, <2>5 DEF Safe
<1>8. CASE ~(ender[e].id = q /\ ender[e].ok)
  <2>1. ended'[q] = ended[q] /\ reported'[q] = reported[q]
      BY <1>8 DEF EndPublish, TypeOK
  <2>2. Ending(q)'
      BY <1>2, <1>3, <1>4, <2>1 DEF Safe, Ending, SameGen, SameSession
  <2> QED BY <1>5, <1>6, <2>2 DEF Safe
<1> QED BY <1>7, <1>8


-----------------------------------------------------------------------------
(* The cleanup loop, time, and a restart *)

\* The sweep may take a directory from a request at any time except while it is
\* fresh, that is, before its goroutines have made theirs and while it responds.
LEMMA SweptSafe ==
    ASSUME NEW q \in Requests, Safe(q), dirs[q] = "old", dirs'[q] = "absent",
           SameGen(q), SameSession(q), SameEnd(q)
    PROVE  Safe(q)'
<1>1. \A e \in Enders : (About(e, q)' <=> About(e, q)) /\ (About(e, q) => ender'[e] = ender[e])
    BY DEF SameEnd, About
<1>2. Generating(q)'
    BY DEF Safe, Generating, SameGen
<1>3. Responding(q)'
    BY DEF Safe, Responding, SameGen, SameSession
<1>4. Ending(q)'
    BY <1>1 DEF Safe, Ending, SameGen, SameSession, SameEnd
<1>5. Removing(q)'
    BY <1>1 DEF Safe, Removing, SameGen, SameSession
<1> QED BY <1>2, <1>3, <1>4, <1>5 DEF Safe

\* One entry of the sweep.
LEMMA CleanupOrphanSafe ==
    ASSUME TypeOK, NEW r \in Requests, CleanupOrphan(r), NEW q \in Requests, Safe(q)
    PROVE  Safe(q)'
<1>1. /\ RemoveDirs(IF dirs[r] = "old" THEN {r} ELSE {})
      /\ UNCHANGED <<pc, gen, session, ending>>
    BY DEF CleanupOrphan
<1>2. SameGen(q) /\ SameSession(q) /\ SameEnd(q)
    BY <1>1 DEF gen, session, ending, SameGen, SameSession, SameEnd
<1>3. CASE q = r /\ dirs[q] = "old"
  <2>1. dirs'[q] = "absent"
      BY <1>1, <1>3 DEF RemoveDirs
  <2> QED BY <1>2, <1>3, <2>1, SweptSafe
<1>4. CASE ~(q = r /\ dirs[q] = "old")
  <2>1. SameDir(q)
      BY <1>1, <1>4 DEF RemoveDirs, SameDir
  <2> QED BY <1>2, <2>1, Frame DEF Same
<1> QED BY <1>3, <1>4

\* The expired sessions go from the table with their directories; none of them is
\* one whose response is on its way.
LEMMA CleanupTickSafe ==
    ASSUME TypeOK, CleanupTick, NEW q \in Requests, Safe(q)
    PROVE  Safe(q)'
<1> DEFINE expired == {r \in sessions : access[r] = "expired"}
<1>1. /\ sessions' = sessions \ expired /\ RemoveDirs({r \in expired : manifest[r] = "hls"})
      /\ UNCHANGED <<pc, gen, access, manifest, bytes, ending>>
    BY DEF CleanupTick
<1>2. SameGen(q) /\ SameEnd(q) /\ UNCHANGED <<access, manifest, bytes, ender>>
    BY <1>1 DEF gen, ending, SameGen, SameEnd
<1>3. CASE q \notin expired
  <2>1. SameDir(q) /\ SameSession(q)
      BY <1>1, <1>2, <1>3 DEF RemoveDirs, SameDir, SameSession
  <2> QED BY <1>2, <2>1, Frame DEF Same
<1>4. CASE q \in expired
  <2>1. q \in sessions /\ q \notin sessions' /\ pc[q] = "done"
      BY <1>1, <1>4 DEF Safe, Responding, Ending
  <2>2. manifest[q] = "hls" => dirs'[q] = "absent"
      BY <1>1, <1>4 DEF RemoveDirs
  <2>3. \A e \in Enders : About(e, q)' <=> About(e, q)
      BY <1>2 DEF About
  <2>4. Generating(q)' /\ Responding(q)'
      BY <1>2, <2>1 DEF Safe, Generating, Responding, SameGen
  <2>5. Ending(q)'
      BY <1>2, <2>1, <2>3 DEF Safe, Ending, SameGen, SameEnd
  <2>6. Removing(q)'
      BY <1>2, <2>1, <2>2, <2>3 DEF Safe, Removing, SameGen
  <2> QED BY <2>4, <2>5, <2>6 DEF Safe
<1> QED BY <1>3, <1>4

\* A directory gets old when no goroutine is before its first step and no response
\* is on its way.
LEMMA DirAgesSafe ==
    ASSUME TypeOK, NEW r \in Requests, DirAges(r), NEW q \in Requests, Safe(q)
    PROVE  Safe(q)'
<1>1. /\ dirs[r] = "fresh" /\ pc[r] \notin {"generated", "assign"}
      /\ \A v \in Variants : worker[r][v] # "start"
      /\ dirs' = [dirs EXCEPT ![r] = "old"] /\ UNCHANGED <<pc, gen, files, session, ending>>
    BY DEF DirAges
<1>2. dirs'[r] = "old" /\ (q # r => dirs'[q] = dirs[q])
    BY <1>1 DEF TypeOK
<1>3. SameGen(q) /\ SameSession(q) /\ SameEnd(q) /\ UNCHANGED <<pc, worker, files, ender>>
    BY <1>1 DEF gen, session, ending, SameGen, SameSession, SameEnd
<1>4. CASE q # r
    BY <1>2, <1>3, <1>4, Frame DEF Same, SameDir
<1>5. CASE q = r
  <2>1. \A e \in Enders : About(e, q)' <=> About(e, q)
      BY <1>3 DEF About
  <2>2. Generating(q)'
      BY <1>1, <1>2, <1>3, <1>5 DEF Safe, Generating, SameGen
  <2>3. Responding(q)'
      BY <1>1, <1>3, <1>5 DEF Safe, Responding, SameGen, SameSession
  <2>4. Ending(q)'
      BY <1>3, <2>1 DEF Safe, Ending, SameGen, SameSession, SameEnd
  <2>5. Removing(q)'
      BY <1>1, <1>3, <1>5, <2>1 DEF Safe, Removing, SameGen, SameSession
  <2> QED BY <2>2, <2>3, <2>4, <2>5 DEF Safe
<1> QED BY <1>4, <1>5

\* Only a session whose response is out expires.
LEMMA AccessAgesSafe ==
    ASSUME TypeOK, NEW r \in Requests, AccessAges(r), NEW q \in Requests, Safe(q)
    PROVE  Safe(q)'
<1>1. /\ pc[r] = "done" /\ access' = [access EXCEPT ![r] = "expired"]
      /\ UNCHANGED <<pc, gen, files, sessions, manifest, bytes, dirs, ending>>
    BY DEF AccessAges
<1>2. q # r => access'[q] = access[q]
    BY <1>1 DEF TypeOK
<1>3. /\ SameGen(q) /\ SameDir(q) /\ SameEnd(q) /\ UNCHANGED ender
      /\ UNCHANGED <<sessions, manifest, bytes>>
    BY <1>1 DEF gen, ending, SameGen, SameDir, SameEnd
<1>4. CASE q # r
    BY <1>2, <1>3, <1>4, Frame DEF Same, SameSession
<1>5. CASE q = r
  <2>1. Generating(q)'
      BY <1>3 DEF Safe, Generating, SameGen, SameDir
  <2>2. Responding(q)'
      BY <1>1, <1>3, <1>5 DEF Safe, Responding, SameGen, SameDir
  <2>3. \A e \in Enders : About(e, q)' <=> About(e, q)
      BY <1>3 DEF About
  <2>4. Ending(q)'
      BY <1>3, <2>3 DEF Safe, Ending, SameGen, SameEnd
  <2>5. Removing(q)'
      BY <1>3, <2>3 DEF Safe, Removing, SameGen, SameDir
  <2> QED BY <2>1, <2>2, <2>4, <2>5 DEF Safe
<1> QED BY <1>4, <1>5

\* After a restart no goroutine and no request is left of what was under way.
LEMMA RestartSafe ==
    ASSUME TypeOK, Restart, NEW q \in Requests, Safe(q)
    PROVE  Safe(q)'
<1>1. /\ sessions' = {} /\ ender' = [e \in Enders |-> Idle]
      /\ pc' = [r \in Requests |-> IF pc[r] = "new" THEN "new" ELSE "failed"]
      /\ worker' = [r \in Requests |-> [v \in Variants |-> "none"]]
      /\ results' = [r \in Requests |-> {}]
      /\ UNCHANGED <<playlists, files, access, manifest, bytes, dirs, ended, reported>>
    BY DEF Restart
<1>2. /\ pc'[q] = IF pc[q] = "new" THEN "new" ELSE "failed"
      /\ results'[q] = {} /\ \A v \in Variants : worker'[q][v] = "none"
    BY <1>1
<1>3. \A e \in Enders : ~About(e, q)'
    BY <1>1 DEF About, Idle
<1>4. Generating(q)' /\ Responding(q)'
    BY <1>1, <1>2 DEF Safe, Generating, Responding
<1>5. Ending(q)'
    BY <1>1, <1>2, <1>3 DEF Safe, Ending
<1>6. Removing(q)'
    BY <1>2, <1>3 DEF Removing
<1> QED BY <1>4, <1>5, <1>6 DEF Safe

-----------------------------------------------------------------------------
(* The invariant *)

\* Nothing has been asked for.
LEMMA InitInv == Init => IInv
<1> SUFFICES ASSUME Init PROVE IInv
    OBVIOUS
<1>1. TypeOK
  <2>1. Idle \in EnderTypes /\ Idle.at = "idle"
      BY DEF Idle, EnderTypes
  <2>2. /\ ender \in [Enders -> EnderTypes]
        /\ \A e \in Enders : ender[e].at # "idle" => ender[e].id \in Requests
      BY <2>1 DEF Init
  <2>3. bytes \in [Requests -> 0..MaxBytes] /\ reported \in [Requests -> 0..MaxBytes]
    <3>1. 0 \in 0..MaxBytes
        BY StreamConfig
    <3>2. bytes = [r \in Requests |-> 0] /\ reported = [r \in Requests |-> 0]
        BY DEF Init
    <3> QED BY <3>1, <3>2
  <2> QED BY <2>2, <2>3 DEF Init, TypeOK, EnderTypes
<1>2. ASSUME NEW r \in Requests PROVE Safe(r)
  <2>1. Generating(r) /\ Responding(r)
    <3>1. /\ pc[r] = "new" /\ manifest[r] = "" /\ playlists[r] = {} /\ results[r] = {}
          /\ \A v \in Variants : worker[r][v] = "none"
        BY DEF Init
    <3> QED BY <3>1 DEF Generating, Responding
  <2>2. \A e \in Enders : ~About(e, r)
    <3>1. \A e \in Enders : ender[e] = Idle
        BY DEF Init
    <3>2. Idle.at = "idle"
        BY DEF Idle
    <3> QED BY <3>1, <3>2 DEF About
  <2>3. pc[r] = "new" /\ sessions = {} /\ ended[r] = 0
      BY DEF Init
  <2>4. Ending(r)
      BY <2>2, <2>3 DEF Ending
  <2>5. Removing(r)
      BY <2>2, <2>3 DEF Removing
  <2> QED BY <2>1, <2>4, <2>5 DEF Safe
<1> QED BY <1>1, <1>2 DEF IInv

\* Every step keeps every request safe.
LEMMA NextInv == IInv /\ [Next]_vars => IInv'
<1> SUFFICES ASSUME IInv, [Next]_vars PROVE IInv'
    OBVIOUS
<1>1. TypeOK /\ TypeOK'
    BY TypeNext DEF IInv
<1>2. ASSUME NEW q \in Requests PROVE Safe(q)'
  <2>1. Safe(q)
      BY DEF IInv
  <2>2. ASSUME NEW r \in Requests,
               \/ ServeRefused(r) \/ ServeGenerate(r) \/ Collect(r) \/ WriteMaster(r)
               \/ StartSession(r) \/ AssignManifest(r) \/ AssignDirect(r)
        PROVE  Safe(q)'
      BY <1>1, <2>1, <2>2, ServeRefusedSafe, ServeGenerateSafe, CollectSafe, WriteMasterSafe,
         StartSessionSafe, AssignSafe
  <2>3. ASSUME NEW r \in Requests,
               \/ GetSession(r) \/ UpdateBytesServed(r)
               \/ CleanupOrphan(r) \/ DirAges(r) \/ AccessAges(r)
        PROVE  Safe(q)'
      BY <1>1, <2>1, <2>3, GetSessionSafe, UpdateBytesServedSafe, CleanupOrphanSafe,
         DirAgesSafe, AccessAgesSafe
  <2>4. ASSUME NEW r \in Requests, NEW v \in Variants, Variant(r, v) PROVE Safe(q)'
      BY <1>1, <2>1, <2>4, VariantMkdirSafe, SendSafe DEF Variant
  <2>5. ASSUME NEW e \in Enders, NEW r \in Requests, EndTake(e, r) PROVE Safe(q)'
      BY <1>1, <2>1, <2>5, EndTakeSafe
  <2>6. ASSUME NEW e \in Enders, EndRemove(e) \/ EndPublish(e) PROVE Safe(q)'
      BY <1>1, <2>1, <2>6, EndRemoveSafe, EndPublishSafe
  <2>7. CASE CleanupTick
      BY <1>1, <2>1, <2>7, CleanupTickSafe
  <2>8. CASE Restart
      BY <1>1, <2>1, <2>8, RestartSafe
  <2>9. CASE UNCHANGED vars
    <3>1. Same(q)
        BY <2>9 DEF vars, gen, session, ending, Same, SameGen, SameDir, SameSession, SameEnd
    <3> QED BY <2>1, <3>1, Frame
  <2> QED BY <2>2, <2>3, <2>4, <2>5, <2>6, <2>7, <2>8, <2>9 DEF Next
<1> QED BY <1>1, <1>2 DEF IInv

\* The inductive invariant holds in every reachable state.
LEMMA Invariant == Spec => []IInv
BY InitInv, NextInv, PTL DEF Spec

\* However many EndSession calls race for a session, with each other, with the
\* expiry of sessions and with a restart of the process, its EventStreamEnded is
\* published at most once, and the tables stay well-formed.
THEOREM SessionsSafeAlways == Spec => []SessionsSafe
<1>1. IInv => SessionsSafe
    BY DEF IInv, Safe, Ending, SessionsSafe, EndedOnce
<1> QED BY <1>1, Invariant, PTL

\* The event carries every byte counted for the session, although EndSession reads
\* BytesServed after it has given up the lock.
THEOREM EndReportsAllBytesAlways == Spec => []EndReportsAllBytes
<1>1. IInv => EndReportsAllBytes
    BY DEF IInv, Safe, Ending, EndReportsAllBytes
<1> QED BY <1>1, Invariant, PTL

\* An HLS session that has left the table leaves no directory behind.
THEOREM NoFilesAfterEndAlways == Spec => []NoFilesAfterEnd
<1>1. IInv => NoFilesAfterEnd
    BY DEF IInv, Safe, Removing, About, NoFilesAfterEnd
<1> QED BY <1>1, Invariant, PTL

\* GenerateHLS never returns a manifest of missing files, whatever its goroutines and
\* the cleanup loop do in the meantime.
THEOREM ManifestCompleteAlways == Spec => []ManifestComplete
<1>1. IInv => ManifestComplete
    BY DEF IInv, Safe, Responding, ManifestComplete
<1> QED BY <1>1, Invariant, PTL
=============================================================================
