------------------------------ MODULE CuratedDB ------------------------------
(***************************************************************************)
(* The curated device database of internal/probes/curated.go with the      *)
(* loaders that fill it (embedded.go) and the admin handlers that change   *)
(* it (internal/api/admin.go).  Every call into the database holds its     *)
(* lock; a handler makes several of them, and other handlers run between.  *)
(*                                                                         *)
(* Devices are shared by pointer, so they live on a heap.  A kind stands   *)
(* for platform, manufacturer, model and codecs together.  Generated ids   *)
(* hold the time in nanoseconds and are fresh numbers here.  The           *)
(* codec index is left out (its readers drop ids that are no longer        *)
(* stored), and so are down votes, which are kept as up votes are.         *)
(***************************************************************************)
EXTENDS Integers, Sequences, FiniteSets, SequencesExt, Slices

CONSTANTS
    Admins, Kinds,
    PlatformOf,   \* [Kinds -> platforms]
    EmbeddedKinds,\* the kinds of the devices in the embedded bundles
    MaxObjects, MaxIds, MaxVotes, MaxRequests

NoHash == "none"

ASSUME CuratedConfig ==
    /\ NoHash \notin Kinds /\ DOMAIN PlatformOf = Kinds
    /\ EmbeddedKinds \in Seq(Kinds)
    /\ MaxObjects \in Nat /\ MaxIds \in Nat /\ MaxVotes \in Nat
    /\ MaxRequests \in Nat

VARIABLES
    heap,          \* the devices allocated so far
    devices,       \* id -> device
    hashIndex, platformIndex,
    nextId,        \* what generateDeviceID returns next
    serving,       \* Load has finished, the handlers are mounted
    request,       \* what each admin has in progress
    served,        \* requests begun so far (bounded by MaxRequests)
    tangled, moved,\* hashes and ids whose index entries went stale (history)
    concurrent,    \* two requests have been in progress at once (history)
    syncs          \* how often each embedded device was synced, up to 2 (history)

curatedVars == <<heap, devices, hashIndex, platformIndex, nextId, serving, request,
                 served, tangled, moved, concurrent, syncs>>

Device(id, hash, kind, votes, verified, official) ==
    [id |-> id, hash |-> hash, kind |-> kind, votes |-> votes,
     verified |-> verified, official |-> official]

NoRequest == [at |-> "idle"]
Bundle == 1..Len(EmbeddedKinds)

\* The bundles are parsed once; the database and the loader share their devices.
CuratedInit ==
    /\ heap = [i \in Bundle |-> Device(i, NoHash, EmbeddedKinds[i], 0, TRUE, TRUE)]
    /\ devices = <<>>
    /\ hashIndex = [h \in Kinds |-> <<>>]
    /\ platformIndex = [p \in {PlatformOf[k] : k \in Kinds} |-> <<>>]
    /\ nextId = Len(EmbeddedKinds) + 1
    /\ serving = FALSE
    /\ request = [a \in Admins |-> NoRequest]
    /\ served = 0
    /\ tangled = {} /\ moved = {} /\ concurrent = FALSE /\ syncs = [i \in Bundle |-> 0]

Stored == DOMAIN devices
At(id) == heap[devices[id]]
Pointers == {devices[id] : id \in Stored}

-----------------------------------------------------------------------------
(* The database's operations *)

GetByDeviceHash(h) ==
    IF hashIndex[h] # <<>> /\ hashIndex[h][1] \in Stored THEN {hashIndex[h][1]} ELSE {}

GetByPlatform(p) == Keep(platformIndex[p], Stored)

\* The hash joins all that a kind stands for, so it tells exactly the kinds apart.
generateDeviceHash(d) == d.kind

updateIndexes(d) ==
    /\ hashIndex' = IF d.hash = NoHash THEN hashIndex
                    ELSE [hashIndex EXCEPT ![d.hash] = Append(@, d.id)]
    /\ platformIndex' = [platformIndex EXCEPT ![PlatformOf[d.kind]] = Append(@, d.id)]

\* Stores device o of the heap under an id.
PutDevice(id, o) == devices' = [i \in Stored \union {id} |-> IF i = id THEN o ELSE devices[i]]

\* addDevice, of device o in h: the loaders' way in.  A device whose hash is known
\* replaces the first of that hash or is dropped.
addDevice(h, o) ==
    LET d == [h[o] EXCEPT !.hash = IF @ = NoHash THEN generateDeviceHash(h[o]) ELSE @]
        known == GetByDeviceHash(d.hash)
    IN  IF known = {}
          THEN /\ heap' = [h EXCEPT ![o] = d]
               /\ PutDevice(d.id, o)
               /\ updateIndexes(d)
               /\ tangled' = IF d.id \in Stored THEN tangled \union {d.hash, At(d.id).hash}
                             ELSE tangled
          ELSE LET e == h[devices[CHOOSE id \in known : TRUE]]
                   merged == [d EXCEPT !.id = e.id, !.votes = e.votes,
                                       !.verified = e.verified \/ @]
               IN  IF d.verified \/ d.votes > e.votes
                     THEN /\ heap' = [h EXCEPT ![o] = merged]
                          /\ PutDevice(e.id, o)
                          /\ updateIndexes(merged)
                          /\ tangled' = tangled \union {d.hash}
                     ELSE /\ heap' = [h EXCEPT ![o] = d]
                          /\ UNCHANGED <<devices, hashIndex, platformIndex, tangled>>

\* AddDevice, of device o in h: the API's way in, always under a new id.
AddDevice(h, o) ==
    /\ nextId <= MaxIds
    /\ LET d == [h[o] EXCEPT !.id = nextId, !.hash = generateDeviceHash(h[o])]
       IN  /\ heap' = [h EXCEPT ![o] = d]
           /\ PutDevice(nextId, o)
           /\ updateIndexes(d)
           /\ tangled' = IF o \in Pointers THEN tangled \union {h[o].hash, d.hash} ELSE tangled
    /\ nextId' = nextId + 1

\* UpdateDevice: the pointer is stored under the id it carries; no index follows.
UpdateDevice(o) ==
    LET id == heap[o].id
    IN  IF id \in Stored
          THEN /\ devices' = [devices EXCEPT ![id] = o]
               /\ tangled' = IF heap[o].hash = At(id).hash THEN tangled
                             ELSE tangled \union {heap[o].hash, At(id).hash}
               /\ moved' = IF PlatformOf[heap[o].kind] = PlatformOf[At(id).kind] THEN moved
                           ELSE moved \union {id}
          ELSE UNCHANGED <<devices, tangled, moved>>

\* Faulty variant: the hash index keeps the id.
RemoveDeviceKeepHash(id) ==
    /\ id \in Stored
    /\ platformIndex' = [platformIndex EXCEPT ![PlatformOf[At(id).kind]] = RemoveFirst(@, id)]
    /\ devices' = [i \in Stored \ {id} |-> devices[i]]
    /\ UNCHANGED hashIndex

RemoveDevice(id) ==
    /\ id \in Stored
    /\ hashIndex' = IF At(id).hash = NoHash THEN hashIndex
                    ELSE [hashIndex EXCEPT ![At(id).hash] = RemoveFirst(@, id)]
    /\ platformIndex' = [platformIndex EXCEPT ![PlatformOf[At(id).kind]] = RemoveFirst(@, id)]
    /\ devices' = [i \in Stored \ {id} |-> devices[i]]

-----------------------------------------------------------------------------
(* Start-up: Load walks the data directory before anything is served *)

\* The next device of a file: any kind, with or without votes and verification.
LoadFile(k, votes, verified) ==
    /\ ~serving /\ Len(heap) < MaxObjects /\ nextId <= MaxIds
    /\ addDevice(Append(heap, Device(nextId, NoHash, k, votes, verified, FALSE)), Len(heap) + 1)
    /\ nextId' = nextId + 1
    /\ UNCHANGED <<serving, request, served, moved, concurrent, syncs>>

StartServing ==
    /\ ~serving /\ serving' = TRUE
    /\ UNCHANGED <<heap, devices, hashIndex, platformIndex, nextId, request, served, tangled,
                   moved, concurrent, syncs>>

-----------------------------------------------------------------------------
(* The admin handlers *)

Proceed(a, r) == request' = [request EXCEPT ![a] = r]
Finish(a) == Proceed(a, NoRequest)
MayBegin(a) == serving /\ request[a].at = "idle" /\ served < MaxRequests
Allocate == Len(heap) < MaxObjects
NewObject == Len(heap) + 1

handleCreate(a, k) ==
    /\ MayBegin(a) /\ Allocate
    /\ AddDevice(Append(heap, Device(0, NoHash, k, 0, FALSE, FALSE)), NewObject)
    /\ UNCHANGED <<request, moved>>

handleVote(a, id) ==
    /\ MayBegin(a) /\ id \in Stored /\ At(id).votes < MaxVotes
    /\ heap' = [heap EXCEPT ![devices[id]] = [At(id) EXCEPT !.votes = @ + 1]]
    /\ UNCHANGED <<devices, hashIndex, platformIndex, nextId, request, tangled, moved>>

\* handleUpdateCuratedDevice and handleVerifyDevice: GetByID ...
handleUpdate(a, id) ==
    /\ MayBegin(a) /\ id \in Stored
    /\ Proceed(a, [at |-> "edit", obj |-> devices[id]])
    /\ UNCHANGED <<heap, devices, hashIndex, platformIndex, nextId, tangled, moved>>

\* ... then the fields, in place and without the lock ...
Edit(a, k, verify) ==
    /\ request[a].at = "edit"
    /\ LET o == request[a].obj
       IN  /\ PlatformOf[k] = PlatformOf[heap[o].kind]
           /\ heap' = [heap EXCEPT ![o] = [heap[o] EXCEPT !.kind = k, !.verified = @ \/ verify]]
           /\ Proceed(a, [at |-> "save", obj |-> o])
    /\ UNCHANGED <<devices, hashIndex, platformIndex, nextId, tangled, moved>>

\* ... then UpdateDevice.
Save(a) ==
    /\ request[a].at = "save"
    /\ UpdateDevice(request[a].obj)
    /\ Finish(a)
    /\ UNCHANGED <<heap, hashIndex, platformIndex, nextId>>

\* Faulty variant: the replacement starts without votes.
handlePutNoVotes(a, id, k, h) ==
    /\ MayBegin(a) /\ id \in Stored /\ Allocate
    /\ heap' = Append(heap, Device(id, h, k, 0, At(id).verified, FALSE))
    /\ Proceed(a, [at |-> "save", obj |-> NewObject])
    /\ UNCHANGED <<devices, hashIndex, platformIndex, nextId, tangled, moved>>

\* handlePutCuratedDevice: a new device with the votes and the verification of the
\* one it read, stored by UpdateDevice (Save).
handlePut(a, id, k, h) ==
    /\ MayBegin(a) /\ id \in Stored /\ Allocate
    /\ heap' = Append(heap, Device(id, h, k, At(id).votes, At(id).verified, FALSE))
    /\ Proceed(a, [at |-> "save", obj |-> NewObject])
    /\ UNCHANGED <<devices, hashIndex, platformIndex, nextId, tangled, moved>>

Discard(id) == RemoveDevice(id) /\ UNCHANGED <<heap, nextId, tangled, moved>>

\* handleRemoveCuratedDevice
handleRemove(a, id) == MayBegin(a) /\ Discard(id) /\ UNCHANGED request

\* handleDeleteCuratedDevice: the protection is checked on what GetByID returned,
\* RemoveDevice comes later.
handleDelete(a, id) ==
    /\ MayBegin(a) /\ id \in Stored
    /\ ~(At(id).verified /\ At(id).official)
    /\ Proceed(a, [at |-> "delete", id |-> id])
    /\ UNCHANGED <<heap, devices, hashIndex, platformIndex, nextId, tangled, moved>>

\* RemoveDevice; the device's entry of the capability cache, which goes with it, is
\* not this module's.
FinishDelete(a) ==
    /\ request[a].at = "delete"
    /\ \/ Discard(request[a].id)
       \/ /\ request[a].id \notin Stored
          /\ UNCHANGED <<heap, devices, hashIndex, platformIndex, nextId, tangled, moved>>
    /\ Finish(a)

\* handleSyncEmbeddedToCuratedDB: the devices of the bundles one after another, by
\* AddDevice for one platform, by addDevice (LoadIntoCuratedDB) for all.
handleSync(a, how) ==
    /\ MayBegin(a)
    /\ IF Bundle = {} THEN UNCHANGED request ELSE Proceed(a, [at |-> how, next |-> 1])
    /\ UNCHANGED <<heap, devices, hashIndex, platformIndex, nextId, tangled, moved>>

SyncOne(a) ==
    /\ request[a].at \in {"sync platform", "sync all"}
    /\ LET o == request[a].next
       IN  /\ \/ request[a].at = "sync platform" /\ AddDevice(heap, o)
              \/ request[a].at = "sync all" /\ addDevice(heap, o) /\ UNCHANGED nextId
           /\ IF o + 1 \in Bundle THEN Proceed(a, [request[a] EXCEPT !.next = @ + 1]) ELSE Finish(a)
           /\ syncs' = [syncs EXCEPT ![o] = IF @ = 0 THEN 1 ELSE 2]
    /\ UNCHANGED moved

\* handleImportCuratedDevices, for one device of the file: GetByID and the merge
\* strategy decide whether it is kept, and a device that is there already lends it
\* its votes ...
handleImport(a, id, k, strategy, votes, verified) ==
    /\ MayBegin(a) /\ Allocate
    /\ id \in Stored => /\ strategy # "skip"
                        /\ strategy = "upsert" => verified \/ votes > At(id).votes
    /\ heap' = Append(heap, Device(id, NoHash, k,
                                   IF id \in Stored THEN At(id).votes ELSE votes, verified, FALSE))
    /\ Proceed(a, [at |-> "import", obj |-> NewObject])
    /\ UNCHANGED <<devices, hashIndex, platformIndex, nextId, tangled, moved>>

\* ... and AddDevice stores it, under a new id in every case.
FinishImport(a) ==
    /\ request[a].at = "import"
    /\ AddDevice(heap, request[a].obj)
    /\ Finish(a)
    /\ UNCHANGED moved

AdminStep(a) ==
    \/ \E k \in Kinds : handleCreate(a, k)
    \/ \E id \in Stored : \/ handleVote(a, id)
                          \/ handleUpdate(a, id)
                          \/ handleRemove(a, id)
                          \/ handleDelete(a, id)
                          \/ \E k \in Kinds, h \in Kinds \union {NoHash} : handlePut(a, id, k, h)
    \/ \E id \in 1..MaxIds, k \in Kinds, s \in {"skip", "overwrite", "upsert"},
          n \in 0..MaxVotes, v \in BOOLEAN : handleImport(a, id, k, s, n, v)
    \/ \E how \in {"sync platform", "sync all"} : handleSync(a, how)
    \/ \E k \in Kinds, v \in BOOLEAN : Edit(a, k, v)
    \/ Save(a)
    \/ FinishDelete(a)
    \/ FinishImport(a)

CuratedNext ==
    \/ \E k \in Kinds, n \in 0..MaxVotes, v \in BOOLEAN : LoadFile(k, n, v)
    \/ StartServing
    \/ \E a \in Admins :
        /\ (AdminStep(a) /\ UNCHANGED syncs) \/ SyncOne(a)
        /\ served' = IF request[a].at = "idle" THEN served + 1 ELSE served
        /\ UNCHANGED serving
        /\ concurrent' = (concurrent \/ \E b \in Admins \ {a} : request[b].at # "idle")

CuratedSpec == CuratedInit /\ [][CuratedNext]_curatedVars

-----------------------------------------------------------------------------
(* Properties *)

\* A stored device is listed under its platform (GetByPlatform) whatever was loaded,
\* synced, imported or removed around it, unless an update changed its platform:
\* UpdateDevice is the only operation that does not keep platformIndex.
FoundByPlatform ==
    \A id \in Stored \ moved : id \in ToSet(GetByPlatform(PlatformOf[At(id).kind]))

\* GetByDeviceHash finds a device of every stored hash, although it looks at the
\* first entry of the index alone: no removal leaves a dangling first entry, unless
\* an update changed a hash of that chain or a load indexed an id twice.
FoundByHash ==
    \A id \in Stored : At(id).hash \in Kinds \ tangled => GetByDeviceHash(At(id).hash) # {}

\* What is stored is found, by its platform and by its hash.
LookupsFind == FoundByPlatform /\ FoundByHash

\* No operation takes votes from a device that stays in the database ("Preserve
\* votes", admin.go) as long as admin requests do not overlap and no embedded device
\* is synced twice: the loader's devices are the stored ones.
VotesKept ==
    [][~concurrent' /\ (\A i \in Bundle : syncs'[i] <= 1) =>
        \A id \in Stored \intersect DOMAIN devices' : heap'[devices'[id]].votes >= At(id).votes
      ]_curatedVars
=============================================================================
