# TLA+ models of Tenkile

Tenkile is a self-hosted media server in Go. It probes what each device can
play, decides whether a file is played as it is, repackaged or transcoded,
streams it, and learns from the outcome of each playback. This directory models
the parts of it in which goroutines, handlers, timers and clean-up loops share
state, the decisions at its centre, and the session of its web client, and
checks and proves what they promise.

`tlc -config X.cfg M` checks one run, `tlapm M.tla` one proof module.
`PROJECT.json` holds the list of runs, the correspondence of every definition
with source lines, the hazards and the theorems.

## 1. Inventory

| Part | Source (`src/internal`) | State | Operations | What is hard |
|---|---|---|---|---|
| Circuit breaker | `circuitbreaker/breaker.go` | state, two counters and the time of the last failure, all atomics; no lock held across them | `Allow`, `RecordSuccess`, `RecordFailure`, `Do`, `toState` | interleaved atomic operations; recovery |
| Streaming | `stream/handler.go`, `segmenter.go` | session table (mutex), temporary directories | `ServeHLS`, `GenerateHLS`, `EndSession`, `UpdateBytesServed`, clean-up loop | goroutine per variant, first error wins, clean-up against use, restart |
| Library | `media/scanner.go`, `store.go`, `api/library.go` | library and item rows, scan status, ffprobe breaker | scan, update, delete | concurrent scans, deletion and update during a scan, time-outs |
| WebSocket hub | `events/websocket.go` | client set, send channels, subscriptions | register, unregister, read and write pumps, broadcast | close of a channel others send on, full buffers, two pumps that both clean up |
| Login guard | `api/auth/ratelimit.go`, `api/auth.go` | failures per address | `IsLocked`, `RecordFailure`, `RecordSuccess`, clean-up loop | check, verify, record in three steps |
| Capability cache | `probes/cache.go` | map in memory, SQLite table | get, set, delete, expire, clear, evict | two tiers that are not updated together |
| Playback feedback | `probes/feedback.go`, `feedback_integration.go`, `api/devices.go` | statistics, streaks and trust adjustment per device | feedback, re-probe, reset, decay | timers, snapshot and write back |
| Playback decision | `transcode/*.go`, `server/encoder.go`, `pkg/codec/database.go` | none (reads the transcode breaker) | `Decide` | many interacting conditions |
| Curated database | `probes/curated.go`, `embedded.go`, `api/admin.go` | devices shared by pointer, indexes by platform and by hash, votes | load, add, update, remove, vote, sync, import, both look-ups | handlers of several locked calls, indexes that some operations do not maintain, aliasing |
| Vendor rules | `probes/curated.go` | a device's capabilities | applying the rules, guessing the year, profile | rules that grant and deny the same feature, applied again on every load |
| Version match | `probes/curated_fuzzy.go` | none | ranking devices for a free-form name | caps, bonuses and thresholds of several scores |
| Segment cache | `metrics/segment_cache.go` | memory map with LRU list (lock), files on disk (no lock), two sizes | get, set, expire, evict, promote, invalidate, restart | look-up and removal under different locks, sizes that drift |
| Capability validator | `probes/validator.go` | anomaly history per device | validate, clear, clean | history read through a slice without the lock |
| Trust scoring | `probes/trust.go` | score cache, known devices | calculate, get, invalidate, clean, register | bonuses that change the weights |
| Server inventory | `server/inventory.go`, `benchmark.go`, `encoder.go` | encoder table | discover, benchmark, select | benchmark and selection against each other; requirements relaxed in steps |
| Playback API | `api/playback.go` | none | decision, recommendation, validation | three conditions for one question |
| Request rate limiter | `api/router.go` | request times per address | allow, clean-up loop | two places that prune |
| Web client session | `src/web/src/hooks/useApi.js`, `useAuth.js` | signals, session storage, one shared refresh | sign in, sign out, request, refresh, retry, reload | answers in any order |
| Event bus | `events/bus.go` | subscribers, history | subscribe, publish | nothing: it has publishers and no subscriber |
| User accounts | `api/users.go`, `api/auth.go` (first run) | users table | create, update, delete | not modelled, see section 5 |
| Everything else | middleware, media API, configuration, metrics, clients, ffmpeg arguments, probe parsing | – | tables, text, input and output | not modelled, see section 5 |

How they interact: the scanner guards ffprobe with a breaker, the stream
handler guards ffmpeg with another and the orchestrator reads a third. Feedback
deletes from the capability cache, and probe reports fill it. The admin API
changes the curated database in several calls per request, each of them locked.
Playback endpoints and the orchestrator read the capability cache, the
orchestrator also the encoder table. The web client talks to the server over
requests that may be answered in any order. Handlers run
concurrently, one goroutine per request; scans, clean-up loops, re-probe timers
and pumps are goroutines of their own.

## 2. Modules and code

Each module names the operations as the source does. A mutex section is one
action; code without a lock is split at every load and store of shared state;
a call to SQLite is one action.

* **BreakerOps**: each operation of the breaker in one piece, on a record. The
  clock is reduced to what the code asks of `lastFailureTime`: zero, at most
  `timeout` ago, or longer.
* **Breaker**: the same operations by several goroutines, one action per atomic
  operation, `toState`'s load, store and call of the handler included. A
  variable `up` says whether calls succeed.
* **SerialBreaker**: what a caller that has the breaker to itself sees.
  **MCBreakerSerial** states that `Breaker` with one goroutine implements it, for
  TLC and for the proof.
* **StreamSessions**: a `ServeHLS` request, the goroutines of its
  `GenerateHLS`, concurrent `EndSession` calls, the clean-up loop and a restart.
  A file system directory is absent, fresh or old; a session's manifest path is
  unset, its own directory or the media file (the direct-play fallback).
* **LibraryScan**: `ScanLibrary` by several goroutines, file by file, with the
  breaker's operations from `BreakerOps`; `Update` as a read and a write;
  `Delete` with and without the cascade, since `PRAGMA foreign_keys=ON` is
  executed on one connection of the pool.
* **WebSocketHub**: the hub loop's two cases are rendezvous with the pumps; a
  send channel is its length and whether it is closed; sending on, or closing, a
  closed channel panics, in a pump (which recovers) or in the hub (which does not).
* **LoginGuard**: requests of `Login` in two steps, check and record, with the
  password verification between them.
* **CapabilityCache**: each operation as its step on the map and its step on the
  table. A document is the number of the `Set` that stored it.
* **Feedback**: `recordFeedback` as one action (it holds the lock), the re-probe
  goroutine, its timer and its two calls as steps of a worker, the decay loop as
  a snapshot and one write per device.
* **TranscodeDecision**: `Decide` and all it consults as operators from a
  request to the set of decisions that list orders and encoder scores leave
  possible. **MCTranscodeDecision** gives the requests.
* **Slices**: the loops that remove elements from a slice or add up sizes
  (`Keep`, `Bytes`), as recursive functions over the index, shared by the
  modules below that keep lists.
* **CuratedDB**: every admin request that changes the database, as the sequence
  of its locked calls, over a heap of devices, since loaders, database and
  handlers share them by pointer. Platform and hash index are sequences of ids.
* **VendorRules**: the rule table, the conditions, the guessed year, what a rule
  changes, and the recommended profile, for a device that is loaded twice.
* **FuzzyMatch**: the score of a device for a query, the ranking and the two
  functions that answer from it; what the string comparisons find is the input.
* **SegmentCache**: `Get`, `Set` and `InvalidateMedia` by several callers, the
  memory level's two lock sections apart, the disk level file by file, a restart.
* **Validator**: all checks of `ValidateCapabilities` with their penalties, and
  the history with the slice that `checkAnomalies` took before it grows.
* **TrustScore**: the five evaluations and both bonuses as integers (scores and
  weights in hundredths; on a threshold either side of the floating-point sum is
  possible), and the cache of scores.
* **EncoderInventory**: discovery on a host that is described by what its
  commands would answer, the benchmark encoder by encoder, and `SelectEncoder`.
* **PlaybackAPI**: the three endpoints as operators on a request and the
  capabilities in the cache.
* **RateLimiter**: `Allow` and the clean-up loop, with the history of what was admitted.
* **WebSession**: the client between two awaits is one action; answers of the
  server, a reload of the page and the user's actions come in any order.
* **MCStores** puts CapabilityCache, CuratedDB, SegmentCache, Validator,
  TrustScore, EncoderInventory, RateLimiter and WebSession side by side, and
  **MCDecisions** TranscodeDecision (through MCTranscodeDecision), PlaybackAPI,
  VendorRules and FuzzyMatch. These do not call each other, so a behaviour
  follows one of them (`focus`), through all its interleavings, while the others
  keep their initial state; interleaving them with each other would multiply
  the states and add nothing.

Operators commented *Faulty variant* are alternatives to the definition that
follows them, each a plausible mistake; no specification uses them. They serve
to show that the property they belong to would notice.

## 3. Runs

| Run | Shows | Bounds, and why they are enough |
|---|---|---|
| `Breaker` | a success counter at its threshold is about to be reset; an open breaker has a trip time; a healthy service ends up behind a closed breaker (`Recovers`) | two goroutines, thresholds 2: each race needs two; a threshold of 2 tells first from last |
| `Breaker_serial` | refinement of the serial breaker, handler told of every change | one goroutine, thresholds 3 |
| `Breaker_stuck` | *violation*: see section 6 | thresholds as in the defaults |
| `StreamSessions` | one end event per session (`SessionsSafe`) with all its bytes; files gone after the end; complete manifests; goroutines end; directories reclaimed | one request with three variants and two concurrent enders; requests share nothing but the table, whose entries are independent |
| `StreamSessions_media` | *violation*: see section 6 | |
| `LibraryScan` | a completed scan has indexed every file (`ScanSound`); scans end | two scans, two files, thresholds 1, so that the breaker opens and refuses within a scan |
| `LibraryScan_orphans` | *violation*: see section 6 | |
| `WebSocketHub` | no panic in the hub; members can receive; disconnection completes; queued events are written or the connection ends | two clients, two topics, buffer of two, so that it fills and batches |
| `LoginGuard` | lock and attempts agree; exhausted means locked; lockouts are not prolonged; records are forgotten | three logins, two addresses, three attempts: all attempts can be in flight at once |
| `Stores` | one property or two per component, see the next table | see the next table |
| `Feedback` | repeated failures flagged; cleared stays clear; failures never raise trust; the re-probe comes | one device (devices are independent), two goroutines, four playbacks, thresholds 2 |
| `Decisions` | `PictureSound`: copied video is playable, burn-in transcodes, HDR is kept or tone mapped exactly once; `BestTargets`: the best video target of the ladder, channels preserved; `EndpointsAgree`: the three playback endpoints do not contradict each other; `RulesSettle`: no denied feature survives the vendor rules, and a second round changes nothing; `ExactMatchFound`: a device of the very name is passed over only within the verified bonus | about 90,000 requests of the orchestrator; all combinations of three codecs, resolution, bitrate and flags against the devices of MCPlaybackCaps; every vendor with rules against the markers its rules and year table look for; pairs of findings about a name |

The run `Stores`, component by component:

| Component | Shows | Bounds |
|---|---|---|
| CapabilityCache | `CacheBounded`; `LatestOrNothing`: operations that did not overlap leave the tiers agreed | two clients, two devices, one place in memory, `MaxSets` 3, with and without SQLite |
| CuratedDB | `LookupsFind`: what is stored is found by platform and by hash, except where an update moved it; `VotesKept`: no operation takes votes away, but for overlapping requests and a second sync | two admins, two kinds of device, one embedded, `MaxObjects` 3, `MaxIds` 3, `MaxVotes` 1, `MaxRequests` 3: enough for a request between two calls of another, and a second load |
| SegmentCache | `L1Books`: map, list and size agree and keep their limits; `DiskBounded`: the disk level keeps its limit, one more per restart | two callers, two segments of sizes 1 and 2, limits 2, `MaxCalls` 4, `MaxRestarts` 1: a segment can fill either level alone |
| Validator | `OffenderFlagged`: a device with more than `MaxAnomalies` in the window is flagged by its next validation | two devices, five reports with every kind of error, `MaxAnomalies` 2, `MaxValidations` 4 |
| TrustScore | `BadSignsCapTrust`: anomalies and an unknown platform cap the level, bonuses or not | evidence with and without bad signs, two callers, `MaxCalculations` 2 |
| EncoderInventory | `SelectionSound`: a selected encoder exists and starts, and a requirement is given up only when no encoder meets it | six hosts, two discoveries (`MaxDiscoveries`), any benchmark result |
| RateLimiter | `WindowKept`: never more than `Limit` admitted in a window, nothing of it forgotten | two addresses, limit 2, window 2, clock to `MaxNow` 5, two windows and more |
| WebSession | `SessionSound`: no retry with a refused token; signals, storage and user agree | two requests in flight, `MaxLogins` 2, `MaxTokens` 4 |

Several of these are conjunctions of named parts (`SessionsSafe`, `ScanSound`,
`HubSafety`, `CacheBounded`, `PictureSound`, `BestTargets`, `LookupsFind`,
`L1Books`); the parts, their module's `TypeOK` among them, are defined beside them.

Bounds named in guards: `MaxBytes` (bytes counted), `MaxSets` (sets),
`MaxPlaybacks` (playbacks of a device), those of the table above, the sizes of
`Workers`, `Enders`, `Scans`, `Logins`, `Clients` and `Goroutines` (what runs at once). Counters that
the code only compares with a threshold saturate at it.

`CHECK_DEADLOCK FALSE` is used where the modelled life ends: every request
served and ended, every client gone, every scan of a deleted library over, the
one decision made, the bounded calls used up.

**Fairness.** Goroutines that can move do (the Go scheduler); clean-up loops
are tickers and fire again and again; time passes. Nothing is assumed of
clients, users or administrators, nor of the outcome of a call: a probe, an
ffmpeg run or a save may fail each time. `Recovers` assumes that calls keep
being made and that the service stays up, in its own hypothesis.
`DirsReclaimed` and `WorkersEnd` assume that an ffmpeg process ends (the
command runs under a context). `ReProbeHappens` assumes that timers fire.

## 4. Proofs

Every invariant and action property that a passing run checks is also proved,
for all constants that satisfy the assumptions of the modules. These are:
thresholds positive, as `New` enforces; bounds, counts, limits and penalties
natural numbers; `MinTrust <= 0`; a send buffer of at least one place; a finite,
non-empty set of variants; a finite list of codecs in a report; requests whose
HDR policy is one of the three that `HdrPolicy` has; curated kinds with one
platform each; products and match candidates that have the fields they are
read by; and segments no larger than the disk level (`SegmentConfig`), since a
larger one is stored after everything else was evicted. TLC evaluates the
assumptions for the constants of every run.

**Loops.** What a loop over a slice computes is a recursive function here, and
the provers have no induction. `SlicesProofs` builds it from the well-foundedness
of the natural numbers: `LeastElement` (a set of naturals has a least element),
from it `InductUpTo` (a set with 0 that is closed under the next round holds
every round), and `LoopRuns` (a loop whose round maps a set into itself has a
run, so that the `CHOOSE` behind a recursive function finds one). On these rest
the facts about `Keep` (what it keeps, in what order, with what length) and
`Bytes` (what adding or removing an element does to the sum), and in the other
modules those about the rounds of the vendor rules and of the anomaly count.

* **BreakerProofs**: `TypeCorrect`; `SuccessesSettleAlways`, for which the
  goroutine that brings the counter to the threshold is the witness and every
  other step either leaves it there or resets the counter;
  `OpenIsStampedAlways`, which is not inductive: a goroutine inside
  `toState(StateOpen)` is about to open the breaker, so the invariant adds
  `TripIsStamped`, that such a goroutine has stored the time before. For a single
  goroutine, and any thresholds, `ReportsStateAlways` and the refinement
  `SerialRefinement` (`Spec => ImplementsSerial`). Both rest on `Alone`: every
  branch that the goroutine has taken still agrees with the state, since nobody
  else changes it. Each atomic step is then one step of `SerialBreaker` or a
  stutter. With two goroutines neither holds, which is why the hypothesis
  `Goroutines = {g}` is needed.
* **StreamSessionsProofs**: `SessionsSafeAlways`, `EndReportsAllBytesAlways`,
  `NoFilesAfterEndAlways` and `ManifestCompleteAlways`, for any requests,
  variants and enders. One invariant serves all four, in four parts per request.
  `Generating` ties goroutines, results and files to the directory: a goroutine
  that has yet to make its directory holds the session's fresh, so the sweep
  takes a directory only when nobody will make it again. `Responding` says that
  the goroutines are over once the manifest is returned. `Ending` says that of
  all the enders of a session only one has taken it out of the table, and that
  the bytes are final by then. `Removing` says that whoever took the entry takes
  the directory too.
* **LibraryScanProofs**: `ScanSoundAlways`, for any number of scans and files and
  any thresholds of the breaker. `CompletedIsIndexed` alone is not inductive; the
  invariant adds `Behind`: what lies behind a scan is indexed, unless a save
  failed or the library was deleted.
* **EdgeProofs**, about the parts that meet clients:
  * the login guard: `LockMatchesAttemptsAlways`, `ExhaustedIsLockedAlways`
    (strengthened by `CountsFailures`: the record holds at least the failures the
    history counts) and the action property `LockoutNotProlongedAlways`;
  * the hub: `HubSafetyAlways`, for any clients, topics and buffer size. Added to
    the invariant is `FreshIsOpen`: a client without a read pump has no write
    pump and no closed channel, without which a registration could put a closed
    channel into the hub;
  * the web client: `SessionSoundAlways`, for any number of requests in flight.
    The invariant orders tokens by the number they were obtained with
    (`TokensOrdered`: no request holds, or was refused with, a token later than
    the last one obtained, so that whatever a refresh brings is newer) and ties a
    refresh under way to the user signed in (`SessionAgrees`).
* **StoresProofs**:
  * the capability cache, for any clients, devices and size of the map, with
    SQLite and without. `CacheBoundedAlways`: the map and the order of access
    hold the same devices, each once (`Ordered`), and `Set` evicts before it
    inserts. `LatestOrNothingAlways` speaks of idle moments only; `CacheInv`
    carries it through an operation: while no two overlap, neither tier has an
    older document, apart from the row the one operation under way is about to
    write or delete (`RowDue`), and what it has in hand is the latest document
    (`InHand`). Lemma `OthersIdle` shows that an operation which overlaps with
    no other finds the others idle at each of its steps;
  * the segment cache, for any callers, segments, sizes and limits.
    `L1BooksAlways`: the size of the memory level is the sum over its list, whose
    elements are apart, and what the map refers to is listed under its key
    (`Fitting`), although the list may hold what the map has forgotten.
    `DiskBoundedAlways`: `DiskInv` bounds the files by the counted size and one
    limit per restart, as a restart starts the count at zero over the files that
    are there. The proof makes no use of the premise `~crossed`: in the model one
    call's work on the disk level is one action, whatever the other calls do; the
    premise keeps the claim to calls whose work the code too does in one piece;
  * the rate limiter: `WindowKeptAlways`, for any limit, window and addresses.
    Requests are numbered, so that what is kept is a set of those admitted, and
    both places that prune keep all that are within the window;
  * the encoder inventory: the action property `SelectionSoundAlways`, for any
    hosts and any benchmark results. `CapsSound`: an encoder in the table is one
    that ffmpeg lists on the host of the last discovery, and a hardware encoder's
    accelerator starts there. Lemma `HardwareAhead`: any hardware encoder scores
    above any software encoder, so hardware is given up only by the filter.
* **DevicesProofs**, about what the server believes of a device:
  * feedback: `TypeCorrect`, `RepeatedFailuresFlaggedAlways`,
    `ClearedStaysClearAlways` and the action property
    `FailureNeverRaisesTrustAlways`. The inductive invariant is the conjunction of
    the first three: a failure's effect on the adjustment is bounded only for
    streaks and adjustments in range, and clearing keeps flag and streak together.
    Lemmas state what `CalculateTrustDelta`, `Clamp`, `Streaks` and `Decayed`
    return;
  * trust: `BadSignsCapTrustAlways`, for all evidence and any callers. The
    arithmetic is lemma `BadSignsCap`: with every other component at its best and
    both bonuses, the total stays under the threshold times the weight.
    `TrustInv` carries this from the calculation to the cache;
  * the curated database, for any admins, kinds and requests.
    `LookupsFindAlways`: to what the property says of the two indexes
    `DatabaseInv` adds under which ids and hashes a device can be listed, and that
    a bundle's device which was never synced is listed nowhere; `RequestsSound`
    says what a handler between two of its locked calls holds, since others move
    the heap meanwhile. The action property `VotesKeptAlways` needs two more parts:
    after one sync each every device is stored under the id it carries
    (`SyncsSound`), and what a request that overlaps with no other is about to
    save has at least the votes of what it replaces (`AloneInv`);
  * the validator: the action property `OffenderFlaggedAlways`, for any devices,
    reports and limit. `ValidatorInv`: as long as no record is older than the
    window, the history counts at least the anomalies since it was last cut. A
    record of the history only grows (`Grown`), so that the slice `checkAnomalies`
    took before, wherever the array has moved since, counts no fewer than the
    history did (`SliceSeenCounts`); and an anomaly costs a tenth of the score
    whatever else was found (`AnomalyScore`).
* **DecisionsProofs**:
  * `PictureSoundAlways` and `BestTargetsAlways`, for every request, not only the
    families that TLC enumerates. The invariant is that a decision is one `Decide`
    makes for the request; the work is in the lemmas about the operators
    (`HdrDecided`: every policy either keeps HDR or maps it; `AudioLadderFalls`:
    down a ladder the channels do not grow; `VideoTarget` and `AudioTarget`: the
    first open rung is chosen);
  * `EndpointsAgreeAlways`, for every stream and every device: each answer is what
    its endpoint computes from the one cached record, in whatever order they are
    asked;
  * `ExactMatchFoundAlways`, for every pool of candidates: `FuzzyInv` says that
    what was found ranks the matches of the pool, and the lemmas bound what a
    device can score that has not the very name;
  * the action property `RulesSettleAlways`, for every product, whatever its
    vendor, model, year and capabilities. `TableSound` is what it takes of a
    vendor's table, and every table has it: no rule grants DTS, what is denied is
    denied in every year, and Dolby Vision is not granted and denied to the same
    model. Then what the rules leave depends on what they grant and deny as a
    whole, not on their order (`LeftOf`), and a second round finds nothing to
    change. `VendorInv` says that a device after a round is such a result.

Only model-checked are the liveness properties (`Recovers`, `WorkersEnd`,
`DirsReclaimed`, `ScansEnd`, `DisconnectIsComplete`, `EventsReachClients`,
`Forgotten`, `ReProbeHappens`): the prover handles neither fairness nor
`ENABLED`. The three violations of section 6 are counterexamples that TLC finds.

## 5. What the models leave out

Formatting, logging, HTTP plumbing and the wording of reasons; path validation
and the delivery of files (they change no state); statistics for export; the
contents of capability documents, tokens and messages; in `Feedback` the event
list and the per-codec statistics; in `TranscodeDecision` resolution, bitrate
and encoder score; in `CuratedDB` the codec index and free-text search; in
`Validator` the user-agent patterns, of which only whether they match is kept;
in `EncoderInventory` the output of ffmpeg and the system tools, of which only
what is found in it is kept; in `WebSession` the failures of the browser's storage.
The decay of the trust adjustment is rounded towards zero to an integer, and
the code drops what is below 0.01: both end at zero.

Not modelled:

* *Event bus.* Scanner, stream handler and orchestrator publish; nothing
  subscribes, and the hub keeps a reference that it never reads. A model would
  need subscribers that the program does not have.
* *User accounts.* The shipped migration's users table has neither `status`,
  `login_attempts` and `locked_until` nor the text ids these handlers write,
  `FirstRun` has no route and the middleware puts one fixed user into every
  context; there is no running behaviour to be faithful to.
* *ffprobe wrapper, ffmpeg commands, probe parsing, client adapters, codec names
  and MIME types, password policy.* Text to text, by tables; the models take
  what they return as input.
* *Feedback metrics, metrics and health, audit log.* They only report.
* *Middleware, media API, database and configuration.* Plumbing and single store
  calls; the one effect of the connection pool that others depend on is in
  `LibraryScan`.
* *Browser probe.* Calls of the browser's media interfaces, one after another.

## 6. Disagreements met

Shown by a run:

* `Breaker_stuck`: with the documented defaults (three successes to close, one
  call in half-open) the breaker never closes again, because `Allow` counts
  successes against `HalfOpenMax`. ffprobe, ffmpeg and transcode breakers use them.
* `StreamSessions_media`: ending a session served by direct play removes the
  directory of the media file.
* `LibraryScan_orphans`: items outlive their library.

Seen while modelling, part of the models, and claimed by no property:

* In half-open, concurrent callers exceed `HalfOpenMax` until one succeeds.
* The scanner records each probe twice (`Do` and again after it), and counts a
  refused call as a failure, which keeps the breaker open; files scanned
  meanwhile get minimal items that replace full ones.
* A scan stopped by its timeout leaves the status `scanning`. Two scans of a
  library share one status.
* `Update` writes a whole row read earlier: it can undo `last_scan_at` or
  bring a deleted library back.
* The orphan sweep goes by a directory's age alone and can remove the files of
  a session that is still watched.
* After a lockout and before the clean-up loop runs, one failure locks the
  address again. A success in flight clears a lockout.
* `Get` of the capability cache promotes what it read even if a `Set` or
  `Delete` came in between, and inserts without evicting.
* The decay loop writes back values computed from a snapshot, and can raise an
  adjustment that a failure has lowered in the meantime.
* The failure rate covers the device's whole life ("recent events" in the
  comment) and no re-probe resets it. Feedback that names no codec is counted
  in the total but in no streak. With `MinTrust` 0 failures cannot take a
  device's adjustment below zero, although the README says codec errors decrease
  trust.
* With the transcode breaker open, an item that cannot be played directly gets
  the zero decision, whose type is `direct_play`.
* An audio track can be copied to a device without DTS or Atmos support when the
  audio ladder's first rung is the source codec.
* Curated database: `PUT` and `UpdateDevice` do not maintain the indexes, an
  import always adds under a new id, a second sync replaces a device together
  with its votes, and embedded devices are the loader's own objects.
* Vendor rules: the condition "model contains 'TCL' or ..." is taken as one
  text and matches no model; a rule that sets `HasX: false` changes nothing.
  With several year markers in a model name the year depends on map order.
* Version match: the bonus for verified devices can put a near match before the
  device of that very name.
* Segment cache: the disk level's size keeps counting overwritten and expired
  files; a restart forgets the files and starts at zero; `InvalidateMedia`
  leaves list elements and disk files.
* Validator: an anomaly's first-seen time is never renewed, so a device that
  misbehaves without pause stops being counted after one window. The codec
  checks look the platform up by the name as reported, not as normalised.
* Trust: the level "verified" can be reached without any verification.
* Playback endpoints: the decision goes to the last listed target, the others
  have their own conditions for empty codec lists.
* Inventory: a second discovery discards what the benchmark measured.
* Web client: the effect at `useAuth.js:31` runs at import, with empty signals,
  and clears the session storage before `loadAuthFromStorage` reads it, so a
  reload signs out, although `useAuth.js:6` calls it "fallback persistence". A
  refresh answered after a sign-out restores a token; one answered after another
  sign-in replaces the new user's.
* `FeedbackIntegration` is not constructed by the router, the segment cache and
  the trust resolver only by tests, nothing publishes to the hub, and
  `RecordTranscodeResult` has no caller: these parts are modelled as their own
  code, not as wired today.

## 7. Plan

*Composition.* `Feedback` over `CapabilityCache` instead of the set of cached
devices, so that a re-probe deletes through both tiers.
