----------------------------- MODULE EdgeProofs -----------------------------
(****************************************************************************)
(* Proofs about the parts that clients reach the server through: the        *)
(* login guard, the WebSocket hub and the web client's session.             *)
(****************************************************************************)
EXTENDS LoginGuard, WebSocketHub, WebSession, TLAPS

-----------------------------------------------------------------------------
(* The lockout of BruteForceProtector *)

\* The inductive invariant: exhausted attempts are what LockedUntil records, and
\* the record misses no failure of the history.
IInv == TypeOK /\ LockMatchesAttempts /\ CountsFailures /\ ExhaustedIsLocked

\* One record in its context: what IInv says of a single address, where n is its
\* failRun.
Sound(f, n) ==
    /\ f \in Records /\ n \in 0..MaxAttempts
    /\ f.attempts >= MaxAttempts <=> f.locked
    /\ f.left > 0 => f.locked
    /\ n <= f.attempts
    /\ n >= MaxAttempts => f.left > 0

\* IInv is Sound for every address, together with the types of the requests.
LEMMA InvBySound ==
    ASSUME failures \in [Addresses -> Records], failRun \in [Addresses -> 0..MaxAttempts]
    PROVE  IInv <=> /\ login \in [Logins -> [at : {"idle", "verify"}, from : Addresses]]
                    /\ \A a \in Addresses : Sound(failures[a], failRun[a])
BY DEF IInv, TypeOK, LockMatchesAttempts, CountsFailures, ExhaustedIsLocked, Sound, IsLocked

\* A deleted record is sound.
LEMMA NoRecordSound == Sound(NoRecord, 0)
BY GuardConfig DEF Sound, NoRecord, Records

\* RecordFailure keeps a record sound: the failure that uses up the attempts sets
\* LockedUntil in the same critical section, and a locked record is left alone.
LEMMA FailureSound ==
    ASSUME NEW f, NEW n, Sound(f, n)
    PROVE  Sound(AfterFailure(f), IF n < MaxAttempts /\ ~(f.left > 0) THEN n + 1 ELSE n)
<1> USE GuardConfig DEF Sound, Records
<1>1. CASE f.left > 0 BY <1>1 DEF AfterFailure
<1>2. CASE ~(f.left > 0)
  <2>1. n < MaxAttempts BY <1>2
  <2>2. f.attempts + 1 >= n + 1 OBVIOUS
  <2>3. CASE f.attempts < MaxAttempts
    <3> DEFINE g == AfterFailure(f)
    <3>1. /\ g.exists = TRUE /\ g.old = FALSE /\ g.attempts = f.attempts + 1
          /\ g.left = IF f.attempts + 1 >= MaxAttempts THEN LockTicks ELSE 0
          /\ g.locked = (f.locked \/ f.attempts + 1 >= MaxAttempts)
      BY <1>2, <2>3 DEF AfterFailure
    <3>2. f.locked = FALSE BY <2>3
    <3>3. g.locked = (f.attempts + 1 >= MaxAttempts) BY <3>1, <3>2
    <3>4. g \in Records BY <1>2, <2>3, <3>2 DEF AfterFailure
    <3> HIDE DEF g
    <3>5. g.attempts >= MaxAttempts <=> g.locked BY <3>1, <3>3
    <3>6. g.left > 0 => g.locked
      <4>1. g.left > 0 => g.attempts >= MaxAttempts BY <3>1
      <4> QED BY <3>5, <4>1
    <3>7. n + 1 \in 0..MaxAttempts /\ n + 1 <= g.attempts BY <2>1, <3>1
    <3>8. n + 1 >= MaxAttempts => g.left > 0 BY <3>1
    <3>9. Sound(g, n + 1) BY <3>4, <3>5, <3>6, <3>7, <3>8
    <3> QED BY <1>2, <2>1, <3>9 DEF g
  <2>4. CASE ~(f.attempts < MaxAttempts) BY <1>2, <2>1, <2>4 DEF AfterFailure
  <2> QED BY <2>3, <2>4
<1> QED BY <1>1, <1>2

\* A tick of the clock keeps a record sound: the count starts over when the
\* lockout ends.
LEMMA TickSound ==
    ASSUME NEW f, NEW n, Sound(f, n)
    PROVE  Sound([f EXCEPT !.left = IF @ > 0 THEN @ - 1 ELSE 0], IF f.left = 1 THEN 0 ELSE n)
BY GuardConfig DEF Sound, Records

\* Every step preserves the inductive invariant.
LEMMA InvNext == IInv /\ [Next]_vars => IInv'
<1> SUFFICES ASSUME IInv, [Next]_vars PROVE IInv'
  OBVIOUS
<1>a. /\ failures \in [Addresses -> Records] /\ failRun \in [Addresses -> 0..MaxAttempts]
      /\ login \in [Logins -> [at : {"idle", "verify"}, from : Addresses]]
      /\ \A a \in Addresses : Sound(failures[a], failRun[a])
  BY InvBySound DEF IInv, TypeOK
<1>b. ASSUME login' \in [Logins -> [at : {"idle", "verify"}, from : Addresses]],
             failures' = [a \in Addresses |-> failures'[a]],
             failRun' = [a \in Addresses |-> failRun'[a]],
             \A a \in Addresses : Sound(failures'[a], failRun'[a])
      PROVE  IInv'
  <2>1. \A a \in Addresses : failures'[a] \in Records /\ failRun'[a] \in 0..MaxAttempts
    BY <1>b DEF Sound
  <2>2. failures' \in [Addresses -> Records] /\ failRun' \in [Addresses -> 0..MaxAttempts]
    BY <1>b, <2>1
  <2> QED
    BY <1>b, <2>1, <2>2
    DEF IInv, TypeOK, LockMatchesAttempts, CountsFailures, ExhaustedIsLocked, Sound, IsLocked
<1>1. CASE \E l \in Logins, a \in Addresses : CheckLock(l, a)
  BY <1>a, <1>b, <1>1 DEF CheckLock
<1>2. CASE \E l \in Logins : Abort(l)
  BY <1>a, <1>b, <1>2 DEF Abort
<1>3. ASSUME NEW l \in Logins, RecordFailure(l) PROVE IInv'
  <2> DEFINE b == login[l].from
  <2>1. b \in Addresses BY <1>a
  <2>2. Sound(failures'[b], failRun'[b])
    BY <1>a, <1>3, <2>1, FailureSound DEF RecordFailure, IsLocked
  <2>3. \A a \in Addresses : Sound(failures'[a], failRun'[a])
    BY <1>a, <1>3, <2>1, <2>2 DEF RecordFailure
  <2> QED BY <1>a, <1>b, <1>3, <2>3 DEF RecordFailure
<1>4. ASSUME NEW l \in Logins, RecordSuccess(l) PROVE IInv'
  <2>1. \A a \in Addresses : Sound(failures'[a], failRun'[a])
    BY <1>a, <1>4, NoRecordSound DEF RecordSuccess
  <2> QED BY <1>a, <1>b, <1>4, <2>1 DEF RecordSuccess
<1>5. CASE Tick
  <2>1. \A a \in Addresses : Sound(failures'[a], failRun'[a])
    BY <1>a, <1>5, TickSound DEF Tick
  <2> QED BY <1>a, <1>b, <1>5, <2>1 DEF Tick
<1>6. CASE Cleanup
  <2>1. \A a \in Addresses : Sound(failures'[a], failRun'[a])
    BY <1>a, <1>6, NoRecordSound DEF Cleanup
  <2> QED BY <1>a, <1>b, <1>6, <2>1 DEF Cleanup
<1>7. ASSUME NEW b \in Addresses, Age(b) PROVE IInv'
  <2>1. \A a \in Addresses : Sound(failures'[a], failRun'[a])
    BY <1>a, <1>7 DEF Age, Sound, Records
  <2> QED BY <1>a, <1>b, <1>7, <2>1 DEF Age
<1>8. CASE UNCHANGED vars
  BY <1>a, <1>b, <1>8 DEF vars
<1> QED BY <1>1, <1>2, <1>3, <1>4, <1>5, <1>6, <1>7, <1>8 DEF Next

\* Init => IInv and the induction.
LEMMA InvAlways == Spec => []IInv
<1>1. Init => IInv
  <2> SUFFICES ASSUME Init PROVE IInv
    OBVIOUS
  <2>1. NoRecord \in Records BY GuardConfig DEF NoRecord, Records
  <2>2. failures \in [Addresses -> Records] /\ failRun \in [Addresses -> 0..MaxAttempts]
    BY <2>1, GuardConfig DEF Init
  <2>3. \A a \in Addresses : Sound(failures[a], failRun[a]) BY NoRecordSound DEF Init
  <2>4. login \in [Logins -> [at : {"idle", "verify"}, from : Addresses]] BY DEF Init
  <2> QED BY <2>2, <2>3, <2>4, InvBySound
<1> QED BY <1>1, InvNext, PTL DEF Spec

\* Exhausted attempts and LockedUntil go together, however requests interleave.
THEOREM LockMatchesAttemptsAlways == Spec => []LockMatchesAttempts
BY InvAlways, PTL DEF IInv

\* MaxAttempts recorded failures are always answered by a lockout.
THEOREM ExhaustedIsLockedAlways == Spec => []ExhaustedIsLocked
BY InvAlways, PTL DEF IInv

\* No request that was past IsLocked when a lockout began prolongs it.
THEOREM LockoutNotProlongedAlways == Spec => LockoutNotProlonged
<1>1. IInv /\ [Next]_vars =>
        [\A a \in Addresses : IsLocked(a) => failures'[a].left <= failures[a].left]_vars
  <2> SUFFICES ASSUME IInv, Next, NEW a \in Addresses, IsLocked(a)
               PROVE  failures'[a].left <= failures[a].left
    BY DEF IInv
  <2>a. /\ failures \in [Addresses -> Records] /\ failures[a].left \in Nat
        /\ login \in [Logins -> [at : {"idle", "verify"}, from : Addresses]]
    BY GuardConfig DEF IInv, TypeOK, Records
  <2>1. CASE UNCHANGED failures BY <2>1, <2>a
  <2>2. ASSUME NEW l \in Logins, RecordFailure(l) PROVE failures'[a].left <= failures[a].left
    BY <2>a, <2>2 DEF RecordFailure, AfterFailure, IsLocked
  <2>3. ASSUME NEW l \in Logins, RecordSuccess(l) PROVE failures'[a].left <= failures[a].left
    BY <2>a, <2>3 DEF RecordSuccess, NoRecord
  <2>4. CASE Tick BY <2>4, <2>a DEF Tick, Records
  <2>5. CASE Cleanup BY <2>5, <2>a DEF Cleanup, NoRecord
  <2>6. ASSUME NEW b \in Addresses, Age(b) PROVE failures'[a].left <= failures[a].left
    BY <2>a, <2>6 DEF Age, Records
  <2> QED BY <2>1, <2>2, <2>3, <2>4, <2>5, <2>6 DEF Next, CheckLock, Abort
<1> QED BY <1>1, InvAlways, PTL DEF Spec, LockoutNotProlonged

-----------------------------------------------------------------------------
(* The WebSocket hub *)

\* A client that has not connected has no pump and no closed channel: closing is a
\* pump's doing, and a client connects once.
FreshIsOpen ==
    \A c \in Clients : reader[c] = "none" => writer[c] = "none" /\ c \notin sendClosed

HubInv == HubSafety /\ FreshIsOpen

-----------------------------------------------------------------------------

\* Queueing keeps a channel within its buffer, full or not.
LEMMA QueuedFits ==
    ASSUME NEW n \in 0..SendBuffer
    PROVE  Queued(n) \in 0..SendBuffer
BY HubConfig DEF Queued

\* At the start nobody is connected.
LEMMA InitSafe == HubInit => HubInv
<1> SUFFICES ASSUME HubInit PROVE HubInv
    OBVIOUS
<1>1. HubTyped
  <2>1. 0 \in 0..SendBuffer
      BY HubConfig
  <2>2. /\ send \in [Clients -> 0..SendBuffer]
        /\ subscriptions \in [Clients -> SUBSET Topics]
      BY <2>1 DEF HubInit
  <2>3. /\ reader \in [Clients -> {"none", "read", "reply", "unsubscribe", "close", "ended"}]
        /\ writer \in [Clients -> {"none", "select", "unsubscribe", "close", "ended"}]
      BY DEF HubInit
  <2> QED BY <2>2, <2>3 DEF HubInit, HubTyped
<1>2. HubSurvives /\ MembersCanReceive /\ FreshIsOpen
    BY DEF HubInit, HubSurvives, MembersCanReceive, FreshIsOpen
<1> QED BY <1>1, <1>2 DEF HubInv, HubSafety

\* The hub drops a client from its map in the step in which it closes the channel, so
\* the second pump's unsubscribe closes nothing.
LEMMA UnsubscribeSafe ==
    ASSUME NEW c \in Clients, Unsubscribe(c), HubTyped, MembersCanReceive
    PROVE  /\ clients' \subseteq Clients /\ sendClosed' \subseteq Clients
           /\ sendClosed' \subseteq sendClosed \union {c}
           /\ hubPanic' = FALSE
           /\ MembersCanReceive'
BY DEF Unsubscribe, HubTyped, MembersCanReceive

\* A step of a read pump.
LEMMA ReadSafe ==
    ASSUME HubInv, NEW c \in Clients, Read(c)
    PROVE  HubInv'
<1> USE DEF HubInv, HubSafety
<1>1. CASE ReadFails(c) \/ HandlePing(c) \/ ReadClose(c)
    BY <1>1 DEF ReadFails, HandlePing, ReadClose, HubTyped, HubSurvives, MembersCanReceive, FreshIsOpen
<1>2. CASE SendJSON(c)
  <2>1. send' \in [Clients -> 0..SendBuffer]
      BY <1>2, QueuedFits DEF SendJSON, HubTyped
  <2> QED BY <1>2, <2>1 DEF SendJSON, HubTyped, HubSurvives, MembersCanReceive, FreshIsOpen
<1>3. CASE ReadUnsubscribe(c)
  <2>1. Unsubscribe(c)
      BY <1>3 DEF ReadUnsubscribe
  <2> QED BY <1>3, <2>1, UnsubscribeSafe
          DEF ReadUnsubscribe, HubTyped, HubSurvives, FreshIsOpen
<1> QED BY <1>1, <1>2, <1>3 DEF Read

\* A step of a write pump; it implies that the client has a read pump.
LEMMA WriteSafe ==
    ASSUME HubInv, NEW c \in Clients, Write(c)
    PROVE  HubInv'
<1> USE DEF HubInv, HubSafety
<1>0. reader[c] # "none"
    BY DEF Write, WriteBatch, WriteEnds, WriteUnsubscribe, WriteClose, FreshIsOpen
<1>1. CASE WriteBatch(c)
    BY <1>0, <1>1, HubConfig DEF WriteBatch, HubTyped, HubSurvives, MembersCanReceive, FreshIsOpen
<1>2. CASE WriteEnds(c) \/ WriteClose(c)
    BY <1>0, <1>2 DEF WriteEnds, WriteClose, HubTyped, HubSurvives, MembersCanReceive, FreshIsOpen
<1>3. CASE WriteUnsubscribe(c)
  <2>1. Unsubscribe(c)
      BY <1>3 DEF WriteUnsubscribe
  <2> QED BY <1>0, <1>3, <2>1, UnsubscribeSafe
          DEF WriteUnsubscribe, HubTyped, HubSurvives, FreshIsOpen
<1> QED BY <1>1, <1>2, <1>3 DEF Write

\* A broadcast fills the channels of members alone.
LEMMA BroadcastSafe ==
    ASSUME HubInv, NEW t \in Topics, BroadcastEvent(t)
    PROVE  HubInv'
<1> USE DEF HubInv, HubSafety
<1>1. send' \in [Clients -> 0..SendBuffer]
    BY QueuedFits DEF BroadcastEvent, HubTyped
<1>2. owed' \subseteq Clients
    BY DEF BroadcastEvent, HubTyped
<1> QED BY <1>1, <1>2
        DEF BroadcastEvent, HubTyped, HubSurvives, MembersCanReceive, FreshIsOpen

\* Every step preserves the inductive invariant.
LEMMA StepSafe == HubInv /\ [HubNext]_hubVars => HubInv'
<1> SUFFICES ASSUME HubInv, [HubNext]_hubVars PROVE HubInv'
    OBVIOUS
<1>1. CASE UNCHANGED hubVars
    BY <1>1 DEF HubInv, HubSafety, hubVars, HubTyped, HubSurvives, MembersCanReceive, FreshIsOpen
<1>2. ASSUME NEW c \in Clients, Read(c) \/ Write(c) PROVE HubInv'
    BY <1>2, ReadSafe, WriteSafe
<1>3. ASSUME NEW c \in Clients, HandleWebSocket(c) PROVE HubInv'
    BY <1>3 DEF HubInv, HubSafety, HandleWebSocket, HubTyped, HubSurvives, MembersCanReceive,
                FreshIsOpen
<1>4. ASSUME NEW c \in Clients, NEW t \in Topics,
             HandleSubscribe(c, t) \/ HandleUnsubscribe(c, t)
      PROVE HubInv'
    BY <1>4 DEF HubInv, HubSafety, HandleSubscribe, HandleUnsubscribe, HubTyped, HubSurvives,
                MembersCanReceive, FreshIsOpen
<1>5. ASSUME NEW t \in Topics, BroadcastEvent(t) PROVE HubInv'
    BY <1>5, BroadcastSafe
<1> QED BY <1>1, <1>2, <1>3, <1>4, <1>5 DEF HubNext

\* For any number of clients and any buffer, whatever the pumps do in whatever order, the
\* hub's goroutine survives (close(client.send) runs once per client), broadcasts never
\* meet a closed channel, and no channel holds more than its buffer.
THEOREM HubSafetyAlways == HubSpec => []HubSafety
<1>1. HubInv => HubSafety
    BY DEF HubInv
<1> QED BY InitSafe, StepSafe, <1>1, PTL DEF HubSpec

-----------------------------------------------------------------------------
(* The web client's session *)

Tokens == [login : Nat, number : Nat]
FetchStates == [at : {"idle", "sent", "waits", "retried"}, token : Tokens, refused : Tokens]

\* The signals, the storage and the counts have their types.
SessionTypes ==
    /\ auth \in [token : Tokens, refresh : Nat, user : Nat, isAuthenticated : BOOLEAN]
    /\ storage \in [token : Tokens, refresh : Nat, user : Nat]
    /\ fetches \in [Fetches -> FetchStates]
    /\ refreshPromise \in Nat /\ logins \in Nat /\ issued \in Nat
    /\ switched \in BOOLEAN

\* No token is newer than the last one obtained, and what a request retries with is
\* newer than what it was refused with.
TokensOrdered ==
    \A f \in Fetches :
      /\ fetches[f].token.number <= issued
      /\ fetches[f].refused.number <= issued
      /\ fetches[f].at = "retried" => fetches[f].token.number > fetches[f].refused.number

\* While the session is the one the refresh began in, signals and storage agree, the
\* refresh token is the user's, and the refresh under way is for that user.
SessionAgrees ==
    /\ auth.token.number <= issued
    /\ ~switched =>
         /\ auth.isAuthenticated <=> auth.token # NoToken
         /\ auth.token.login = auth.user
         /\ storage.token = auth.token
         /\ auth.refresh = auth.user
         /\ refreshPromise # 0 => auth.isAuthenticated /\ refreshPromise = auth.user

SessionInv == SessionTypes /\ TokensOrdered /\ SessionAgrees

-----------------------------------------------------------------------------

\* The records the session starts from, and falls back to, have their types.
LEMMA TokenTypes ==
    /\ NoToken \in Tokens /\ NoToken.number = 0 /\ NoToken.login = 0
    /\ SignedOut \in [token : Tokens, refresh : Nat, user : Nat, isAuthenticated : BOOLEAN]
    /\ IdleFetch \in FetchStates /\ IdleFetch.at = "idle"
    /\ IdleFetch.token.number = 0 /\ IdleFetch.refused.number = 0
BY DEF NoToken, SignedOut, IdleFetch, Tokens, FetchStates

\* What a request looks like after a step that sets where it is and its token.
LEMMA FetchUpdate ==
    ASSUME NEW r \in FetchStates, NEW at \in {"idle", "sent", "waits", "retried"}, NEW t \in Tokens
    PROVE  /\ [r EXCEPT !.at = at, !.token = t] \in FetchStates
           /\ [r EXCEPT !.at = at, !.token = t].at = at
           /\ [r EXCEPT !.at = at, !.token = t].token = t
           /\ [r EXCEPT !.at = at, !.token = t].refused = r.refused
BY DEF FetchStates

\* The client starts signed out.
LEMMA SessionInitSound == WebInit => SessionInv
<1> SUFFICES ASSUME WebInit PROVE SessionInv
    OBVIOUS
<1>1. SessionTypes
    BY TokenTypes DEF WebInit, SessionTypes
<1>2. TokensOrdered
  <2>1. fetches = [f \in Fetches |-> IdleFetch] /\ issued = 0
      BY DEF WebInit
  <2>2. /\ IdleFetch.token.number <= 0 /\ IdleFetch.refused.number <= 0
        /\ IdleFetch.at # "retried"
      BY TokenTypes
  <2> QED BY <2>1, <2>2 DEF TokensOrdered
<1>3. SessionAgrees
    BY TokenTypes DEF WebInit, SessionAgrees, SignedOut
<1> QED BY <1>1, <1>2, <1>3 DEF SessionInv

\* Writing the signals writes the storage with them.
LEMMA SetAuthTypes ==
    ASSUME NEW a \in [token : Tokens, refresh : Nat, user : Nat, isAuthenticated : BOOLEAN],
           SetAuth(a)
    PROVE  /\ auth' = a /\ storage'.token = a.token
           /\ storage' \in [token : Tokens, refresh : Nat, user : Nat]
BY DEF SetAuth

\* Signing out, or a page that starts over, leaves the session consistent.
LEMMA SignedOutAgrees ==
    ASSUME SessionInv, SetAuth(SignedOut), issued' = issued, switched' \in BOOLEAN, logins' = logins,
           refreshPromise' \in Nat, switched' \/ refreshPromise' = 0,
           fetches' \in [Fetches -> FetchStates]
    PROVE  SessionTypes' /\ SessionAgrees'
<1>1. /\ auth' = SignedOut /\ storage'.token = NoToken
      /\ storage' \in [token : Tokens, refresh : Nat, user : Nat]
    BY TokenTypes, SetAuthTypes DEF SignedOut
<1>2. SessionTypes'
    BY <1>1, TokenTypes DEF SessionInv, SessionTypes
<1>3. SessionAgrees'
    BY <1>1, TokenTypes DEF SessionInv, SessionTypes, SessionAgrees, SignedOut
<1> QED BY <1>2, <1>3

\* Sign-in and sign-out.
LEMMA SigningKeeps ==
    ASSUME SessionInv, Login \/ LoginAnswered \/ Logout \/ LogoutAnswered
    PROVE  SessionInv'
<1> USE DEF SessionInv
<1>1. CASE Login \/ Logout
    BY <1>1 DEF Login, Logout, SessionTypes, TokensOrdered, SessionAgrees
<1>2. CASE LoginAnswered
  <2>1. CASE UNCHANGED <<auth, storage, logins, issued, switched>>
      BY <1>2, <2>1 DEF LoginAnswered, SessionTypes, TokensOrdered, SessionAgrees
  <2>2. CASE ~UNCHANGED <<auth, storage, logins, issued, switched>>
    <3> DEFINE a == [token |-> [login |-> logins', number |-> issued'], refresh |-> logins',
                     user |-> logins', isAuthenticated |-> TRUE]
    <3>1. /\ logins' = logins + 1 /\ issued' = issued + 1
          /\ SetAuth(a) /\ switched' = (switched \/ refreshPromise # 0)
          /\ UNCHANGED <<fetches, refreshPromise>>
        BY <1>2, <2>2 DEF LoginAnswered
    <3>2. logins' \in Nat /\ issued' \in Nat /\ issued' > issued /\ issued' # 0
        BY <3>1 DEF SessionTypes
    <3>3. a \in [token : Tokens, refresh : Nat, user : Nat, isAuthenticated : BOOLEAN]
        BY <3>2 DEF Tokens
    <3>4. /\ auth' = a /\ storage'.token = a.token
          /\ storage' \in [token : Tokens, refresh : Nat, user : Nat]
        BY <3>1, <3>3, SetAuthTypes
    <3>5. a.token # NoToken
        BY <3>2 DEF NoToken
    <3>6. switched' \in BOOLEAN
        BY <3>1 DEF SessionTypes
    <3>7. ~switched' => refreshPromise' = 0
        BY <3>1
    <3>8. SessionTypes'
        BY <3>1, <3>2, <3>3, <3>4, <3>6 DEF SessionTypes
    <3>9. TokensOrdered'
        BY <3>1, <3>2 DEF TokensOrdered, SessionTypes, FetchStates, Tokens
    <3>10. SessionAgrees'
        BY <3>2, <3>4, <3>5, <3>7 DEF SessionAgrees
    <3> QED BY <3>8, <3>9, <3>10
  <2> QED BY <2>1, <2>2
<1>3. CASE LogoutAnswered
  <2>1. /\ SetAuth(SignedOut) /\ UNCHANGED <<fetches, refreshPromise, logins, issued>>
        /\ switched' = (switched \/ refreshPromise # 0)
      BY <1>3 DEF LogoutAnswered
  <2>2. switched' \in BOOLEAN /\ (switched' \/ refreshPromise' = 0) /\ refreshPromise' \in Nat
      BY <2>1 DEF SessionTypes
  <2>3. SessionTypes' /\ SessionAgrees'
      BY <2>1, <2>2, SignedOutAgrees DEF SessionTypes
  <2>4. TokensOrdered'
      BY <2>1 DEF TokensOrdered
  <2> QED BY <2>3, <2>4
<1> QED BY <1>1, <1>2, <1>3

\* Requests and their answers.
LEMMA FetchKeeps ==
    ASSUME SessionInv, NEW f \in Fetches, Request(f) \/ Answered(f) \/ Unauthorized(f)
    PROVE  SessionInv'
<1> USE DEF SessionInv, SameSession
<1>1. CASE Request(f)
  <2> DEFINE g == [IdleFetch EXCEPT !.at = "sent", !.token = auth.token]
  <2>1. fetches' = [fetches EXCEPT ![f] = g]
      BY <1>1 DEF Request
  <2>g. g \in FetchStates /\ g.at = "sent" /\ g.token = auth.token /\ g.refused = IdleFetch.refused
    <3>1. IdleFetch \in FetchStates /\ auth.token \in Tokens
        BY TokenTypes DEF SessionTypes
    <3>2. ASSUME NEW r \in FetchStates, NEW t \in Tokens
          PROVE  /\ [r EXCEPT !.at = "sent", !.token = t] \in FetchStates
                 /\ [r EXCEPT !.at = "sent", !.token = t].at = "sent"
                 /\ [r EXCEPT !.at = "sent", !.token = t].token = t
                 /\ [r EXCEPT !.at = "sent", !.token = t].refused = r.refused
        BY ONLY <3>2 DEF FetchStates
    <3> QED BY ONLY <3>1, <3>2 DEF g
  <2> HIDE DEF g
  <2>2. UNCHANGED <<auth, storage, refreshPromise, logins, issued, switched>>
      BY <1>1 DEF Request
  <2>3. SessionTypes'
      BY <2>g, <2>1, <2>2 DEF SessionTypes
  <2>4. TokensOrdered'
    <3>1. g.token.number <= issued /\ g.refused.number <= issued
        BY <2>g, TokenTypes DEF SessionTypes, SessionAgrees
    <3> QED BY <2>g, <2>1, <2>2, <3>1 DEF SessionTypes, TokensOrdered
  <2>5. SessionAgrees'
      BY <2>2 DEF SessionAgrees
  <2> QED BY <2>3, <2>4, <2>5
<1>2. ASSUME fetches' = [fetches EXCEPT ![f] = IdleFetch], UNCHANGED refreshPromise, SameSession
      PROVE  SessionInv'
    BY <1>2, TokenTypes DEF SessionTypes, TokensOrdered, SessionAgrees
<1>3. CASE Answered(f)
    BY <1>2, <1>3 DEF Answered
<1>4. CASE Unauthorized(f)
  <2>1. CASE auth.token = NoToken \/ (refreshPromise = 0 /\ auth.refresh = 0)
      BY <1>2, <1>4, <2>1 DEF Unauthorized
  <2>2. CASE ~(auth.token = NoToken \/ (refreshPromise = 0 /\ auth.refresh = 0))
    <3>1. /\ fetches' = [fetches EXCEPT ![f] = [at |-> "waits", token |-> fetches[f].token,
                                                refused |-> fetches[f].token]]
          /\ refreshPromise' = IF refreshPromise = 0 THEN auth.refresh ELSE refreshPromise
          /\ UNCHANGED <<auth, storage, logins, issued, switched>>
        BY <1>4, <2>2 DEF Unauthorized, SessionTypes, FetchStates
    <3>2. SessionTypes'
        BY <3>1 DEF SessionTypes, FetchStates
    <3>3. TokensOrdered'
        BY <3>1 DEF SessionTypes, TokensOrdered
    <3>4. SessionAgrees'
        BY <2>2, <3>1 DEF SessionTypes, SessionAgrees
    <3> QED BY <3>2, <3>3, <3>4
  <2> QED BY <2>1, <2>2
<1> QED BY <1>1, <1>3, <1>4

\* The end of a refresh, and a reload.
LEMMA RefreshKeeps ==
    ASSUME SessionInv, Refreshed \/ RefreshRefused \/ RefreshLost \/ Reload
    PROVE  SessionInv'
<1> USE DEF SessionInv
<1>1. CASE Refreshed
  <2>1. /\ refreshPromise # 0 /\ issued' = issued + 1 /\ refreshPromise' = 0
        /\ UNCHANGED <<logins, switched>>
      BY <1>1 DEF Refreshed
  <2>2. issued' \in Nat /\ issued' > issued /\ issued' # 0
      BY <2>1 DEF SessionTypes
  <2> DEFINE t == [login |-> refreshPromise, number |-> issued']
  <2>3. PICK refresh \in {auth.refresh, refreshPromise} :
          SetAuth([auth EXCEPT !.token = t, !.refresh = refresh])
      BY <1>1 DEF Refreshed
  <2>4. t \in Tokens /\ t # NoToken /\ refresh \in Nat /\ t.number = issued' /\ t.login = refreshPromise
      BY <2>2 DEF SessionTypes, Tokens, NoToken
  <2> DEFINE a == [auth EXCEPT !.token = t, !.refresh = refresh]
  <2>5. /\ a \in [token : Tokens, refresh : Nat, user : Nat, isAuthenticated : BOOLEAN]
        /\ a.token = t /\ a.refresh = refresh /\ a.user = auth.user
        /\ a.isAuthenticated = auth.isAuthenticated
      BY <2>4 DEF SessionTypes
  <2> HIDE DEF a
  <2>6. /\ auth' = a /\ storage'.token = a.token
        /\ storage' \in [token : Tokens, refresh : Nat, user : Nat]
      BY <2>3, <2>5, SetAuthTypes DEF a
  <2> DEFINE g(f) == [fetches[f] EXCEPT !.at = "retried", !.token = t]
  <2>7. fetches' = [f \in Fetches |-> IF fetches[f].at = "waits" THEN g(f) ELSE fetches[f]]
    <3>1. fetches' = [f \in Fetches |-> IF fetches[f].at = "waits"
                        THEN [fetches[f] EXCEPT !.at = "retried", !.token = auth'.token]
                        ELSE fetches[f]]
        BY <1>1 DEF Refreshed, Woken
    <3>2. auth'.token = t
        BY <2>5, <2>6
    <3> QED BY <3>1, <3>2
  <2>g. ASSUME NEW f \in Fetches
        PROVE  /\ g(f) \in FetchStates /\ g(f).at = "retried" /\ g(f).token = t
               /\ g(f).refused = fetches[f].refused
    <3>1. fetches[f] \in FetchStates
        BY <2>g DEF SessionTypes
    <3> HIDE DEF t
    <3> QED BY <2>4, <3>1, FetchUpdate
  <2> HIDE DEF g, t
  <2>8. SessionTypes'
      BY <2>1, <2>2, <2>5, <2>6, <2>7, <2>g DEF SessionTypes
  <2>9. TokensOrdered'
    <3> SUFFICES ASSUME NEW f \in Fetches
                 PROVE  /\ fetches'[f].token.number <= issued'
                        /\ fetches'[f].refused.number <= issued'
                        /\ fetches'[f].at = "retried" =>
                             fetches'[f].token.number > fetches'[f].refused.number
        BY DEF TokensOrdered
    <3>1. fetches[f].refused.number \in Nat /\ fetches[f].token.number \in Nat
        BY DEF SessionTypes, FetchStates, Tokens
    <3>2. CASE fetches[f].at = "waits"
        BY <2>2, <2>4, <2>7, <2>g, <3>1, <3>2 DEF TokensOrdered, SessionTypes
    <3>3. CASE fetches[f].at # "waits"
        BY <2>2, <2>7, <3>1, <3>3 DEF TokensOrdered, SessionTypes
    <3> QED BY <3>2, <3>3
  <2>10. SessionAgrees'
      BY <2>1, <2>2, <2>4, <2>5, <2>6 DEF SessionTypes, SessionAgrees
  <2> QED BY <2>8, <2>9, <2>10
<1>2. ASSUME Woken(LAMBDA r : IdleFetch), issued' = issued PROVE
        /\ fetches' \in [Fetches -> FetchStates]
        /\ TokensOrdered'
  <2>1. fetches' = [f \in Fetches |-> IF fetches[f].at = "waits" THEN IdleFetch ELSE fetches[f]]
      BY <1>2 DEF Woken
  <2>2. TokensOrdered'
      BY <1>2, <2>1, TokenTypes DEF SessionTypes, TokensOrdered
  <2> QED BY <2>1, <2>2, TokenTypes DEF SessionTypes
<1>3. CASE RefreshRefused
  <2>1. /\ SetAuth(SignedOut) /\ Woken(LAMBDA r : IdleFetch) /\ refreshPromise' = 0
        /\ UNCHANGED <<logins, issued, switched>>
      BY <1>3 DEF RefreshRefused
  <2> QED BY <1>2, <2>1, SignedOutAgrees DEF SessionTypes
<1>4. CASE RefreshLost
  <2>1. /\ Woken(LAMBDA r : IdleFetch) /\ refreshPromise' = 0
        /\ UNCHANGED <<auth, storage, logins, issued, switched>>
      BY <1>4 DEF RefreshLost, SameSession
  <2>2. SessionTypes' /\ SessionAgrees'
      BY <1>2, <2>1 DEF SessionTypes, SessionAgrees
  <2> QED BY <1>2, <2>1, <2>2
<1>5. CASE Reload
  <2>1. /\ SetAuth(SignedOut) /\ refreshPromise' = 0 /\ UNCHANGED <<logins, issued, switched>>
        /\ fetches' = [f \in Fetches |-> IdleFetch]
      BY <1>5 DEF Reload
  <2>2. TokensOrdered'
      BY <2>1, TokenTypes DEF TokensOrdered, SessionTypes
  <2> QED BY <2>1, <2>2, TokenTypes, SignedOutAgrees DEF SessionTypes
<1> QED BY <1>1, <1>3, <1>4, <1>5

\* Every step preserves the inductive invariant.
LEMMA SessionStep == SessionInv /\ [WebNext]_webVars => SessionInv'
<1> SUFFICES ASSUME SessionInv, [WebNext]_webVars PROVE SessionInv'
    OBVIOUS
<1>1. CASE UNCHANGED webVars
    BY <1>1 DEF SessionInv, webVars, SessionTypes, TokensOrdered, SessionAgrees
<1>2. CASE WebNext
    BY <1>2, SigningKeeps, FetchKeeps, RefreshKeeps DEF WebNext
<1> QED BY <1>1, <1>2

\* For any number of requests in flight: the retry after a shared refresh never carries
\* the refused token or an older one, and unless a sign-in or sign-out was answered
\* during a refresh, signals, storage and the user shown agree.
THEOREM SessionSoundAlways == WebSpec => []SessionSound
<1>1. SessionInv => SessionSound
    BY DEF SessionInv, TokensOrdered, SessionAgrees, SessionSound
<1> QED BY SessionInitSound, SessionStep, <1>1, PTL DEF WebSpec

=============================================================================
