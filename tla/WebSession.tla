----------------------------- MODULE WebSession -----------------------------
(***************************************************************************)
(* The web client's session: the sign-in state of web/src/hooks/useAuth.js *)
(* and the requests of useApi.js, which refresh the token once on a 401    *)
(* and retry.  JavaScript runs to its next await; the answers of the       *)
(* server arrive in any order.                                             *)
(*                                                                         *)
(* A token is the sign-in it came from and a number, in the order in which *)
(* the client obtains them; the refresh token and the user are the sign-in.*)
(* What the server answers is open.  The storage is taken to work.         *)
(***************************************************************************)
EXTENDS Naturals

CONSTANTS
    Fetches,           \* the requests that can be in flight at once
    MaxLogins, MaxTokens

VARIABLES
    auth,              \* the signals: token, refresh, user, isAuthenticated
    storage,           \* sessionStorage
    fetches,           \* each request: where it is, with which token, which was refused
    refreshPromise,    \* 0, or the sign-in whose refresh token is being sent
    signing,           \* the sign-in or sign-out under way
    logins, issued,    \* counts of sign-ins and of tokens
    switched           \* the session ended or changed under a refresh (history)

webVars == <<auth, storage, fetches, refreshPromise, signing, logins, issued, switched>>

NoToken == [login |-> 0, number |-> 0]
SignedOut == [token |-> NoToken, refresh |-> 0, user |-> 0, isAuthenticated |-> FALSE]
IdleFetch == [at |-> "idle", token |-> NoToken, refused |-> NoToken]

\* The effect writes the signals to the storage whenever they change.
SetAuth(a) ==
    /\ auth' = a
    /\ storage' = [token |-> a.token, refresh |-> a.refresh, user |-> a.user]

WebInit ==
    /\ auth = SignedOut
    /\ storage = [token |-> NoToken, refresh |-> 0, user |-> 0]
    /\ fetches = [f \in Fetches |-> IdleFetch]
    /\ refreshPromise = 0 /\ signing = "no" /\ logins = 0 /\ issued = 0 /\ switched = FALSE

SameSession == UNCHANGED <<auth, storage, signing, logins, issued, switched>>

-----------------------------------------------------------------------------
(* login and logout *)

Login ==
    /\ signing = "no" /\ logins < MaxLogins
    /\ signing' = "in"
    /\ UNCHANGED <<auth, storage, fetches, refreshPromise, logins, issued, switched>>

LoginAnswered ==
    /\ signing = "in" /\ signing' = "no"
    /\ \/ /\ issued < MaxTokens
          /\ logins' = logins + 1 /\ issued' = issued + 1
          /\ SetAuth([token |-> [login |-> logins', number |-> issued'], refresh |-> logins',
                      user |-> logins', isAuthenticated |-> TRUE])
          /\ switched' = (switched \/ refreshPromise # 0)
       \/ UNCHANGED <<auth, storage, logins, issued, switched>>
    /\ UNCHANGED <<fetches, refreshPromise>>

Logout ==
    /\ signing = "no" /\ auth.isAuthenticated
    /\ signing' = "out"
    /\ UNCHANGED <<auth, storage, fetches, refreshPromise, logins, issued, switched>>

\* Whatever the answer, the state is cleared.
LogoutAnswered ==
    /\ signing = "out" /\ signing' = "no"
    /\ SetAuth(SignedOut)
    /\ switched' = (switched \/ refreshPromise # 0)
    /\ UNCHANGED <<fetches, refreshPromise, logins, issued>>

-----------------------------------------------------------------------------
(* request *)

Request(f) ==
    /\ fetches[f].at = "idle"
    /\ fetches' = [fetches EXCEPT ![f] = [IdleFetch EXCEPT !.at = "sent", !.token = auth.token]]
    /\ UNCHANGED refreshPromise /\ SameSession

\* A result, or an error that is not a 401; a retry that fails ends at the login page
\* whatever the error.
Answered(f) ==
    /\ fetches[f].at \in {"sent", "retried"}
    /\ fetches' = [fetches EXCEPT ![f] = IdleFetch]
    /\ UNCHANGED refreshPromise /\ SameSession

\* A 401: one refresh for all that need one; without a token the error is passed on,
\* without a refresh token the promise fails at once.
Unauthorized(f) ==
    /\ fetches[f].at = "sent"
    /\ IF auth.token = NoToken \/ (refreshPromise = 0 /\ auth.refresh = 0)
         THEN fetches' = [fetches EXCEPT ![f] = IdleFetch] /\ UNCHANGED refreshPromise
         ELSE /\ fetches' = [fetches EXCEPT ![f].at = "waits", ![f].refused = fetches[f].token]
              /\ refreshPromise' = IF refreshPromise = 0 THEN auth.refresh ELSE refreshPromise
    /\ SameSession

\* What follows the promise in those that wait for it.
Woken(step(_)) ==
    fetches' = [f \in Fetches |-> IF fetches[f].at = "waits" THEN step(fetches[f]) ELSE fetches[f]]

\* Faulty variant: the retry is sent with the headers of the first attempt.
RefreshedOldHeaders ==
    /\ refreshPromise # 0 /\ issued < MaxTokens
    /\ issued' = issued + 1
    /\ \E refresh \in {auth.refresh, refreshPromise} :
         SetAuth([auth EXCEPT !.token = [login |-> refreshPromise, number |-> issued'],
                              !.refresh = refresh])
    /\ Woken(LAMBDA r : [r EXCEPT !.at = "retried"])
    /\ refreshPromise' = 0
    /\ UNCHANGED <<signing, logins, switched>>

\* refreshToken succeeds: the new token is stored, with a new refresh token if the answer
\* has one, and every waiting request retries.
Refreshed ==
    /\ refreshPromise # 0 /\ issued < MaxTokens
    /\ issued' = issued + 1
    /\ \E refresh \in {auth.refresh, refreshPromise} :
         SetAuth([auth EXCEPT !.token = [login |-> refreshPromise, number |-> issued'],
                              !.refresh = refresh])
    /\ Woken(LAMBDA r : [r EXCEPT !.at = "retried", !.token = auth'.token])
    /\ refreshPromise' = 0
    /\ UNCHANGED <<signing, logins, switched>>

\* It is refused: the state is cleared, and the waiting requests go to the login page.
RefreshRefused ==
    /\ refreshPromise # 0
    /\ SetAuth(SignedOut)
    /\ Woken(LAMBDA r : IdleFetch)
    /\ refreshPromise' = 0
    /\ UNCHANGED <<signing, logins, issued, switched>>

\* It never gets through: the state stays.
RefreshLost ==
    /\ refreshPromise # 0
    /\ Woken(LAMBDA r : IdleFetch)
    /\ refreshPromise' = 0
    /\ SameSession

\* The page is loaded again, by the user or on the way to the login page: what is in
\* flight is gone.  The effect runs once when it is created, with the signals still
\* empty, and so clears the storage before loadAuthFromStorage reads it.
Reload ==
    /\ SetAuth(SignedOut)
    /\ fetches' = [f \in Fetches |-> IdleFetch]
    /\ refreshPromise' = 0 /\ signing' = "no"
    /\ UNCHANGED <<logins, issued, switched>>

WebNext ==
    \/ Login \/ LoginAnswered \/ Logout \/ LogoutAnswered
    \/ \E f \in Fetches : Request(f) \/ Answered(f) \/ Unauthorized(f)
    \/ Refreshed \/ RefreshRefused \/ RefreshLost
    \/ Reload

WebSpec == WebInit /\ [][WebNext]_webVars

-----------------------------------------------------------------------------
(* Properties *)

\* A retry never carries the token that was refused nor one obtained before it, however
\* many requests share the refresh; and as long as no sign-in or sign-out is answered during
\* a refresh, the client is signed in exactly when it has a token, and the token is
\* that of the user shown, in the signals and in the storage.
SessionSound ==
    /\ \A f \in Fetches : fetches[f].at = "retried" =>
         fetches[f].token.number > fetches[f].refused.number
    /\ ~switched => /\ auth.isAuthenticated <=> auth.token # NoToken
                    /\ auth.token.login = auth.user
                    /\ storage.token = auth.token
=============================================================================
