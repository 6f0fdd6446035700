---------------------------- MODULE CloudAccount ----------------------------
(***************************************************************************)
(* The Narwal account: lib/cloud/CloudAccountManager.js (the current       *)
(* account and what is stored of it) and lib/cloud/NarwalCloudAccount.js   *)
(* (authenticated requests, the shared token refresh, the broker address). *)
(*                                                                         *)
(* An account object is named by the session it was restored from; each    *)
(* sign-in makes a new one, and an object that is no longer current lives  *)
(* on while requests or sockets hold it. A token pair is the number of     *)
(* refreshes behind it. The server may refuse any request.                 *)
(***************************************************************************)
EXTENDS Naturals

CONSTANTS
  Sessions,      \* sign-ins, each with its account object
  NoSession,
  Callers,       \* who makes authenticated requests
  MaxRefreshes,  \* how often one session is refreshed
  MaxUserSteps   \* how often the user signs in or out or the app restarts

ASSUME AccountConstants ==
  NoSession \notin Sessions /\ MaxRefreshes \in Nat /\ MaxUserSteps \in Nat

VARIABLES
  current,    \* the manager's _account
  stored,     \* the tokens in the app settings
  used,       \* the sessions that exist
  tokens,     \* the token pair each account object holds
  posts,      \* refresh requests in flight, by account object
  refreshing, \* account objects whose _refreshing is set
  broker,     \* account objects that know their broker address
  attempts,   \* sign-ins in flight
  calls,      \* the authenticated request of each caller
  userSteps

account == <<current, stored, used, tokens, posts, refreshing, broker, attempts>>

\* toJSON: what is stored of an account object. The password never is.
TokensOf(s, pair) == [of |-> s, pair |-> pair]
NoTokens == TokensOf(NoSession, 0)
Idle == [of |-> NoSession, at |-> "idle"]

AccountTypeOK ==
  /\ current \in used \cup {NoSession}
  /\ stored \in [of : Sessions \cup {NoSession}, pair : 0..MaxRefreshes]
  /\ used \in SUBSET Sessions
  /\ tokens \in [Sessions -> 0..MaxRefreshes]
  /\ posts \in [Sessions -> 0..2]
  /\ refreshing \in SUBSET Sessions /\ broker \in SUBSET Sessions
  /\ attempts \in 0..MaxUserSteps /\ userSteps \in 0..MaxUserSteps
  /\ calls \in [Callers -> [of : Sessions \cup {NoSession},
                            at : {"idle", "first", "refresh", "retry", "failed"}]]

\* The manager restores a stored session, or there is none.
AccountInit ==
  /\ stored \in [of : Sessions, pair : {0}] \cup {NoTokens}
  /\ current = stored.of
  /\ used = {current} \ {NoSession}
  /\ tokens = [s \in Sessions |-> 0]
  /\ posts = [s \in Sessions |-> 0] /\ refreshing = {} /\ broker = {}
  /\ attempts = 0 /\ userSteps = 0
  /\ calls = [c \in Callers |-> Idle]

UserStep == userSteps < MaxUserSteps /\ userSteps' = userSteps + 1

-----------------------------------------------------------------------------
(* The manager.                                                            *)

\* The bug of storing the tokens of whichever account was refreshed.
SaveAnyTokens(s, pair) == TokensOf(s, pair)

\* onTokens of the restored account: only the current one's are stored.
SavedTokens(s, pair) == IF current = s THEN TokensOf(s, pair) ELSE stored

\* loginWithPassword, loginWithEmailCode: the request goes out on an account
\* object of its own.
SignIn ==
  /\ UserStep
  /\ attempts' = attempts + 1
  /\ UNCHANGED <<current, stored, used, tokens, posts, refreshing, broker, calls>>

\* _adopt: the new session is stored and a new account object restored from it.
\* The one that was current is left as it is.
SignInSucceeds ==
  /\ attempts > 0 /\ attempts' = attempts - 1
  /\ \E s \in Sessions \ used :
       /\ used' = used \cup {s}
       /\ stored' = TokensOf(s, 0)
       /\ current' = s
  /\ UNCHANGED <<tokens, posts, refreshing, broker, calls, userSteps>>

\* A wrong password or code, a network error, or an email code that made the
\* server create an account: nothing of the current account changes.
SignInFails ==
  /\ attempts > 0 /\ attempts' = attempts - 1
  /\ UNCHANGED <<current, stored, used, tokens, posts, refreshing, broker, calls, userSteps>>

\* logout: the server is told, but never waited for.
SignOut ==
  /\ UserStep
  /\ current' = NoSession
  /\ stored' = NoTokens
  /\ UNCHANGED <<used, tokens, posts, refreshing, broker, attempts, calls>>

\* The app is restarted: what was in flight is gone, and the manager's
\* constructor restores the stored session.
Restart ==
  /\ UserStep
  /\ current' = stored.of
  /\ tokens' = [s \in Sessions |-> IF s = stored.of THEN stored.pair ELSE tokens[s]]
  /\ posts' = [s \in Sessions |-> 0] /\ refreshing' = {} /\ broker' = {}
  /\ attempts' = 0
  /\ calls' = [c \in Callers |-> Idle]
  /\ UNCHANGED <<stored, used>>

-----------------------------------------------------------------------------
(* The account.                                                            *)

\* The bug of a refresh for every caller.
RefreshAlways(s) ==
  /\ posts[s] < 2 /\ tokens[s] < MaxRefreshes
  /\ posts' = [posts EXCEPT ![s] = @ + 1]
  /\ refreshing' = refreshing \cup {s}

\* refresh(): the callers share one request.
Refresh(s) ==
  IF s \in refreshing
    THEN UNCHANGED <<posts, refreshing>>
    ELSE /\ tokens[s] < MaxRefreshes
         /\ posts' = [posts EXCEPT ![s] = @ + 1]
         /\ refreshing' = refreshing \cup {s}

\* The callers that await the refresh of s go on at 'at'.
Resumed(s, at) ==
  [c \in Callers |-> IF calls[c] = [of |-> s, at |-> "refresh"]
                       THEN [of |-> s, at |-> at] ELSE calls[c]]

\* _doRefresh gets new tokens: they are kept, reported to the manager, and every
\* waiting request is sent again. An answer without an access token, which the code
\* would store all the same, is one the server is not expected to give.
RefreshSucceeds(s) ==
  /\ posts[s] > 0 /\ tokens[s] < MaxRefreshes
  /\ posts' = [posts EXCEPT ![s] = @ - 1]
  /\ refreshing' = refreshing \ {s}
  /\ tokens' = [tokens EXCEPT ![s] = @ + 1]
  /\ stored' = SavedTokens(s, tokens[s] + 1)
  /\ calls' = Resumed(s, "retry")
  /\ UNCHANGED <<current, used, broker, attempts, userSteps>>

\* A refused or unanswered refresh asks to sign in again; the old tokens stay.
RefreshFails(s) ==
  /\ posts[s] > 0
  /\ posts' = [posts EXCEPT ![s] = @ - 1]
  /\ refreshing' = refreshing \ {s}
  /\ calls' = Resumed(s, "failed")
  /\ UNCHANGED <<current, stored, used, tokens, broker, attempts, userSteps>>

\* _authed: a caller sends its request with the current account's token.
Request(c, s) == calls[c].at = "idle" /\ calls' = [calls EXCEPT ![c] = [of |-> s, at |-> "first"]]

\* The answer 401 or 403 to the first try: refresh, then try once more.
Refused(c) ==
  /\ calls[c].at = "first"
  /\ Refresh(calls[c].of)
  /\ calls' = [calls EXCEPT ![c].at = "refresh"]
  /\ UNCHANGED <<current, stored, used, tokens, broker, attempts, userSteps>>

\* The first or the second try is answered.
Answered(c) == calls[c].at \in {"first", "retry"} /\ calls' = [calls EXCEPT ![c] = Idle]

\* A network error, an answer that is none, a refusal of the second try, or a
\* refresh that failed.
Failed(c) ==
  calls[c].at \in {"first", "retry", "failed"} /\ calls' = [calls EXCEPT ![c] = Idle]

\* listRobots of the account check and of the pairing dialog, and brokerUrl()
\* for the sockets of other robots.
OtherRequest(c) ==
  /\ \/ current # NoSession /\ Request(c, current) /\ UNCHANGED broker
     \/ Answered(c) /\ broker' \in {broker, broker \cup {calls[c].of}}
     \/ Failed(c) /\ UNCHANGED broker
  /\ UNCHANGED <<current, stored, used, tokens, posts, refreshing, attempts, userSteps>>

Account ==
  \/ SignIn \/ SignInSucceeds \/ SignInFails \/ SignOut
  \/ \E s \in Sessions : RefreshSucceeds(s) \/ RefreshFails(s)
  \/ \E c \in Callers : Refused(c)

-----------------------------------------------------------------------------
(* Properties.                                                             *)

\* What is stored is the session in use with its latest tokens: a refresh that
\* ends after a sign-out or another sign-in stores nothing, and a restart goes
\* on with the account the user sees (CloudAccountManager.js:51).
StoredFollows ==
  stored = IF current = NoSession THEN NoTokens ELSE TokensOf(current, tokens[current])

\* However many requests and sockets find the token refused at once, one
\* refresh goes out: a refresh token is good once (NarwalCloudAccount.js:183).
OneRefresh == \A s \in Sessions : posts[s] = IF s \in refreshing THEN 1 ELSE 0
=============================================================================
