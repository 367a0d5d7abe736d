----------------------------- MODULE HttpClient -----------------------------
(***************************************************************************)
(* The browser-side HTTP client of the GoLink website:                     *)
(*   - token storage (src/website/lib/api/token.ts): two localStorage keys *)
(*   - request() with retry-on-401 and the single-flight token refresh     *)
(*     (src/website/lib/api/http.ts)                                       *)
(*   - login and logout of AuthService (services/auth.service.ts), the     *)
(*     two other writers of the token storage.                             *)
(* Each caller in Req is one pending http.get/post/... activation; the     *)
(* JavaScript event loop runs each step below atomically, and steps of     *)
(* different callers, of the refresh promise and of the user interleave.   *)
(* The backend is an environment: it accepts the access tokens in          *)
(* srvAccess and the refresh tokens in srvRefresh, and forgets either at   *)
(* any time (expiry, revocation).                                          *)
(***************************************************************************)
EXTENDS Naturals, Sequences, FiniteSets

CONSTANTS
    Req,          \* concurrent callers of the http client
    MaxCalls,     \* requests issued in total by all callers
    MaxLogins,    \* successful logins (sessions) of the user
    TenantInUrl,  \* values of getTenantIdFromUrl() # null on the pages visited
    NoToken,      \* a missing localStorage entry / a missing header
    Undefined     \* the string "undefined" setItem stores for an undefined value

ASSUME /\ MaxCalls \in Nat /\ MaxLogins \in Nat
       /\ TenantInUrl \subseteq BOOLEAN /\ TenantInUrl # {}

VARIABLES
    accessToken,    \* localStorage "access_token"
    refreshToken,   \* localStorage "refresh_token"
    isRefreshing,   \* http.ts module variable
    refreshPromise, \* http.ts module variable: index into flights, 0 = null
    flights,        \* every refresh promise created, in creation order
    req,            \* state of each caller's request() activation
    calls,          \* requests issued so far
    urlTenant,      \* the current page path carries /dashboard/{tenant_id}
    srvAccess,      \* backend: access tokens it accepts
    srvRefresh,     \* backend: sessions whose refresh token it accepts
    srvGen,         \* backend: access tokens issued per session so far
    logins,         \* backend: sessions created so far
    user            \* history: the session of the user's last login, NoToken
                    \* after a logout

storage == <<accessToken, refreshToken>>
module  == <<isRefreshing, refreshPromise, flights>>
server  == <<srvAccess, srvRefresh, srvGen, logins>>
vars    == <<storage, module, req, calls, urlTenant, server, user>>

(* A session is a login; its refresh token is the session itself and its  *)
(* access tokens are <<session, generation>>.                             *)
Sessions     == 1..MaxLogins
MaxFlights   == MaxCalls
AccessTokens == Sessions \X (0..MaxFlights)

FlightRec == [phase : {"fetching", "settled", "aborted"},
              rt    : Sessions \cup {NoToken},  \* refresh token it read
              ok    : BOOLEAN,                  \* value the promise resolves to
              why   : {"pending", "ok", "noToken", "noTenant",
                       "rejected", "network"},
              cause : AccessTokens \cup {NoToken}] \* token of the 401 that started it

ReqRec == [kind    : {"auth", "login"},          \* requireAuth, or AuthService.login
           pc      : {"idle", "sent", "wait", "done"},
           tok     : AccessTokens \cup {NoToken},  \* Authorization of the fetch in flight
           first   : AccessTokens \cup {NoToken},  \* Authorization of the first fetch
           attempt : {1, 2},
           on      : 0..MaxFlights,                \* refresh promise awaited
           result  : {"none", "ok", "error", "neterr", "expired"}]

IdleReq == [kind |-> "auth", pc |-> "idle", tok |-> NoToken, first |-> NoToken, attempt |-> 1,
            on |-> 0, result |-> "none"]

TypeOK ==
    /\ accessToken \in AccessTokens \cup {NoToken}
    /\ refreshToken \in Sessions \cup {NoToken}
    /\ isRefreshing \in BOOLEAN
    /\ refreshPromise \in 0..MaxFlights
    /\ flights \in Seq(FlightRec) /\ Len(flights) <= MaxFlights
    /\ req \in [Req -> ReqRec]
    /\ calls \in 0..MaxCalls
    /\ urlTenant \in BOOLEAN
    /\ srvAccess \subseteq AccessTokens
    /\ srvRefresh \subseteq Sessions
    /\ srvGen \in [Sessions -> 0..MaxFlights]
    /\ logins \in 0..MaxLogins
    /\ user \in Sessions \cup {NoToken}

Init ==
    /\ accessToken = NoToken /\ refreshToken = NoToken
    /\ isRefreshing = FALSE /\ refreshPromise = 0
    /\ flights = << >>
    /\ req = [r \in Req |-> IdleReq]
    /\ calls = 0
    /\ urlTenant \in TenantInUrl
    /\ srvAccess = {} /\ srvRefresh = {}
    /\ srvGen = [s \in Sessions |-> 0] /\ logins = 0
    /\ user = NoToken

-----------------------------------------------------------------------------
(* token.ts: the writers of the two storage keys.                          *)

(* setTokens given a DTO field that does not exist (e.g. accessToken for  *)
(* access_token): localStorage stores the string "undefined".              *)
SetTokensUndefinedAccess(a, r) == accessToken' = Undefined /\ refreshToken' = r

SetTokens(a, r) == accessToken' = a /\ refreshToken' = r

UpdateAccessToken(a) == accessToken' = a /\ UNCHANGED refreshToken

ClearTokens == accessToken' = NoToken /\ refreshToken' = NoToken

(* getTenantIdFromUrl() # null: the path is /dashboard/{number}/...        *)
HasTenantId == urlTenant

-----------------------------------------------------------------------------
(* AuthService.logout: clearTokens only; the backend is not told.          *)
Logout ==
    /\ ClearTokens
    /\ user' = NoToken
    /\ UNCHANGED <<module, req, calls, urlTenant, server>>

-----------------------------------------------------------------------------
(* request(): the first makeRequest(); buildHeaders reads the access token *)
(* from storage when the fetch is issued.                                  *)
Send(r) ==
    /\ req[r].pc \in {"idle", "done"}
    /\ calls < MaxCalls
    /\ calls' = calls + 1
    /\ req' = [req EXCEPT ![r] = [IdleReq EXCEPT !.pc = "sent",
                                   !.tok = accessToken, !.first = accessToken]]
    /\ UNCHANGED <<storage, module, urlTenant, server, user>>

Complete(r, res) ==
    req' = [req EXCEPT ![r].pc = "done", ![r].result = res]

(* A response other than 401, or a 401 to the retried fetch: response.json *)
(* and the ok / error result.                                              *)
Receive(r) ==
    /\ req[r].pc = "sent" /\ req[r].kind = "auth"
    /\ \/ req[r].tok \in srvAccess /\ \E res \in {"ok", "error"} : Complete(r, res)
       \/ req[r].tok \notin srvAccess /\ req[r].attempt = 2 /\ Complete(r, "error")
    /\ UNCHANGED <<storage, module, calls, urlTenant, server, user>>

(* fetch or response.json throws: the catch returns "Network error".       *)
NetworkError(r) ==
    /\ req[r].pc = "sent"
    /\ Complete(r, "neterr")
    /\ UNCHANGED <<storage, module, calls, urlTenant, server, user>>

(* AuthService.login: http.post(login, credentials, false), a request    *)
(* with requireAuth false, so buildHeaders sends no Authorization. The    *)
(* sign-in page disables its button while a login is pending.             *)
LoginInFlight == \E q \in Req : req[q].kind = "login" /\ req[q].pc = "sent"

LoginSend(r) ==
    /\ req[r].pc \in {"idle", "done"}
    /\ logins < MaxLogins /\ ~LoginInFlight
    /\ req' = [req EXCEPT ![r] = [IdleReq EXCEPT !.kind = "login", !.pc = "sent"]]
    /\ UNCHANGED <<storage, module, calls, urlTenant, server, user>>

(* The login answer: the backend opens a session and login() stores its   *)
(* tokens with setTokens; or it refuses the credentials (401 or another   *)
(* error status), which request() returns as an error without a refresh,  *)
(* and nothing is stored.                                                  *)
LoginAnswer(r) ==
    /\ req[r].pc = "sent" /\ req[r].kind = "login"
    /\ \/ LET s == logins + 1 IN
            /\ logins' = s
            /\ srvAccess' = srvAccess \cup {<<s, 0>>}
            /\ srvRefresh' = srvRefresh \cup {s}
            /\ SetTokens(<<s, 0>>, s)
            /\ user' = s
            /\ Complete(r, "ok")
       \/ /\ Complete(r, "error")
          /\ UNCHANGED <<storage, server, user>>
    /\ UNCHANGED <<module, calls, urlTenant, srvGen>>

Await(r, p) == req' = [req EXCEPT ![r].pc = "wait", ![r].on = p]

(* Mutant of Resumed: makeRequest reuses headers built once before the   *)
(* first fetch, so the retry carries the rejected token again.             *)
ResumedStaleHeaders(r, ok, stored) ==
    IF ok THEN [req[r] EXCEPT !.pc = "sent", !.attempt = 2, !.tok = req[r].first]
          ELSE [req[r] EXCEPT !.pc = "done", !.result = "expired"]

(* What an awaiting request() does once the refresh promise has settled:  *)
(* retry once, rebuilding the headers from storage, or give up with        *)
(* "Session expired" and redirect to /auth.                                *)
Resumed(r, ok, stored) ==
    IF ok THEN [req[r] EXCEPT !.pc = "sent", !.attempt = 2, !.tok = stored]
          ELSE [req[r] EXCEPT !.pc = "done", !.result = "expired"]

(* The refresh promise p settles with ok; the .finally() callback resets   *)
(* the module flags and every request awaiting p resumes, all in the same  *)
(* microtask checkpoint, so no fetch answer or user event comes between.   *)
(* stored is the access token in storage after the settlement.             *)
Settle(p, ok, why, stored) ==
    /\ flights' = [flights EXCEPT ![p].phase = "settled", ![p].ok = ok, ![p].why = why]
    /\ isRefreshing' = FALSE
    /\ refreshPromise' = 0
    /\ req' = [r \in Req |-> IF req[r].pc = "wait" /\ req[r].on = p
                               THEN Resumed(r, ok, stored) ELSE req[r]]

(* Mutant of RefreshAccessToken: ensureTokenRefresh has set isRefreshing, *)
(* and the early return (no refresh token, no tenant id) skips the reset.  *)
RefreshAccessTokenEarlyKeepsFlag(r) ==
    LET p == Len(flights) + 1
        f == [phase |-> "fetching", rt |-> refreshToken, ok |-> FALSE,
              why |-> "pending", cause |-> req[r].tok]
    IN \/ /\ refreshToken = NoToken \/ ~HasTenantId
          /\ ClearTokens
          /\ flights' = Append(flights,
                          [f EXCEPT !.phase = "settled",
                                    !.why = IF refreshToken = NoToken
                                              THEN "noToken" ELSE "noTenant"])
          /\ req' = [req EXCEPT ![r] = [Resumed(r, FALSE, NoToken) EXCEPT !.on = p]]
          /\ isRefreshing' = TRUE
          /\ UNCHANGED refreshPromise
       \/ /\ refreshToken # NoToken /\ HasTenantId
          /\ flights' = Append(flights, f)
          /\ isRefreshing' = TRUE
          /\ refreshPromise' = p
          /\ Await(r, p)
          /\ UNCHANGED storage

(* refreshAccessToken() up to its fetch. With no refresh token or no       *)
(* tenant id in the URL it clears the tokens and returns false at once,    *)
(* and the new promise settles before any other task runs.                 *)
RefreshAccessToken(r) ==
    LET p == Len(flights) + 1
        f == [phase |-> "fetching", rt |-> refreshToken, ok |-> FALSE,
              why |-> "pending", cause |-> req[r].tok]
    IN \/ /\ refreshToken = NoToken \/ ~HasTenantId
          /\ ClearTokens
          /\ flights' = Append(flights,
                          [f EXCEPT !.phase = "settled",
                                    !.why = IF refreshToken = NoToken
                                              THEN "noToken" ELSE "noTenant"])
          /\ req' = [req EXCEPT ![r] = [Resumed(r, FALSE, NoToken) EXCEPT !.on = p]]
          /\ UNCHANGED <<isRefreshing, refreshPromise>>
       \/ /\ refreshToken # NoToken /\ HasTenantId
          /\ flights' = Append(flights, f)
          /\ isRefreshing' = TRUE
          /\ refreshPromise' = p
          /\ Await(r, p)
          /\ UNCHANGED storage

(* Mutant of EnsureTokenRefresh: no check for a pending refresh.          *)
EnsureTokenRefreshNoJoin(r) == RefreshAccessToken(r)

(* ensureTokenRefresh(): join the pending refresh, or start one.           *)
EnsureTokenRefresh(r) ==
    \/ /\ isRefreshing /\ refreshPromise # 0
       /\ Await(r, refreshPromise)
       /\ UNCHANGED <<storage, module>>
    \/ /\ ~(isRefreshing /\ refreshPromise # 0)
       /\ RefreshAccessToken(r)

(* A 401 to the first fetch of a request that requires auth.              *)
Receive401(r) ==
    /\ req[r].pc = "sent" /\ req[r].kind = "auth"
    /\ req[r].tok \notin srvAccess
    /\ req[r].attempt = 1
    /\ EnsureTokenRefresh(r)
    /\ UNCHANGED <<calls, urlTenant, server, user>>

(* The refresh fetch of promise p is answered: the new access token is    *)
(* stored, or, on a non-ok status or a thrown fetch, both tokens are       *)
(* cleared; then the promise settles.                                      *)
RefreshRespond(p) ==
    /\ p \in DOMAIN flights
    /\ flights[p].phase = "fetching"
    /\ LET s == flights[p].rt
           t == <<s, srvGen[s] + 1>>
       IN \/ /\ s \in srvRefresh
             /\ srvGen' = [srvGen EXCEPT ![s] = @ + 1]
             /\ srvAccess' = srvAccess \cup {t}
             /\ UpdateAccessToken(t)
             /\ Settle(p, TRUE, "ok", t)
          \/ /\ s \notin srvRefresh
             /\ ClearTokens
             /\ Settle(p, FALSE, "rejected", NoToken)
             /\ UNCHANGED <<srvAccess, srvGen>>
          \/ /\ ClearTokens
             /\ Settle(p, FALSE, "network", NoToken)
             /\ UNCHANGED <<srvAccess, srvGen>>
    /\ UNCHANGED <<calls, urlTenant, srvRefresh, logins, user>>


-----------------------------------------------------------------------------
(* Environment.                                                            *)

(* A page load (reload, the /auth redirect, typed URL): the JavaScript    *)
(* heap is lost, localStorage survives, pending fetches are cancelled.     *)
Unload ==
    /\ isRefreshing' = FALSE
    /\ refreshPromise' = 0
    /\ flights' = [i \in DOMAIN flights |->
                     IF flights[i].phase = "fetching"
                       THEN [flights[i] EXCEPT !.phase = "aborted"]
                       ELSE flights[i]]
    /\ req' = [r \in Req |-> IdleReq]
    /\ urlTenant' \in TenantInUrl
    /\ UNCHANGED <<storage, calls, server, user>>

(* Client-side navigation: the path changes, the heap survives.            *)
Navigate ==
    /\ urlTenant' \in TenantInUrl
    /\ UNCHANGED <<storage, module, req, calls, server, user>>

ExpireAccess ==
    /\ \E t \in srvAccess : srvAccess' = srvAccess \ {t}
    /\ UNCHANGED <<storage, module, req, calls, urlTenant, srvRefresh, srvGen, logins, user>>

RevokeRefresh ==
    /\ \E s \in srvRefresh : srvRefresh' = srvRefresh \ {s}
    /\ UNCHANGED <<storage, module, req, calls, urlTenant, srvAccess, srvGen, logins, user>>

-----------------------------------------------------------------------------
Next ==
    \/ Logout
    \/ \E r \in Req : Send(r) \/ Receive(r) \/ NetworkError(r)
                      \/ Receive401(r) \/ LoginSend(r) \/ LoginAnswer(r)
    \/ \E p \in 1..MaxFlights : RefreshRespond(p)
    \/ Unload \/ Navigate \/ ExpireAccess \/ RevokeRefresh

(* Every fetch is eventually answered or fails (the browser's network     *)
(* timeout); promise continuations are part of the step that settles.      *)
Fairness ==
    /\ \A r \in Req : WF_vars(Receive(r) \/ NetworkError(r) \/ Receive401(r)
                               \/ LoginAnswer(r))
    /\ \A p \in 1..MaxFlights : WF_vars(RefreshRespond(p))

Spec == Init /\ [][Next]_vars /\ Fairness

-----------------------------------------------------------------------------
(* Properties.                                                             *)

(* Single flight: however the 401s of concurrent requests interleave with  *)
(* the refresh promise's settlement and finally callback, at most one      *)
(* refresh (ensureTokenRefresh in http.ts) is unsettled at any time.       *)
Fetching == {p \in DOMAIN flights : flights[p].phase = "fetching"}

SingleFlight == Cardinality(Fetching) <= 1

(* The retry after a successful refresh (request() in http.ts) rebuilds    *)
(* its headers from storage, so it never sends again the access token the  *)
(* backend has just rejected; it may send none if a logout intervened.     *)
RetryNeverResendsRejectedToken ==
    \A r \in Req : req[r].pc = "sent" /\ req[r].attempt = 2
                   => req[r].tok # req[r].first \/ req[r].tok = NoToken

(* The single-flight lock of ensureTokenRefresh is always released again:  *)
(* its .finally() runs once the refresh fetch settles.                     *)
RefreshLockReleased == isRefreshing ~> ~isRefreshing

(* Spec section 7: a 401 is fatal to the session it was sent for, and    *)
(* only when that session's refresh fails. request() never compares the  *)
(* token it sent with the one now stored, and refreshAccessToken reads     *)
(* the stored refresh token (http.ts:38), so the tokens of the user's      *)
(* last login must only be cleared by a refresh that a 401 to one of that *)
(* login's own access tokens started: a 401 answering a request sent       *)
(* before a logout and a new login must not end the new session.          *)
OwnRefreshFailed(s) ==
    \E p \in DOMAIN flights :
        /\ flights[p].phase = "settled" /\ ~flights[p].ok
        /\ flights[p].rt = s
        /\ flights[p].cause # NoToken /\ flights[p].cause[1] = s

NewLoginSurvivesOld401 ==
    user # NoToken /\ refreshToken = NoToken => OwnRefreshFailed(user)

(* Spec section 7: a 401 is handled transparently and only ends the       *)
(* session when the refresh itself fails: a request ends in "Session       *)
(* expired" only if there was no refresh token, the backend refused it or  *)
(* the refresh fetch failed (refreshAccessToken in http.ts).               *)
ExpiredOnlyWhenRefreshRefused ==
    \A r \in Req : req[r].result = "expired"
                   => flights[req[r].on].why \in {"noToken", "rejected", "network"}

=============================================================================
