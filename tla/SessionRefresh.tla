-------------------------- MODULE SessionRefresh --------------------------
(***************************************************************************)
(* The session of a browser (frontend client.ts) against the API's tokens  *)
(* (auth_service, security, deps).                                         *)
(*                                                                         *)
(* Requests carry the stored access token.  The first one answered 401     *)
(* exchanges the refresh token for a new pair; those answered 401 while    *)
(* that is under way wait in failedQueue and are sent again, or rejected,  *)
(* when it ends.  A request starts a refresh at most once (_retry).  Where *)
(* a refresh fails the tokens are removed and the page goes to /login.     *)
(* Access tokens expire in the order they were issued.                     *)
(***************************************************************************)
EXTENDS Requests

CONSTANT
    Calls           \* the requests of the page

VARIABLES
    call,           \* request -> where it is
    carried,        \* request -> the access token it was sent with
    retried,        \* requests with _retry
    isRefreshing, failedQueue,
    access,         \* localStorage: the access token
    refresh,        \* localStorage: the refresh token
    isActive,       \* users.is_active
    onLogin,        \* the page has been sent to /login
    excuses         \* what has happened that may end a session

sessionVars == <<call, carried, retried, isRefreshing, failedQueue, access, refresh,
                 isActive, onLogin, excuses>>
serverVars == <<isActive, excuses>>
storeVars == <<access, refresh, onLogin>>
queueVars == <<isRefreshing, failedQueue>>

\* "denied": the 401 is on its way back; "refreshing": it awaits the refresh.
CallStates == {"new", "sent", "denied", "queued", "refreshing", "done", "failed"}
TokenStates == {"none", "valid", "expired"}
\* A valid token in flight is the one in the store or an earlier one.
CarriedStates == {"none", "stored", "earlier", "expired"}
Excuses == {"refresh token expired", "user deactivated", "refresh unanswered",
            "refresh answered by an error"}

SessionTypeOK ==
    /\ call \in [Calls -> CallStates]
    /\ carried \in [Calls -> CarriedStates]
    /\ retried \subseteq Calls
    /\ isRefreshing \in BOOLEAN
    /\ failedQueue \subseteq Calls
    /\ access \in TokenStates /\ refresh \in TokenStates
    /\ isActive \in BOOLEAN /\ onLogin \in BOOLEAN /\ excuses \subseteq Excuses

\* The user has logged in: authenticate_user issued a pair.
SessionInit ==
    /\ call = [q \in Calls |-> "new"]
    /\ carried = [q \in Calls |-> "none"]
    /\ retried = {}
    /\ isRefreshing = FALSE /\ failedQueue = {}
    /\ access = "valid" /\ refresh = "valid"
    /\ isActive = TRUE /\ onLogin = FALSE /\ excuses = {}

---------------------------------------------------------------------------
(***************************************************************************)
(* The client sends and the server answers                                 *)
(***************************************************************************)

\* The request interceptor.
Send(q) ==
    /\ call[q] = "new"
    /\ call' = [call EXCEPT ![q] = "sent"]
    /\ carried' = [carried EXCEPT ![q] = IF access = "valid" THEN "stored" ELSE access]
    /\ UNCHANGED <<retried, queueVars, storeVars, serverVars>>

\* get_current_user: the token is an unexpired access token of an active user.
Accepted(q) == carried[q] \in {"stored", "earlier"} /\ isActive

\* The answer of an accepted request, or an error that is no 401.
Served(q) ==
    /\ call[q] = "sent"
    /\ \/ Accepted(q) /\ call' = [call EXCEPT ![q] = "done"]
       \/ call' = [call EXCEPT ![q] = "failed"]
    /\ UNCHANGED <<carried, retried, queueVars, storeVars, serverVars>>

Denied(q) ==
    /\ call[q] = "sent"
    /\ ~Accepted(q)
    /\ call' = [call EXCEPT ![q] = "denied"]
    /\ UNCHANGED <<carried, retried, queueVars, storeVars, serverVars>>

---------------------------------------------------------------------------
(***************************************************************************)
(* The response interceptor, on a 401                                      *)
(***************************************************************************)

\* The token in the store is replaced or removed: requests still carry it.
Superseded == [p \in Calls |-> IF carried[p] = "stored" THEN "earlier" ELSE carried[p]]

\* Mutant: a second 401 ends the session.
GiveUpLogsOut(q) ==
    /\ call[q] = "denied" /\ q \in retried
    /\ call' = [call EXCEPT ![q] = "failed"]
    /\ access' = "none" /\ onLogin' = TRUE
    /\ carried' = Superseded
    /\ UNCHANGED <<retried, queueVars, refresh, serverVars>>
\* A 401 after this request's own refresh is passed on.
GiveUp(q) ==
    /\ call[q] = "denied" /\ q \in retried
    /\ call' = [call EXCEPT ![q] = "failed"]
    /\ UNCHANGED <<carried, retried, queueVars, storeVars, serverVars>>

\* A refresh is under way.
Enqueue(q) ==
    /\ call[q] = "denied" /\ q \notin retried
    /\ isRefreshing
    /\ call' = [call EXCEPT ![q] = "queued"]
    /\ failedQueue' = failedQueue \cup {q}
    /\ UNCHANGED <<carried, retried, isRefreshing, storeVars, serverVars>>

\* Mutant: _retry is not set.
NotMarked(q) == retried' = retried
MarkRetry(q) == retried' = retried \cup {q}

\* The request that refreshes.
StartRefresh(q) ==
    /\ call[q] = "denied" /\ q \notin retried
    /\ ~isRefreshing
    /\ refresh # "none"
    /\ MarkRetry(q)
    /\ isRefreshing' = TRUE
    /\ call' = [call EXCEPT ![q] = "refreshing"]
    /\ UNCHANGED <<carried, failedQueue, storeVars, serverVars>>

\* No refresh token: the queue is rejected and the page goes to /login.
NoRefreshToken(q) ==
    /\ call[q] = "denied" /\ q \notin retried
    /\ ~isRefreshing
    /\ refresh = "none"
    /\ MarkRetry(q)
    /\ call' = [p \in Calls |-> IF p = q \/ p \in failedQueue THEN "failed" ELSE call[p]]
    /\ failedQueue' = {}
    /\ access' = "none" /\ onLogin' = TRUE
    /\ carried' = Superseded
    /\ UNCHANGED <<isRefreshing, refresh, serverVars>>

\* refresh_access_token: the token decodes, the user is active, and the new pair
\* is audited before it is returned.
RefreshGranted == refresh = "valid" /\ isActive /\ Audited("TOKEN_REFRESH")

\* Mutant: only the refreshing request is sent again.
ResendsOne(q) ==
    /\ call' = [call EXCEPT ![q] = "sent"]
    /\ carried' = [Superseded EXCEPT ![q] = "stored"]
    /\ UNCHANGED failedQueue
\* processQueue(null, token): the waiting requests are sent with the new token.
Resend(q) ==
    /\ call' = [p \in Calls |-> IF p = q \/ p \in failedQueue THEN "sent" ELSE call[p]]
    /\ carried' = [p \in Calls |->
                      IF p = q \/ p \in failedQueue THEN "stored" ELSE Superseded[p]]
    /\ failedQueue' = {}

RefreshSucceeds(q) ==
    /\ call[q] = "refreshing"
    /\ RefreshGranted
    /\ Resend(q)
    /\ access' = "valid" /\ refresh' = "valid"
    /\ isRefreshing' = FALSE
    /\ UNCHANGED <<retried, onLogin, isActive, excuses>>

\* The catch and finally blocks.
RefreshRejected(q) ==
    /\ call' = [p \in Calls |-> IF p = q \/ p \in failedQueue THEN "failed" ELSE call[p]]
    /\ failedQueue' = {}
    /\ access' = "none" /\ refresh' = "none" /\ onLogin' = TRUE
    /\ carried' = Superseded
    /\ isRefreshing' = FALSE
    /\ UNCHANGED <<retried, isActive>>

RefreshRefused(q) ==
    /\ call[q] = "refreshing"
    /\ ~RefreshGranted
    /\ RefreshRejected(q)
    /\ UNCHANGED excuses

\* The refresh request gets no answer.
RefreshLost(q) ==
    /\ call[q] = "refreshing"
    /\ RefreshRejected(q)
    /\ excuses' = excuses \cup {"refresh unanswered"}

\* It is answered, whatever the token, 429 by the rate limiter, which does not exempt
\* /auth/refresh, or 5xx: the catch block treats these as a refusal.
RefreshErrors(q) ==
    /\ call[q] = "refreshing"
    /\ RefreshRejected(q)
    /\ excuses' = excuses \cup {"refresh answered by an error"}

---------------------------------------------------------------------------
(***************************************************************************)
(* The environment                                                         *)
(***************************************************************************)

\* The stored token expires, and with it every one issued before it.
AccessExpires ==
    /\ access = "valid"
    /\ access' = "expired"
    /\ carried' = [p \in Calls |->
                      IF carried[p] \in {"stored", "earlier"} THEN "expired" ELSE carried[p]]
    /\ UNCHANGED <<call, retried, queueVars, refresh, onLogin, serverVars>>

EarlierExpires(q) ==
    /\ carried[q] = "earlier"
    /\ carried' = [carried EXCEPT ![q] = "expired"]
    /\ UNCHANGED <<call, retried, queueVars, storeVars, serverVars>>

RefreshExpires ==
    /\ refresh = "valid"
    /\ refresh' = "expired"
    /\ excuses' = excuses \cup {"refresh token expired"}
    /\ UNCHANGED <<call, carried, retried, queueVars, access, onLogin, isActive>>

\* An operator deactivates the user.
DeactivateUser ==
    /\ isActive
    /\ isActive' = FALSE
    /\ excuses' = excuses \cup {"user deactivated"}
    /\ UNCHANGED <<call, carried, retried, queueVars, storeVars>>

\* The navigation to /login takes the page with it: nobody waits any more.
PageUnloads ==
    /\ onLogin
    /\ \E q \in Calls : call[q] \notin {"done", "failed"}
    /\ call' = [q \in Calls |-> IF call[q] = "done" THEN "done" ELSE "failed"]
    /\ isRefreshing' = FALSE /\ failedQueue' = {}
    /\ UNCHANGED <<carried, retried, storeVars, serverVars>>

Handle(q) ==
    \/ GiveUp(q) \/ Enqueue(q) \/ StartRefresh(q) \/ NoRefreshToken(q)
    \/ RefreshSucceeds(q) \/ RefreshRefused(q) \/ RefreshLost(q) \/ RefreshErrors(q)

Answer(q) == Served(q) \/ Denied(q)

SessionNext ==
    \/ \E q \in Calls : Send(q) \/ Answer(q) \/ Handle(q)
    \/ \E q \in Calls : EarlierExpires(q)
    \/ AccessExpires \/ RefreshExpires \/ DeactivateUser \/ PageUnloads

SessionSpec == SessionInit /\ [][SessionNext]_sessionVars

\* The server, or the network, answers a request in the end; the browser runs
\* the interceptor on the answer.
SessionFairness == \A q \in Calls : WF_sessionVars(Answer(q)) /\ WF_sessionVars(Handle(q))

---------------------------------------------------------------------------
(***************************************************************************)
(* Properties                                                              *)
(***************************************************************************)

\* A request waits in failedQueue only while another one's refresh is under way,
\* so that somebody will process the queue; one refresh at a time.
NobodyWaitsForNothing ==
    /\ failedQueue # {} => isRefreshing
    /\ isRefreshing => \E q \in Calls : call[q] = "refreshing"
    /\ \A p, q \in Calls : call[p] = "refreshing" /\ call[q] = "refreshing" => p = q
    /\ \A q \in Calls : call[q] = "queued" => q \in failedQueue

\* Every request the page sends is answered or rejected, however often the
\* access token expires under it.
EveryCallSettles ==
    \A q \in Calls : (call[q] = "sent") ~> (call[q] \in {"done", "failed"})

\* The page goes to /login only if the refresh token expired, the user was
\* deactivated, or a refresh got no answer or an error (429 and 5xx included: the
\* client does not tell them from a refusal).  The expiry of access tokens, late
\* 401s of requests sent with an old one and refreshes one after the other do not
\* end a session.
SessionOutlivesAccessToken == onLogin => excuses # {}
===========================================================================
