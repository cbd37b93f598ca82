----------------------------- MODULE ApiClient ------------------------------
(***************************************************************************)
(* The web client's requests (apps/web-client/src/lib/api-client.ts) in    *)
(* the tabs of one browser: the response interceptor, which on a 401       *)
(* refreshes the tokens once and queues the requests that fail meanwhile,  *)
(* the auth store, hydration and logout.                                   *)
(*                                                                         *)
(* A tab runs JavaScript: one action of a tab is one task, up to the next  *)
(* await of something that is not there yet.  The cookies belong to the    *)
(* browser; isRefreshing, failedQueue and the store belong to the tab.     *)
(*                                                                         *)
(* Tokens are numbered in the order the server issues them; token n stands *)
(* for the access and the refresh cookie that are set together.  Of the    *)
(* server there is what an answer depends on: which refresh tokens are     *)
(* valid, and which access tokens authenticate accepts.  The handlers are  *)
(* those of AuthSessions, with reuse detection in one step and rotation in *)
(* two, so that a logout or a second tab can come in between.              *)
(***************************************************************************)
EXTENDS Integers, FiniteSets

CONSTANTS
  Tabs,          \* the tabs of the browser
  Requests,      \* slots for requests made through api
  TabOf,         \* the tab that a slot belongs to
  MaxToken,      \* bound on the tokens the server issues
  ImportYields,  \* whether import('@/store/auth-store') takes a task of its own
  Failures       \* whether answers are lost and refreshes fail halfway

ASSUME TabsAssumption == TabOf \in [Requests -> Tabs] /\ IsFiniteSet(Requests)
ASSUME BoundAssumption == MaxToken \in Nat \ {0}
ASSUME FlagsAssumption == ImportYields \in BOOLEAN /\ Failures \in BOOLEAN

VARIABLES
  session,       \* user_sessions: what became of each refresh token
  fresh,         \* the access tokens that authenticate accepts
  jar,           \* the token in the browser's cookies, 0 when there is none
  isRefreshing,  \* per tab, as in the source
  failedQueue,   \* per tab, the requests that wait for the refresh
  auth,          \* per tab, the auth store
  req            \* the requests in flight

server == <<session, fresh>>
tab == <<isRefreshing, failedQueue, auth>>
vars == <<session, fresh, jar, isRefreshing, failedQueue, auth, req>>

Token == 1..MaxToken

Stages == {"idle", "sent", "denied", "queued", "refreshSent", "rotated", "refreshed",
           "refused", "importing", "loggedOut"}

IdleRequest == [at |-> "idle", logout |-> FALSE, token |-> 0, retry |-> FALSE]

At(r, stage) == req[r].at = stage
Idle(r) == At(r, "idle")
Goto(r, stage) == req' = [req EXCEPT ![r].at = stage]
RequestsOf(t) == {r \in Requests : TabOf[r] = t}

(* The document is loaded, and between tasks of its own: unless the import *)
(* yields, what follows a failed refresh belongs to the task that brought  *)
(* the answer.                                                             *)
Ready(t) ==
  /\ auth[t] # "loading"
  /\ \A r \in RequestsOf(t) : At(r, "importing") => ImportYields

(* Everything begins with someone logged in and the tabs loaded. *)
Init ==
  /\ session = [g \in Token |-> IF g = 1 THEN "valid" ELSE "none"]
  /\ fresh = {1}
  /\ jar = 1
  /\ isRefreshing = [t \in Tabs |-> FALSE]
  /\ failedQueue = [t \in Tabs |-> {}]
  /\ auth = [t \in Tabs |-> "in"]
  /\ req = [r \in Requests |-> IdleRequest]

(***************************************************************************)
(* The server                                                              *)
(***************************************************************************)
Issued == {g \in Token : session[g] # "none"}

(* A rotation that began can end. *)
RoomForToken ==
  Cardinality(Issued) + Cardinality({r \in Requests : At(r, "rotated")}) < MaxToken

NextToken == Cardinality(Issued) + 1

AllRevoked == [g \in Token |-> IF session[g] = "valid" THEN "revoked" ELSE session[g]]

(* The access token has run out, after 15 minutes. *)
Expire(g) ==
  /\ g \in fresh
  /\ fresh' = fresh \ {g}
  /\ UNCHANGED <<session, jar, tab, req>>

(* authenticate lets the request through; what it answers changes nothing  *)
(* here.                                                                   *)
Answer(r) ==
  /\ At(r, "sent") /\ ~req[r].logout /\ req[r].token \in fresh
  /\ Ready(TabOf[r])
  /\ req' = [req EXCEPT ![r] = IdleRequest]
  /\ UNCHANGED <<server, jar, tab>>

Deny(r) ==
  /\ At(r, "sent") /\ req[r].token \notin fresh
  /\ Goto(r, "denied")
  /\ UNCHANGED <<server, jar, tab>>

(* logout without a session id revokes every session. *)
LogoutSessions(r) ==
  /\ At(r, "sent") /\ req[r].logout /\ req[r].token \in fresh
  /\ session' = AllRevoked
  /\ Goto(r, "loggedOut")
  /\ UNCHANGED <<fresh, jar, tab>>

(* refresh: a valid token is revoked, then its successor is inserted. *)
RefreshRotate(r) ==
  /\ At(r, "refreshSent") /\ req[r].token # 0
  /\ session[req[r].token] = "valid" /\ RoomForToken
  /\ session' = [session EXCEPT ![req[r].token] = "rotated"]
  /\ Goto(r, "rotated")
  /\ UNCHANGED <<fresh, jar, tab>>

RefreshSession(r) ==
  /\ At(r, "rotated")
  /\ session' = [session EXCEPT ![NextToken] = "valid"]
  /\ fresh' = fresh \cup {NextToken}
  /\ req' = [req EXCEPT ![r].at = "refreshed", ![r].token = NextToken]
  /\ UNCHANGED <<jar, tab>>

(* The presented token was rotated or revoked: every session is revoked    *)
(* and the version bumped.                                                 *)
RefreshReuse(r) ==
  /\ At(r, "refreshSent") /\ req[r].token # 0
  /\ session[req[r].token] \in {"rotated", "revoked"}
  /\ session' = AllRevoked
  /\ fresh' = {}
  /\ Goto(r, "refused")
  /\ UNCHANGED <<jar, tab>>

(* There is no cookie, or the refresh token has run out. *)
RefreshRefuse(r) ==
  /\ At(r, "refreshSent")
  /\ \/ req[r].token = 0 /\ UNCHANGED session
     \/ /\ req[r].token # 0 /\ session[req[r].token] \in {"valid", "expired"}
        /\ session' = [session EXCEPT ![req[r].token] = "expired"]
  /\ Goto(r, "refused")
  /\ UNCHANGED <<fresh, jar, tab>>

(* The refresh never reaches the server, or throws after the rotation, or  *)
(* its answer is lost; the client waits 15 seconds at most.                *)
RefreshFails(r) ==
  /\ Failures
  /\ \/ At(r, "refreshSent") \/ At(r, "rotated") \/ At(r, "refreshed")
  /\ Goto(r, "refused")
  /\ UNCHANGED <<server, jar, tab>>

(***************************************************************************)
(* The interceptor                                                         *)
(***************************************************************************)
(* A request settles; a logout signs the tab out however it settles. *)
SignedOut(t, settled) ==
  IF \E r \in settled : req[r].logout THEN [auth EXCEPT ![t] = "out"] ELSE auth

Call(r, logout) ==
  /\ Idle(r) /\ Ready(TabOf[r]) /\ auth[TabOf[r]] = "in"
  /\ req' = [req EXCEPT ![r] = [at |-> "sent", logout |-> logout, token |-> jar, retry |-> FALSE]]
  /\ UNCHANGED <<server, jar, tab>>

(* There is no answer, or none in 15 seconds. *)
CallFails(r) ==
  /\ Failures
  /\ req[r].at \in {"sent", "denied", "loggedOut"} /\ Ready(TabOf[r])
  /\ req' = [req EXCEPT ![r] = IdleRequest]
  /\ auth' = SignedOut(TabOf[r], {r})
  /\ UNCHANGED <<server, jar, isRefreshing, failedQueue>>

(* The 401 of a request that was retried already. *)
Reject(r) ==
  /\ At(r, "denied") /\ Ready(TabOf[r]) /\ req[r].retry
  /\ req' = [req EXCEPT ![r] = IdleRequest]
  /\ auth' = SignedOut(TabOf[r], {r})
  /\ UNCHANGED <<server, jar, isRefreshing, failedQueue>>

Enqueue(r) ==
  /\ At(r, "denied") /\ Ready(TabOf[r]) /\ ~req[r].retry
  /\ isRefreshing[TabOf[r]]
  /\ failedQueue' = [failedQueue EXCEPT ![TabOf[r]] = @ \cup {r}]
  /\ Goto(r, "queued")
  /\ UNCHANGED <<server, jar, isRefreshing, auth>>

(* Mutant: every 401 may start a refresh. *)
StartAnyRefresh(r) ==
  /\ At(r, "denied") /\ Ready(TabOf[r]) /\ ~req[r].retry
  /\ isRefreshing' = [isRefreshing EXCEPT ![TabOf[r]] = TRUE]
  /\ req' = [req EXCEPT ![r].at = "refreshSent", ![r].retry = TRUE, ![r].token = jar]
  /\ UNCHANGED <<server, jar, failedQueue, auth>>

StartRefresh(r) ==
  /\ At(r, "denied") /\ Ready(TabOf[r]) /\ ~req[r].retry
  /\ ~isRefreshing[TabOf[r]]
  /\ isRefreshing' = [isRefreshing EXCEPT ![TabOf[r]] = TRUE]
  /\ req' = [req EXCEPT ![r].at = "refreshSent", ![r].retry = TRUE, ![r].token = jar]
  /\ UNCHANGED <<server, jar, failedQueue, auth>>

(* Mutant: the queue is not processed after a refresh. *)
RefreshedKeepsQueue(r) ==
  /\ At(r, "refreshed") /\ Ready(TabOf[r])
  /\ jar' = req[r].token
  /\ req' = [req EXCEPT ![r].at = "sent"]
  /\ isRefreshing' = [isRefreshing EXCEPT ![TabOf[r]] = FALSE]
  /\ UNCHANGED <<server, failedQueue, auth>>

(* The answer sets the cookies; the queued requests and then the one that  *)
(* refreshed are sent again with them.                                     *)
Refreshed(r) ==
  /\ At(r, "refreshed") /\ Ready(TabOf[r])
  /\ jar' = req[r].token
  /\ req' = [q \in Requests |->
               IF q = r \/ q \in failedQueue[TabOf[r]]
                 THEN [req[q] EXCEPT !.at = "sent", !.token = jar'] ELSE req[q]]
  /\ failedQueue' = [failedQueue EXCEPT ![TabOf[r]] = {}]
  /\ isRefreshing' = [isRefreshing EXCEPT ![TabOf[r]] = FALSE]
  /\ UNCHANGED <<server, auth>>

(* Mutant: the queue is not rejected when the refresh fails. *)
RefusedKeepsQueue(r) ==
  /\ At(r, "refused") /\ Ready(TabOf[r])
  /\ Goto(r, "importing")
  /\ UNCHANGED <<server, jar, tab>>

(* Mutant: a failed refresh is thrown on, past what has to follow it. *)
RefusedThrows(r) ==
  /\ At(r, "refused") /\ Ready(TabOf[r])
  /\ Goto(r, "thrown")
  /\ UNCHANGED <<server, jar, tab>>

(* The queue is rejected; the store is imported, and only then cleared. *)
Refused(r) ==
  LET queue == failedQueue[TabOf[r]] IN
  /\ At(r, "refused") /\ Ready(TabOf[r])
  /\ req' = [q \in Requests |-> IF q = r THEN [req[r] EXCEPT !.at = "importing"]
                                ELSE IF q \in queue THEN IdleRequest ELSE req[q]]
  /\ failedQueue' = [failedQueue EXCEPT ![TabOf[r]] = {}]
  /\ auth' = SignedOut(TabOf[r], queue)
  /\ UNCHANGED <<server, jar, isRefreshing>>

(* clearAuth, then the finally block. *)
ClearAuth(r) ==
  /\ At(r, "importing")
  /\ auth' = [auth EXCEPT ![TabOf[r]] = "out"]
  /\ isRefreshing' = [isRefreshing EXCEPT ![TabOf[r]] = FALSE]
  /\ req' = [req EXCEPT ![r] = IdleRequest]
  /\ UNCHANGED <<server, jar, failedQueue>>

(* The answer to a logout clears the cookies. *)
LoggedOut(r) ==
  /\ At(r, "loggedOut") /\ Ready(TabOf[r])
  /\ jar' = 0
  /\ auth' = SignedOut(TabOf[r], {r})
  /\ req' = [req EXCEPT ![r] = IdleRequest]
  /\ UNCHANGED <<server, isRefreshing, failedQueue>>

(***************************************************************************)
(* Pages                                                                   *)
(***************************************************************************)
(* The login form, which only a tab that is not signed in shows. *)
Login(t) ==
  /\ auth[t] = "out" /\ Ready(t) /\ RoomForToken
  /\ session' = [session EXCEPT ![NextToken] = "valid"]
  /\ fresh' = fresh \cup {NextToken}
  /\ jar' = NextToken
  /\ auth' = [auth EXCEPT ![t] = "in"]
  /\ UNCHANGED <<isRefreshing, failedQueue, req>>

(* A reload forgets the tab's requests and whatever answers they will get. *)
(* (The server ends a rotation it began; that the reload comes later then  *)
(* makes no difference to it.)                                             *)
Reload(t) ==
  /\ auth[t] # "loading"
  /\ Failures \/ \A r \in RequestsOf(t) : Idle(r)
  /\ \A r \in RequestsOf(t) : ~At(r, "rotated")
  /\ isRefreshing' = [isRefreshing EXCEPT ![t] = FALSE]
  /\ failedQueue' = [failedQueue EXCEPT ![t] = {}]
  /\ auth' = [auth EXCEPT ![t] = "loading"]
  /\ req' = [r \in Requests |-> IF TabOf[r] = t THEN IdleRequest ELSE req[r]]
  /\ UNCHANGED <<server, jar>>

(* GET /users/me through bareApi, which does not refresh. *)
Hydrate(t) ==
  /\ auth[t] = "loading"
  /\ auth' = [auth EXCEPT ![t] = IF jar \in fresh THEN "in" ELSE "out"]
  /\ UNCHANGED <<server, jar, isRefreshing, failedQueue, req>>

-----------------------------------------------------------------------------

Progress(r) ==
  \/ Answer(r) \/ Deny(r) \/ LogoutSessions(r)
  \/ RefreshRotate(r) \/ RefreshSession(r) \/ RefreshReuse(r) \/ RefreshRefuse(r)
  \/ Reject(r) \/ Enqueue(r) \/ StartRefresh(r) \/ Refreshed(r) \/ Refused(r)
  \/ ClearAuth(r) \/ LoggedOut(r)

Next ==
  \/ \E g \in Token : Expire(g)
  \/ \E r \in Requests : Progress(r) \/ RefreshFails(r) \/ CallFails(r) \/ \E logout \in BOOLEAN : Call(r, logout)
  \/ \E t \in Tabs : Login(t) \/ Reload(t) \/ Hydrate(t)

Spec == Init /\ [][Next]_vars

FairSpec ==
  /\ Spec
  /\ \A r \in Requests : WF_vars(Progress(r))
  /\ \A t \in Tabs : WF_vars(Hydrate(t))

-----------------------------------------------------------------------------

TypeOK ==
  /\ session \in [Token -> {"none", "valid", "rotated", "revoked", "expired"}]
  /\ fresh \in SUBSET Token
  /\ jar \in 0..MaxToken
  /\ isRefreshing \in [Tabs -> BOOLEAN]
  /\ failedQueue \in [Tabs -> SUBSET Requests]
  /\ auth \in [Tabs -> {"loading", "in", "out"}]
  /\ req \in [Requests -> [at : Stages, logout : BOOLEAN, token : 0..MaxToken, retry : BOOLEAN]]

Refreshing(r) == req[r].at \in {"refreshSent", "rotated", "refreshed", "refused", "importing"}

(* A tab refreshes at most once at a time, and its flag says so: a second  *)
(* refresh would present the token that the first one rotates.             *)
OneRefresh ==
  \A t \in Tabs : \/ ~isRefreshing[t] /\ \A r \in RequestsOf(t) : ~Refreshing(r)
                  \/ isRefreshing[t] /\ \E r \in RequestsOf(t) :
                       \A q \in RequestsOf(t) : Refreshing(q) <=> q = r

(* A queued request has a refresh to wait for, as the comment says of it.  *)
(* That takes an import that does not yield: if it does, a 401 is queued   *)
(* after the queue was rejected and before the flag is reset.              *)
QueueServed == \A t \in Tabs : failedQueue[t] # {} => isRefreshing[t]

(* Every request settles: no promise of api is left pending, whatever      *)
(* fails, and no two requests wait for each other's refresh.               *)
EverySettles == \A r \in Requests : ~Idle(r) ~> Idle(r)

(* The browser never presents a refresh token that it was given a          *)
(* successor of, so that whoever does has stolen it.  (A token that a      *)
(* logout revoked may still be presented.)  This takes a single tab and    *)
(* every answer to arrive.                                                 *)
RotatedIsStolen ==
  \A r \in Requests : At(r, "refreshSent") /\ req[r].token # 0 => session[req[r].token] # "rotated"
=============================================================================
