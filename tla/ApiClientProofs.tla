-------------------------- MODULE ApiClientProofs ---------------------------
(***************************************************************************)
(* For any tabs and requests, whether answers arrive or not: a tab runs    *)
(* one refresh at a time, marked by its flag, and when the import does not *)
(* yield, a queued request always has a refresh to wait for.               *)
(*                                                                         *)
(* Neither is inductive by itself.  The flag is tied to the requests that  *)
(* refresh (Marked, Single), the queue to the requests that wait (Waiting) *)
(* and, for the gap between the rejection of the queue and the reset of    *)
(* the flag, to the requests that import (Emptied).                        *)
(***************************************************************************)
EXTENDS ApiClient, FiniteSetTheorems, TLAPS

(* What the steps keep of TypeOK without counting tokens. *)
Shape ==
  /\ session \in [Token -> {"none", "valid", "rotated", "revoked", "expired"}]
  /\ jar \in Nat
  /\ isRefreshing \in [Tabs -> BOOLEAN]
  /\ failedQueue \in [Tabs -> SUBSET Requests]
  /\ req \in [Requests -> [at : Stages, logout : BOOLEAN, token : Nat, retry : BOOLEAN]]

Marked ==
  /\ \A r \in Requests : Refreshing(r) => isRefreshing[TabOf[r]]
  /\ \A t \in Tabs : isRefreshing[t] => \E r \in RequestsOf(t) : Refreshing(r)

Single ==
  \A r, q \in Requests : Refreshing(r) /\ Refreshing(q) /\ TabOf[r] = TabOf[q] => r = q

Waiting == \A t \in Tabs : failedQueue[t] = {r \in RequestsOf(t) : At(r, "queued")}

Emptied ==
  ~ImportYields => \A r \in Requests : At(r, "importing") => failedQueue[TabOf[r]] = {}

Served == ~ImportYields => QueueServed

Core == Marked /\ Single /\ Waiting /\ Served /\ Emptied

IInv == Shape /\ Core

-----------------------------------------------------------------------------
(* The number of issued tokens, and so the next one, is a natural number.  *)
LEMMA NextTokenIsNat == NextToken \in Nat
<1>1. IsFiniteSet(Token)
  BY FS_Interval, BoundAssumption DEF Token
<1>2. IsFiniteSet(Issued)
  BY <1>1, FS_Subset DEF Issued
<1>3. Cardinality(Issued) \in Nat
  BY <1>2, FS_CardinalityType
<1> QED BY <1>3 DEF NextToken

(* Revoking every session changes sessions to states there are. *)
LEMMA AllRevokedType ==
  ASSUME Shape
  PROVE  AllRevoked \in [Token -> {"none", "valid", "rotated", "revoked", "expired"}]
BY DEF Shape, AllRevoked

-----------------------------------------------------------------------------
(* In the first state nothing is under way. *)
LEMMA InitIInv == Init => IInv
<1> SUFFICES ASSUME Init PROVE IInv
  OBVIOUS
<1>1. Shape
  BY BoundAssumption DEF Init, Shape, IdleRequest, Stages, Token
<1>2. \A r \in Requests : req[r].at = "idle"
  BY DEF Init, IdleRequest
<1>3. Marked /\ Single
  BY <1>2, TabsAssumption DEF Init, Marked, Single, Refreshing
<1>4. Waiting /\ Served /\ Emptied
  BY <1>2 DEF Init, Waiting, Served, QueueServed, Emptied, RequestsOf, At
<1> QED BY <1>1, <1>3, <1>4 DEF IInv, Core

-----------------------------------------------------------------------------
(* Every action keeps the shape of the state. *)
LEMMA ShapeNext == Shape /\ [Next]_vars => Shape'
<1> SUFFICES ASSUME Shape, [Next]_vars PROVE Shape'
  OBVIOUS
<1> USE DEF Shape
<1> DEFINE Row == [at : Stages, logout : BOOLEAN, token : Nat, retry : BOOLEAN]
<1>0. IdleRequest \in Row
  BY DEF IdleRequest, Stages
<1>1. \A r \in Requests : TabOf[r] \in Tabs
  BY TabsAssumption
<1>2. ASSUME NEW g \in Token, Expire(g) PROVE Shape'
  BY <1>2 DEF Expire, tab
<1>3. ASSUME NEW r \in Requests, Progress(r) PROVE Shape'
  <2>1. CASE Answer(r)
    BY <2>1, <1>0 DEF Answer, server, tab
  <2>2. CASE Deny(r)
    BY <2>2 DEF Deny, Goto, server, tab, Stages
  <2>3. CASE LogoutSessions(r)
    BY <2>3, AllRevokedType DEF LogoutSessions, Goto, tab, Stages
  <2>4. CASE RefreshRotate(r)
    BY <2>4 DEF RefreshRotate, Goto, tab, Stages
  <2>5. CASE RefreshSession(r)
    BY <2>5, NextTokenIsNat DEF RefreshSession, tab, Stages
  <2>6. CASE RefreshReuse(r)
    BY <2>6, AllRevokedType DEF RefreshReuse, Goto, tab, Stages
  <2>7. CASE RefreshRefuse(r)
    BY <2>7 DEF RefreshRefuse, Goto, tab, Stages
  <2>8. CASE Reject(r)
    BY <2>8, <1>0 DEF Reject, server
  <2>9. CASE Enqueue(r)
    BY <2>9, <1>1 DEF Enqueue, Goto, server, Stages
  <2>10. CASE StartRefresh(r)
    BY <2>10, <1>1 DEF StartRefresh, server, Stages
  <2>11. CASE Refreshed(r)
    BY <2>11, <1>1 DEF Refreshed, server, Stages
  <2>12. CASE Refused(r)
    BY <2>12, <1>0, <1>1 DEF Refused, server, Stages
  <2>13. CASE ClearAuth(r)
    BY <2>13, <1>0, <1>1 DEF ClearAuth, server
  <2>14. CASE LoggedOut(r)
    BY <2>14, <1>0 DEF LoggedOut, server
  <2> QED BY <1>3, <2>1, <2>2, <2>3, <2>4, <2>5, <2>6, <2>7, <2>8, <2>9, <2>10, <2>11, <2>12,
             <2>13, <2>14 DEF Progress
<1>4. ASSUME NEW r \in Requests, RefreshFails(r) PROVE Shape'
  BY <1>4 DEF RefreshFails, Goto, server, tab, Stages
<1>5. ASSUME NEW r \in Requests, CallFails(r) PROVE Shape'
  BY <1>5, <1>0 DEF CallFails, server
<1>6. ASSUME NEW r \in Requests, NEW logout \in BOOLEAN, Call(r, logout) PROVE Shape'
  BY <1>6 DEF Call, server, tab, Stages
<1>7. ASSUME NEW t \in Tabs, Login(t) PROVE Shape'
  BY <1>7, NextTokenIsNat DEF Login
<1>8. ASSUME NEW t \in Tabs, Reload(t) PROVE Shape'
  BY <1>8, <1>0 DEF Reload, server
<1>9. ASSUME NEW t \in Tabs, Hydrate(t) PROVE Shape'
  BY <1>9 DEF Hydrate, server
<1>10. CASE UNCHANGED vars
  BY <1>10 DEF vars
<1> QED BY <1>2, <1>3, <1>4, <1>5, <1>6, <1>7, <1>8, <1>9, <1>10 DEF Next

-----------------------------------------------------------------------------
(* Most steps move one request on and leave the flags and the queues: the  *)
(* request refreshes after the step as it did before, and does not wait.   *)
Move(r) ==
  /\ UNCHANGED <<isRefreshing, failedQueue>>
  /\ \A q \in Requests : q # r => req'[q] = req[q]
  /\ Refreshing(r)' <=> Refreshing(r)
  /\ req[r].at # "queued" /\ req'[r].at # "queued"
  /\ req'[r].at = "importing" => req[r].at = "importing"

(* So a move keeps the invariant. *)
LEMMA MoveKeepsCore ==
  ASSUME Core, NEW r \in Requests, Move(r)
  PROVE  Core'
<1>1. \A q \in Requests : Refreshing(q)' <=> Refreshing(q)
  BY DEF Move, Refreshing
<1>2. \A q \in Requests : At(q, "queued")' <=> At(q, "queued")
  BY DEF Move, At
<1>3. \A q \in Requests : At(q, "importing")' => At(q, "importing")
  BY DEF Move, At
<1>4. Marked'
  BY <1>1 DEF Core, Marked, Move, RequestsOf
<1>5. Single'
  BY <1>1 DEF Core, Single
<1>6. Waiting'
  BY <1>2 DEF Core, Waiting, Move, RequestsOf
<1>7. Served' /\ Emptied'
  BY <1>3 DEF Core, Served, QueueServed, Emptied, Move
<1> QED BY <1>4, <1>5, <1>6, <1>7 DEF Core

(* The steps of the server, of calls and of settled requests are moves. *)
LEMMA PlainStepsMove ==
  ASSUME Shape, NEW r \in Requests,
         \/ Answer(r) \/ Deny(r) \/ LogoutSessions(r)
         \/ RefreshRotate(r) \/ RefreshSession(r) \/ RefreshReuse(r) \/ RefreshRefuse(r)
         \/ RefreshFails(r) \/ CallFails(r) \/ Reject(r) \/ LoggedOut(r)
         \/ \E logout \in BOOLEAN : Call(r, logout)
  PROVE  Move(r)
<1> USE DEF Shape, Move, At, Goto, Refreshing, tab
<1>1. CASE Answer(r)
  BY <1>1 DEF Answer, IdleRequest
<1>2. CASE Deny(r)
  BY <1>2 DEF Deny
<1>3. CASE LogoutSessions(r)
  BY <1>3 DEF LogoutSessions
<1>4. CASE RefreshRotate(r)
  BY <1>4 DEF RefreshRotate
<1>5. CASE RefreshSession(r)
  BY <1>5 DEF RefreshSession
<1>6. CASE RefreshReuse(r)
  BY <1>6 DEF RefreshReuse
<1>7. CASE RefreshRefuse(r)
  BY <1>7 DEF RefreshRefuse
<1>8. CASE RefreshFails(r)
  BY <1>8 DEF RefreshFails
<1>9. CASE CallFails(r)
  BY <1>9 DEF CallFails, IdleRequest
<1>10. CASE Reject(r)
  BY <1>10 DEF Reject, IdleRequest
<1>11. CASE LoggedOut(r)
  BY <1>11 DEF LoggedOut, IdleRequest
<1>12. CASE \E logout \in BOOLEAN : Call(r, logout)
  BY <1>12 DEF Call, Idle
<1> QED BY <1>1, <1>2, <1>3, <1>4, <1>5, <1>6, <1>7, <1>8, <1>9, <1>10, <1>11, <1>12

-----------------------------------------------------------------------------
(* A request joins the queue of a refresh that runs, and not in its gap.   *)
LEMMA EnqueueKeepsCore ==
  ASSUME Shape, Core, NEW r \in Requests, Enqueue(r)
  PROVE  Core'
<1> USE DEF Shape, Core, At
<1> DEFINE t == TabOf[r]
<1>1. t \in Tabs /\ r \in RequestsOf(t)
  BY TabsAssumption DEF RequestsOf
<1>2. /\ req[r].at = "denied" /\ isRefreshing[t] /\ isRefreshing' = isRefreshing
      /\ failedQueue' = [failedQueue EXCEPT ![t] = @ \cup {r}]
      /\ req' = [req EXCEPT ![r].at = "queued"]
  BY DEF Enqueue, Goto
<1>3. \A q \in Requests : Refreshing(q)' <=> Refreshing(q)
  BY <1>2 DEF Refreshing
<1>4. Marked' /\ Single'
  BY <1>2, <1>3 DEF Marked, Single, RequestsOf
<1>5. Waiting'
  <2> SUFFICES ASSUME NEW u \in Tabs
               PROVE  failedQueue'[u] = {q \in RequestsOf(u) : req'[q].at = "queued"}
    BY DEF Waiting, RequestsOf
  <2>1. failedQueue[u] = {q \in RequestsOf(u) : req[q].at = "queued"}
    BY DEF Waiting
  <2>2. CASE u = t
    BY <1>1, <1>2, <2>1, <2>2 DEF RequestsOf
  <2>3. CASE u # t
    BY <1>1, <1>2, <2>1, <2>3 DEF RequestsOf
  <2> QED BY <2>2, <2>3
<1>6. Served'
  BY <1>1, <1>2 DEF Served, QueueServed
<1>7. Emptied'
  <2> SUFFICES ASSUME ~ImportYields, NEW q \in Requests, req'[q].at = "importing"
               PROVE  failedQueue'[TabOf[q]] = {}
    BY DEF Emptied
  <2>1. q # r /\ req[q].at = "importing"
    BY <1>2
  <2>2. TabOf[q] # t
    BY <2>1 DEF Enqueue, Ready, RequestsOf
  <2> QED BY <1>1, <1>2, <2>1, <2>2, TabsAssumption DEF Emptied
<1> QED BY <1>4, <1>5, <1>6, <1>7

(* A refresh starts only where none runs. *)
LEMMA StartRefreshKeepsCore ==
  ASSUME Shape, Core, NEW r \in Requests, StartRefresh(r)
  PROVE  Core'
<1> USE DEF Shape, Core, At
<1> DEFINE t == TabOf[r]
<1>1. t \in Tabs /\ r \in RequestsOf(t)
  BY TabsAssumption DEF RequestsOf
<1>2. /\ req[r].at = "denied" /\ ~isRefreshing[t]
      /\ isRefreshing' = [isRefreshing EXCEPT ![t] = TRUE] /\ failedQueue' = failedQueue
      /\ req' = [req EXCEPT ![r].at = "refreshSent", ![r].retry = TRUE, ![r].token = jar]
  BY DEF StartRefresh
<1>3. \A q \in Requests : req'[q].at = IF q = r THEN "refreshSent" ELSE req[q].at
  BY <1>2
<1>4. \A q \in Requests : q # r => (Refreshing(q)' <=> Refreshing(q))
  BY <1>3 DEF Refreshing
<1>5. Refreshing(r)'
  BY <1>3 DEF Refreshing
<1>6. Marked'
  <2>1. ASSUME NEW q \in Requests, Refreshing(q)' PROVE isRefreshing'[TabOf[q]]
    BY <1>1, <1>2, <1>4, <2>1, TabsAssumption DEF Marked
  <2>2. ASSUME NEW u \in Tabs, isRefreshing'[u] PROVE \E q \in RequestsOf(u) : Refreshing(q)'
    <3>1. CASE u = t
      BY <3>1, <1>1, <1>5
    <3>2. CASE u # t
      <4>1. isRefreshing[u]
        BY <3>2, <2>2, <1>1, <1>2
      <4>2. PICK q \in RequestsOf(u) : Refreshing(q)
        BY <4>1 DEF Marked
      <4>3. q # r
        BY <3>2 DEF RequestsOf
      <4> QED BY <4>2, <4>3, <1>4 DEF RequestsOf
    <3> QED BY <3>1, <3>2
  <2> QED BY <2>1, <2>2 DEF Marked, RequestsOf
<1>7. Single'
  <2> SUFFICES ASSUME NEW p \in Requests, NEW q \in Requests,
                      Refreshing(p)', Refreshing(q)', TabOf[p] = TabOf[q]
               PROVE  p = q
    BY DEF Single
  <2>1. ASSUME NEW x \in Requests, Refreshing(x)', TabOf[x] = t PROVE x = r
    BY <2>1, <1>1, <1>2, <1>4 DEF Marked
  <2> QED BY <2>1, <1>4 DEF Single
<1>8. Waiting'
  BY <1>2, <1>3 DEF Waiting, RequestsOf
<1>9. Served' /\ Emptied'
  BY <1>1, <1>2, <1>3 DEF Served, QueueServed, Emptied
<1> QED BY <1>6, <1>7, <1>8, <1>9

-----------------------------------------------------------------------------
(* What Refreshed, ClearAuth and Reload do to tab t: nothing in it         *)
(* refreshes any more, whoever still waits is in the queue, nobody is      *)
(* unless the import yields, and the other tabs are as they were.          *)
Ended(t) ==
  /\ isRefreshing' = [isRefreshing EXCEPT ![t] = FALSE]
  /\ failedQueue'[t] = {q \in RequestsOf(t) : req'[q].at = "queued"}
  /\ ~ImportYields => failedQueue'[t] = {}
  /\ \A u \in Tabs : u # t => failedQueue'[u] = failedQueue[u]
  /\ \A q \in RequestsOf(t) : ~Refreshing(q)'
  /\ \A q \in Requests : TabOf[q] # t => req'[q] = req[q]

(* So the end of a refresh, or of the document, keeps the invariant. *)
LEMMA EndedKeepsCore ==
  ASSUME Shape, Core, NEW t \in Tabs, Ended(t)
  PROVE  Core'
<1> USE DEF Shape, Core, At
<1>1. \A q \in Requests : TabOf[q] # t => (Refreshing(q)' <=> Refreshing(q))
  BY DEF Ended, Refreshing
<1>2. \A q \in Requests : TabOf[q] = t => ~Refreshing(q)'
  BY DEF Ended, RequestsOf
<1>3. Marked'
  <2>1. ASSUME NEW q \in Requests, Refreshing(q)' PROVE isRefreshing'[TabOf[q]]
    BY <2>1, <1>1, <1>2, TabsAssumption DEF Marked, Ended
  <2>2. ASSUME NEW u \in Tabs, isRefreshing'[u] PROVE \E q \in RequestsOf(u) : Refreshing(q)'
    <3>1. u # t /\ isRefreshing[u]
      BY <2>2 DEF Ended
    <3>2. PICK q \in RequestsOf(u) : Refreshing(q)
      BY <3>1 DEF Marked
    <3> QED BY <3>1, <3>2, <1>1 DEF RequestsOf
  <2> QED BY <2>1, <2>2 DEF Marked, RequestsOf
<1>4. Single'
  BY <1>1, <1>2 DEF Single
<1>5. Waiting'
  <2> SUFFICES ASSUME NEW u \in Tabs
               PROVE  failedQueue'[u] = {q \in RequestsOf(u) : req'[q].at = "queued"}
    BY DEF Waiting, RequestsOf
  <2>1. CASE u = t
    BY <2>1 DEF Ended
  <2>2. CASE u # t
    BY <2>2 DEF Ended, Waiting, RequestsOf
  <2> QED BY <2>1, <2>2
<1>6. Served'
  BY DEF Served, QueueServed, Ended
<1>7. Emptied'
  <2> SUFFICES ASSUME ~ImportYields, NEW q \in Requests, req'[q].at = "importing"
               PROVE  failedQueue'[TabOf[q]] = {}
    BY DEF Emptied
  <2>1. CASE TabOf[q] = t
    BY <2>1 DEF Ended
  <2>2. CASE TabOf[q] # t
    BY <2>2, TabsAssumption DEF Ended, Emptied
  <2> QED BY <2>1, <2>2
<1> QED BY <1>3, <1>4, <1>5, <1>6, <1>7

(* The answer to the refresh: the queue and the request itself go out      *)
(* again, and there was no other refresh in the tab.                       *)
LEMMA RefreshedEnds ==
  ASSUME Shape, Core, NEW r \in Requests, Refreshed(r)
  PROVE  Ended(TabOf[r])
<1> USE DEF Shape, Core, At
<1> DEFINE t == TabOf[r]
<1>1. t \in Tabs
  BY TabsAssumption
<1>2. failedQueue[t] = {q \in RequestsOf(t) : req[q].at = "queued"}
  BY <1>1 DEF Waiting
<1>3. \A q \in Requests :
        req'[q] = IF q = r \/ q \in failedQueue[t]
                    THEN [req[q] EXCEPT !.at = "sent", !.token = jar'] ELSE req[q]
  BY DEF Refreshed
<1>4. \A q \in RequestsOf(t) : q # r => ~Refreshing(q)
  BY DEF Refreshed, Refreshing, Single, RequestsOf
<1>5. \A q \in RequestsOf(t) : ~Refreshing(q)' /\ req'[q].at # "queued"
  <2> SUFFICES ASSUME NEW q \in RequestsOf(t)
               PROVE  ~Refreshing(q)' /\ req'[q].at # "queued"
    OBVIOUS
  <2>1. q \in Requests
    BY DEF RequestsOf
  <2>2. CASE q = r \/ q \in failedQueue[t]
    <3>1. req'[q].at = "sent"
      BY <2>1, <2>2, <1>3
    <3> QED BY <3>1 DEF Refreshing
  <2>3. CASE ~(q = r \/ q \in failedQueue[t])
    <3>1. req'[q] = req[q]
      BY <2>1, <2>3, <1>3
    <3> QED BY <3>1, <2>3, <1>2, <1>4 DEF Refreshing
  <2> QED BY <2>2, <2>3
<1>6. \A q \in Requests : TabOf[q] # t => req'[q] = req[q]
  BY <1>2, <1>3 DEF RequestsOf
<1> QED BY <1>1, <1>5, <1>6 DEF Refreshed, Ended

(* The store is cleared and the flag reset: Emptied says that the queue is *)
(* still empty, if the import does not yield.                              *)
LEMMA ClearAuthEnds ==
  ASSUME Shape, Core, NEW r \in Requests, ClearAuth(r)
  PROVE  Ended(TabOf[r])
<1> USE DEF Shape, Core, At
<1> DEFINE t == TabOf[r]
<1>1. t \in Tabs
  BY TabsAssumption
<1>2. failedQueue[t] = {q \in RequestsOf(t) : req[q].at = "queued"}
  BY <1>1 DEF Waiting
<1>3. \A q \in Requests : req'[q] = IF q = r THEN IdleRequest ELSE req[q]
  BY DEF ClearAuth
<1>4. req[r].at = "importing" /\ failedQueue' = failedQueue
  BY DEF ClearAuth
<1>5. ~ImportYields => failedQueue'[t] = {}
  BY <1>4 DEF Emptied
<1>6. \A q \in RequestsOf(t) : q # r => ~Refreshing(q)
  BY <1>4 DEF Refreshing, Single, RequestsOf
<1>7. \A q \in RequestsOf(t) : ~Refreshing(q)'
  BY <1>3, <1>6 DEF Refreshing, RequestsOf, IdleRequest
<1>8. failedQueue'[t] = {q \in RequestsOf(t) : req'[q].at = "queued"}
  BY <1>2, <1>3, <1>4 DEF IdleRequest, RequestsOf
<1> QED BY <1>1, <1>3, <1>4, <1>5, <1>7, <1>8 DEF ClearAuth, Ended

(* A reload empties the tab. *)
LEMMA ReloadEnds ==
  ASSUME Shape, NEW t \in Tabs, Reload(t)
  PROVE  Ended(t)
<1>1. \A q \in RequestsOf(t) : req'[q] = IdleRequest
  BY DEF Reload, RequestsOf
<1> QED BY <1>1 DEF Shape, Reload, Ended, Refreshing, IdleRequest, RequestsOf

(* A failed refresh rejects the queue and goes on to the import. *)
LEMMA RefusedKeepsCore ==
  ASSUME Shape, Core, NEW r \in Requests, Refused(r)
  PROVE  Core'
<1> USE DEF Shape, Core, At
<1> DEFINE t == TabOf[r]
<1>1. t \in Tabs
  BY TabsAssumption
<1>2. \A u \in Tabs : failedQueue[u] = {q \in RequestsOf(u) : req[q].at = "queued"}
  BY DEF Waiting
<1>3. \A q \in Requests :
        req'[q] = IF q = r THEN [req[r] EXCEPT !.at = "importing"]
                  ELSE IF q \in failedQueue[t] THEN IdleRequest ELSE req[q]
  BY DEF Refused
<1>4. /\ req[r].at = "refused"
      /\ failedQueue' = [failedQueue EXCEPT ![t] = {}]
      /\ isRefreshing' = isRefreshing
  BY DEF Refused
<1>5. \A q \in Requests : Refreshing(q)' <=> Refreshing(q)
  BY <1>1, <1>2, <1>3, <1>4 DEF Refreshing, IdleRequest, RequestsOf
<1>6. Marked' /\ Single'
  BY <1>4, <1>5 DEF Marked, Single, RequestsOf
<1>7. Waiting'
  <2> SUFFICES ASSUME NEW u \in Tabs
               PROVE  failedQueue'[u] = {q \in RequestsOf(u) : req'[q].at = "queued"}
    BY DEF Waiting, RequestsOf
  <2>1. CASE u = t
    BY <2>1, <1>1, <1>2, <1>3, <1>4 DEF IdleRequest, RequestsOf
  <2>2. CASE u # t
    BY <2>2, <1>1, <1>2, <1>3, <1>4 DEF RequestsOf
  <2> QED BY <2>1, <2>2
<1>8. Served'
  BY <1>1, <1>4 DEF Served, QueueServed
<1>9. Emptied'
  <2> SUFFICES ASSUME ~ImportYields, NEW q \in Requests, req'[q].at = "importing"
               PROVE  failedQueue'[TabOf[q]] = {}
    BY DEF Emptied
  <2>1. CASE TabOf[q] = t
    BY <2>1, <1>1, <1>4
  <2>2. CASE TabOf[q] # t
    BY <2>2, <1>1, <1>2, <1>3, <1>4, TabsAssumption DEF Emptied, RequestsOf
  <2> QED BY <2>1, <2>2
<1> QED BY <1>6, <1>7, <1>8, <1>9

-----------------------------------------------------------------------------
(* A step that touches neither requests nor flags nor queues. *)
LEMMA StutterKeepsCore ==
  ASSUME Core, UNCHANGED <<isRefreshing, failedQueue, req>>
  PROVE  Core'
BY DEF Core, Marked, Single, Waiting, Served, QueueServed, Emptied, Refreshing, At, RequestsOf

(* Every action keeps the invariant. *)
LEMMA CoreNext == Shape /\ Core /\ [Next]_vars => Core'
<1> SUFFICES ASSUME Shape, Core, [Next]_vars PROVE Core'
  OBVIOUS
<1>1. ASSUME NEW g \in Token, Expire(g) PROVE Core'
  BY <1>1, StutterKeepsCore DEF Expire, tab
<1>2. ASSUME NEW r \in Requests, Enqueue(r) PROVE Core'
  BY <1>2, EnqueueKeepsCore
<1>3. ASSUME NEW r \in Requests, StartRefresh(r) PROVE Core'
  BY <1>3, StartRefreshKeepsCore
<1>4. ASSUME NEW r \in Requests, Refreshed(r) PROVE Core'
  BY <1>4, RefreshedEnds, EndedKeepsCore, TabsAssumption
<1>5. ASSUME NEW r \in Requests, Refused(r) PROVE Core'
  BY <1>5, RefusedKeepsCore
<1>6. ASSUME NEW r \in Requests, ClearAuth(r) PROVE Core'
  BY <1>6, ClearAuthEnds, EndedKeepsCore, TabsAssumption
<1>7. ASSUME NEW r \in Requests,
             \/ Answer(r) \/ Deny(r) \/ LogoutSessions(r)
             \/ RefreshRotate(r) \/ RefreshSession(r) \/ RefreshReuse(r) \/ RefreshRefuse(r)
             \/ RefreshFails(r) \/ CallFails(r) \/ Reject(r) \/ LoggedOut(r)
             \/ \E logout \in BOOLEAN : Call(r, logout)
      PROVE  Core'
  BY <1>7, PlainStepsMove, MoveKeepsCore
<1>8. ASSUME NEW t \in Tabs, Login(t) PROVE Core'
  BY <1>8, StutterKeepsCore DEF Login
<1>9. ASSUME NEW t \in Tabs, Reload(t) PROVE Core'
  BY <1>9, ReloadEnds, EndedKeepsCore
<1>10. ASSUME NEW t \in Tabs, Hydrate(t) PROVE Core'
  BY <1>10, StutterKeepsCore DEF Hydrate
<1>11. CASE UNCHANGED vars
  BY <1>11, StutterKeepsCore DEF vars
<1> QED BY <1>1, <1>2, <1>3, <1>4, <1>5, <1>6, <1>7, <1>8, <1>9, <1>10, <1>11 DEF Next, Progress

-----------------------------------------------------------------------------
(* The inductive invariant holds in every reachable state. *)
THEOREM Invariance == Spec => []IInv
<1>1. Init => IInv
  BY InitIInv
<1>2. IInv /\ [Next]_vars => IInv'
  BY ShapeNext, CoreNext DEF IInv
<1> QED BY <1>1, <1>2, PTL DEF Spec

(* A tab never runs two refreshes at once, and isRefreshing is set exactly *)
(* while it runs one (api-client.ts, the response interceptor).            *)
THEOREM OneRefreshAtATime == Spec => []OneRefresh
<1>1. IInv => OneRefresh
  <2> SUFFICES ASSUME IInv, NEW t \in Tabs
               PROVE  \/ ~isRefreshing[t] /\ \A r \in RequestsOf(t) : ~Refreshing(r)
                      \/ isRefreshing[t] /\ \E r \in RequestsOf(t) :
                           \A q \in RequestsOf(t) : Refreshing(q) <=> q = r
    BY DEF OneRefresh
  <2> USE DEF IInv, Core
  <2>1. CASE ~isRefreshing[t]
    BY <2>1 DEF Marked, RequestsOf
  <2>2. CASE isRefreshing[t]
    <3>1. PICK r \in RequestsOf(t) : Refreshing(r)
      BY <2>2 DEF Marked
    <3>2. \A q \in RequestsOf(t) : Refreshing(q) <=> q = r
      BY <3>1 DEF Single, RequestsOf
    <3> QED BY <2>2, <3>1, <3>2
  <2> QED BY <2>1, <2>2
<1> QED BY <1>1, Invariance, PTL

(* When the import of the store does not yield, no request is queued in a  *)
(* tab that does not refresh, where nothing would ever settle it.          *)
THEOREM QueueIsServed ==
  ASSUME ~ImportYields
  PROVE  Spec => []QueueServed
<1>1. IInv => QueueServed
  BY DEF IInv, Core, Served
<1> QED BY <1>1, Invariance, PTL

-----------------------------------------------------------------------------
(* The tokens.  A rotation leaves room for the session it will open, so    *)
(* that a token is always one of those there are.                          *)
Rotating == {r \in Requests : At(r, "rotated")}

TokensFit == Cardinality(Issued) + Cardinality(Rotating) <= MaxToken

Counted ==
  /\ fresh \in SUBSET Token /\ jar \in 0..MaxToken
  /\ auth \in [Tabs -> {"loading", "in", "out"}]
  /\ \A r \in Requests : req[r].token \in 0..MaxToken
  /\ TokensFit

LEMMA SizesAreNat ==
  /\ IsFiniteSet(Issued) /\ Cardinality(Issued) \in Nat
  /\ IsFiniteSet(Rotating) /\ Cardinality(Rotating) \in Nat
<1>1. IsFiniteSet(Token)
  BY FS_Interval, BoundAssumption DEF Token
<1>2. IsFiniteSet(Issued) /\ IsFiniteSet(Rotating)
  BY <1>1, FS_Subset, TabsAssumption DEF Issued, Rotating
<1> QED BY <1>2, FS_CardinalityType

(* No step but these two issues a token or begins a rotation. *)
LEMMA FitsIfFewer ==
  ASSUME TokensFit, Issued' \subseteq Issued, Rotating' \subseteq Rotating
  PROVE  TokensFit'
<1>1. PICK i : i = Issued'
  OBVIOUS
<1>2. PICK q : q = Rotating'
  OBVIOUS
<1>3. Cardinality(i) \in Nat /\ Cardinality(i) <= Cardinality(Issued)
      /\ Cardinality(q) \in Nat /\ Cardinality(q) <= Cardinality(Rotating)
  <2>1. IsFiniteSet(i) /\ IsFiniteSet(q)
    BY <1>1, <1>2, SizesAreNat, FS_Subset
  <2> QED BY <1>1, <1>2, <2>1, SizesAreNat, FS_Subset, FS_CardinalityType
<1>4. Cardinality(i) + Cardinality(q) <= MaxToken
  BY <1>3, SizesAreNat, BoundAssumption DEF TokensFit
<1> QED BY <1>1, <1>2, <1>4 DEF TokensFit

LEMMA FitsWithRotation ==
  ASSUME RoomForToken, NEW r \in Requests, Issued' = Issued, Rotating' \subseteq Rotating \cup {r}
  PROVE  TokensFit'
<1>1. PICK q : q = Rotating'
  OBVIOUS
<1>2. Cardinality(q) \in Nat /\ Cardinality(q) <= Cardinality(Rotating) + 1
  <2>1. IsFiniteSet(Rotating \cup {r})
        /\ Cardinality(Rotating \cup {r}) = IF r \in Rotating THEN Cardinality(Rotating) ELSE Cardinality(Rotating) + 1
    BY SizesAreNat, FS_AddElement
  <2>2. IsFiniteSet(q) /\ Cardinality(q) <= Cardinality(Rotating \cup {r})
    BY <1>1, <2>1, FS_Subset
  <2> QED BY <2>1, <2>2, SizesAreNat, FS_CardinalityType
<1>3. Cardinality(Issued) + Cardinality(Rotating) < MaxToken
  BY DEF RoomForToken, Rotating
<1>4. Cardinality(Issued) + Cardinality(q) <= MaxToken
  BY <1>2, <1>3, SizesAreNat, BoundAssumption
<1> QED BY <1>1, <1>4 DEF TokensFit

(* A session takes the room of a rotation, or the room there is. *)
LEMMA FitsWithSession ==
  ASSUME NEW n, Issued' \subseteq Issued \cup {n},
         \/ RoomForToken /\ Rotating' \subseteq Rotating
         \/ TokensFit /\ \E r \in Rotating : Rotating' \subseteq Rotating \ {r}
  PROVE  TokensFit' /\ NextToken \in Token
<1>1. PICK i : i = Issued'
  OBVIOUS
<1>2. PICK q : q = Rotating'
  OBVIOUS
<1>3. Cardinality(i) \in Nat /\ Cardinality(i) <= Cardinality(Issued) + 1
  <2>1. IsFiniteSet(Issued \cup {n})
        /\ Cardinality(Issued \cup {n}) = IF n \in Issued THEN Cardinality(Issued) ELSE Cardinality(Issued) + 1
    BY SizesAreNat, FS_AddElement
  <2>2. IsFiniteSet(i) /\ Cardinality(i) <= Cardinality(Issued \cup {n})
    BY <1>1, <2>1, FS_Subset
  <2> QED BY <2>1, <2>2, SizesAreNat, FS_CardinalityType
<1>4. Cardinality(q) \in Nat /\ Cardinality(Issued) + 1 + Cardinality(q) <= MaxToken
  <2>1. CASE RoomForToken /\ q \subseteq Rotating
    <3>1. IsFiniteSet(q) /\ Cardinality(q) <= Cardinality(Rotating)
      BY <2>1, SizesAreNat, FS_Subset
    <3>2. Cardinality(Issued) + Cardinality(Rotating) < MaxToken
      BY <2>1 DEF RoomForToken, Rotating
    <3> QED BY <3>1, <3>2, SizesAreNat, FS_CardinalityType, BoundAssumption
  <2>2. CASE TokensFit /\ \E r \in Rotating : q \subseteq Rotating \ {r}
    <3>1. PICK r \in Rotating : q \subseteq Rotating \ {r}
      BY <2>2
    <3>2. IsFiniteSet(Rotating \ {r}) /\ Cardinality(Rotating \ {r}) = Cardinality(Rotating) - 1
      BY <3>1, SizesAreNat, FS_RemoveElement
    <3>3. IsFiniteSet(q) /\ Cardinality(q) <= Cardinality(Rotating \ {r})
      BY <3>1, <3>2, FS_Subset
    <3>4. Cardinality(q) \in Nat
      BY <3>3, FS_CardinalityType
    <3> QED BY <2>2, <3>2, <3>3, <3>4, SizesAreNat, BoundAssumption DEF TokensFit
  <2> QED BY <1>2, <2>1, <2>2
<1>5. Cardinality(i) + Cardinality(q) <= MaxToken /\ Cardinality(Issued) + 1 <= MaxToken
  BY <1>3, <1>4, SizesAreNat, BoundAssumption
<1> QED BY <1>1, <1>2, <1>5, SizesAreNat, BoundAssumption DEF TokensFit, NextToken, Token

(* A step that sends a request on, with the token it had, with the cookie, *)
(* or forgets it.                                                          *)
LEMMA PassedOn ==
  ASSUME Shape, Counted, UNCHANGED fresh, jar' \in 0..MaxToken, auth' \in [Tabs -> {"loading", "in", "out"}],
         \A g \in Token : session'[g] # "none" => session[g] # "none",
         \A r \in Requests : /\ req'[r].token \in {0, jar, jar', req[r].token}
                             /\ req'[r].at = "rotated" => req[r].at = "rotated"
  PROVE  Counted'
<1>1. Issued' \subseteq Issued /\ Rotating' \subseteq Rotating
  BY DEF Issued, Rotating, At
<1>2. \A r \in Requests : req'[r].token \in 0..MaxToken
  BY BoundAssumption DEF Counted
<1> QED BY <1>1, <1>2, FitsIfFewer DEF Counted

LEMMA CountedNext == Shape /\ Counted /\ [Next]_vars => Counted'
<1> SUFFICES ASSUME Shape, Counted, [Next]_vars PROVE Counted'
  OBVIOUS
<1>0. jar \in 0..MaxToken /\ 0 \in 0..MaxToken /\ auth \in [Tabs -> {"loading", "in", "out"}]
      /\ IdleRequest.token = 0 /\ IdleRequest.at = "idle"
  BY BoundAssumption DEF Counted, IdleRequest
<1>1. \A t \in Tabs, s \in SUBSET Requests : SignedOut(t, s) \in [Tabs -> {"loading", "in", "out"}]
  BY <1>0 DEF SignedOut
<1>2. ASSUME NEW g \in Token, Expire(g) PROVE Counted'
  <2>1. Issued' = Issued /\ Rotating' = Rotating
    BY <1>2 DEF Expire, Issued, Rotating, At
  <2> QED BY <1>2, <2>1, FitsIfFewer DEF Expire, Counted, tab
<1>3. ASSUME NEW r \in Requests, Progress(r) PROVE Counted'
  <2> USE DEF Shape
  <2>0. TabOf[r] \in Tabs
    BY TabsAssumption
  <2>1. CASE Answer(r) \/ Deny(r)
    BY <1>0, <2>1, PassedOn DEF Answer, Deny, Goto, server, tab
  <2>2. CASE LogoutSessions(r)
    BY <1>0, <2>2, PassedOn DEF LogoutSessions, Goto, tab, AllRevoked
  <2>3. CASE RefreshRotate(r)
    <3>1. Issued' = Issued
      BY <2>3 DEF RefreshRotate, Issued
    <3>2. Rotating' \subseteq Rotating \cup {r}
      BY <2>3 DEF RefreshRotate, Rotating, At, Goto
    <3>3. TokensFit'
      BY <2>3, <3>1, <3>2, FitsWithRotation DEF RefreshRotate
    <3> QED BY <2>3, <3>3 DEF RefreshRotate, Counted, Goto, tab
  <2>4. CASE RefreshSession(r)
    <3>1. Issued' \subseteq Issued \cup {NextToken}
      BY <2>4 DEF RefreshSession, Issued
    <3>2. r \in Rotating /\ Rotating' \subseteq Rotating \ {r}
      BY <2>4 DEF RefreshSession, Rotating, At
    <3>3. TokensFit' /\ NextToken \in Token
      BY <3>1, <3>2, FitsWithSession DEF Counted
    <3>4. NextToken \in 0..MaxToken
      BY <3>3, BoundAssumption DEF Token
    <3> QED BY <2>4, <3>3, <3>4 DEF RefreshSession, Counted, tab
  <2>5. CASE RefreshReuse(r)
    <3>1. Issued' \subseteq Issued /\ Rotating' \subseteq Rotating
      BY <2>5 DEF RefreshReuse, AllRevoked, Issued, Rotating, At, Goto
    <3> QED BY <2>5, <3>1, FitsIfFewer DEF RefreshReuse, Counted, Goto, tab
  <2>6. CASE RefreshRefuse(r)
    BY <1>0, <2>6, PassedOn DEF RefreshRefuse, Goto, tab
  <2>7. CASE Reject(r)
    BY <1>0, <1>1, <2>0, <2>7, PassedOn DEF Reject, server
  <2>8. CASE Enqueue(r) \/ StartRefresh(r)
    BY <1>0, <2>8, PassedOn DEF Enqueue, StartRefresh, Goto, server
  <2>9. CASE Refreshed(r)
    <3>1. jar' \in 0..MaxToken
      BY <2>9 DEF Refreshed, Counted
    <3> QED BY <1>0, <2>9, <3>1, PassedOn DEF Refreshed, server
  <2>10. CASE Refused(r)
    <3>1. failedQueue[TabOf[r]] \in SUBSET Requests
      BY <2>0
    <3>2. auth' \in [Tabs -> {"loading", "in", "out"}]
      BY <1>1, <2>0, <2>10, <3>1 DEF Refused
    <3> QED BY <1>0, <2>10, <3>2, PassedOn DEF Refused, server
  <2>11. CASE ClearAuth(r)
    BY <1>0, <2>0, <2>11, PassedOn DEF ClearAuth, server
  <2>12. CASE LoggedOut(r)
    BY <1>0, <1>1, <2>0, <2>12, PassedOn DEF LoggedOut, server
  <2> QED BY <1>3, <2>1, <2>2, <2>3, <2>4, <2>5, <2>6, <2>7, <2>8, <2>9, <2>10, <2>11, <2>12 DEF Progress
<1>4. ASSUME NEW r \in Requests, RefreshFails(r) PROVE Counted'
  BY <1>0, <1>4, PassedOn DEF RefreshFails, Goto, server, tab, Shape
<1>5. ASSUME NEW r \in Requests, CallFails(r) PROVE Counted'
  BY <1>0, <1>1, <1>5, PassedOn, TabsAssumption DEF CallFails, server, Shape
<1>6. ASSUME NEW r \in Requests, NEW logout \in BOOLEAN, Call(r, logout) PROVE Counted'
  BY <1>0, <1>6, PassedOn DEF Call, server, tab, Shape
<1>7. ASSUME NEW t \in Tabs, Login(t) PROVE Counted'
  <2>1. Issued' \subseteq Issued \cup {NextToken}
    BY <1>7 DEF Login, Issued, Shape
  <2>2. RoomForToken /\ Rotating' \subseteq Rotating
    BY <1>7 DEF Login, Rotating, At
  <2>3. TokensFit' /\ NextToken \in Token
    BY <2>1, <2>2, FitsWithSession
  <2>4. NextToken \in 0..MaxToken
    BY <2>3, BoundAssumption DEF Token
  <2> QED BY <1>7, <2>3, <2>4 DEF Login, Counted
<1>8. ASSUME NEW t \in Tabs, Reload(t) PROVE Counted'
  BY <1>0, <1>8, PassedOn DEF Reload, server, Shape
<1>9. ASSUME NEW t \in Tabs, Hydrate(t) PROVE Counted'
  BY <1>0, <1>9, PassedOn DEF Hydrate, server, Shape
<1>10. CASE UNCHANGED vars
  BY <1>0, <1>10, PassedOn DEF vars, Shape
<1> QED BY <1>2, <1>3, <1>4, <1>5, <1>6, <1>7, <1>8, <1>9, <1>10 DEF Next

LEMMA InitCounted == Init => Counted
<1> SUFFICES ASSUME Init PROVE Counted
  OBVIOUS
<1>1. Issued = {1} /\ Rotating = {} /\ 1 \in Token
  BY BoundAssumption DEF Init, Issued, Rotating, At, IdleRequest, Token
<1>2. Cardinality(Issued) = 1 /\ Cardinality(Rotating) = 0
  BY <1>1, FS_EmptySet, FS_Singleton
<1> QED BY <1>1, <1>2, BoundAssumption DEF Init, Counted, TokensFit, IdleRequest

(* Whatever a tab, the interceptor and the service do, a request is in one *)
(* of the stages, whatever fails: its refresh does not throw past the end. *)
THEOREM TypeCorrect == Spec => []TypeOK
<1>1. Init => Counted
  BY InitCounted
<1>2. IInv /\ Counted /\ [Next]_vars => Counted'
  BY CountedNext DEF IInv
<1>3. IInv /\ Counted => TypeOK
  BY DEF IInv, Shape, Counted, TypeOK
<1> QED BY <1>1, <1>2, <1>3, Invariance, PTL DEF Spec
=============================================================================
