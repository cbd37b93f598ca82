------------------------- MODULE AuthSessionsProofs -------------------------
(***************************************************************************)
(* For any number of accounts, passwords and requests in flight, with      *)
(* queries that throw and a process that dies between any two steps: a     *)
(* dead family stays dead, a deleted account stays locked, a spent restore *)
(* code stays spent.  And when one request runs at a time and nothing      *)
(* fails, the handlers leave behind what they are meant to.                *)
(*                                                                         *)
(* The three action properties need little of the history: that the family *)
(* of a row is the token that opened it (FamiliesOpened), and that a       *)
(* request carries an issued token of its own account.  That the counters  *)
(* stay in range needs an account of the requests on their way to bump one.*)
(* What is proved of a step is proved per variable: how a request moves    *)
(* (Legal), how the rows do (Shrinks, Opens), and so on; the invariant and *)
(* the properties follow from that, whichever handler the step is of.      *)
(***************************************************************************)
EXTENDS AuthSessions, FiniteSetTheorems, TLAPS

RequestType == [at : Stages, user : Users \cup {None}, token : Token \cup {None},
                version : Versions, password : Passwords \cup {None},
                code : 0..MaxCode, wasDeleted : BOOLEAN]

OfToken == {"refreshRotate", "refreshUser", "refreshSession", "reuseFamily", "logoutRevoke"}

(* What a request carries while it is in flight. *)
Carries(r) ==
  /\ r.at # "idle" => r.user \in Users
  /\ r.at \in OfToken => r.token \in Token /\ Issued(r.token) /\ r.token.user = r.user
  /\ r.at \in {"confirmMatch", "confirmConsume", "confirmPassword"} => r.password \in Passwords

(* The family of a row is a token that opened it; a token that was never   *)
(* issued would open its own.                                              *)
FamiliesOpened ==
  \A t \in Token : IF Issued(t) THEN Issued(session[t].family) ELSE session[t].family = t

Bumpers(u) == {p \in Requests : req[p].at \in Bumping /\ req[p].user = u}
Storers(u) == {p \in Requests : req[p].at = "restoreStore" /\ req[p].user = u}

RoomLeft ==
  \A u \in Users : /\ tokenVersion[u] + Cardinality(Bumpers(u)) <= MaxVersion
                   /\ codes[u] + Cardinality(Storers(u)) <= MaxCode

IInv ==
  /\ TypeOK
  /\ \A p \in Requests : Carries(req[p])
  /\ FamiliesOpened
  /\ RoomLeft

(* What a step does to a request: it begins, goes on, or is done.          *)
RotatingStages == {"refreshRotate", "refreshUser", "refreshSession"}
PastStages == {"loginSession", "refreshSession", "confirmMatch", "confirmConsume",
               "confirmPassword", "confirmBump", "confirmAll", "confirmSession"}

Legal(a, r) ==
  /\ r \in RequestType /\ Carries(r)
  /\ a.at # "idle" /\ r.at # "idle" => r.user = a.user
  /\ r.at \in Bumping => a.at \in Bumping \/ (a.at = "idle" /\ RoomToBump(r.user))
  /\ r.at = "restoreStore" => a.at = "idle" /\ RoomForCode(r.user)
  /\ r.at \in RotatingStages => Valid(r.token) \/ (a.at \in RotatingStages /\ r.token = a.token)
  /\ r.at \in PastStages =>
       \/ a.at \in PastStages
       \/ account[r.user].status = "ACTIVE"
       \/ a.at = "idle" /\ r.at = "confirmMatch"
  /\ r.at = "confirmConsume" => CodeUsable(r.user, r.code)

Moved(p) == \E r : Legal(req[p], r) /\ req' = [req EXCEPT ![p] = r]

(* What a step does to the sessions: it revokes some, or inserts one.      *)
Shrinks ==
  /\ session' \in [Token -> SessionRow]
  /\ \A t \in Token : /\ session'[t].family = session[t].family
                      /\ Issued(t)' <=> Issued(t)
                      /\ Valid(t)' => Valid(t)

Inserted(p, t, family) ==
  /\ session' = [session EXCEPT ![t] = [state |-> "valid", family |-> family]]
  /\ t \in Token /\ ~Issued(t) /\ t.user = req[p].user
  /\ \/ family = t
     \/ req[p].at = "refreshSession" /\ family = session[req[p].token].family

Inserts(p) ==
  /\ req[p].at \in {"loginSession", "refreshSession", "confirmSession"}
  /\ \E t, family \in Token : Inserted(p, t, family)

-----------------------------------------------------------------------------

LEMMA Typed ==
  ASSUME TypeOK
  PROVE  /\ account \in [Users -> [status : {"ACTIVE", "DELETED"}, password : Passwords, graceOver : BOOLEAN]]
         /\ tokenVersion \in [Users -> Versions] /\ codes \in [Users -> 0..MaxCode]
         /\ restore \in [Users -> [code : 0..MaxCode, used : BOOLEAN, live : BOOLEAN]]
         /\ session \in [Token -> SessionRow] /\ req \in [Requests -> RequestType]
         /\ \A p \in Requests : req[p] \in RequestType
BY DEF TypeOK, RequestType

LEMMA LegalDone == ASSUME NEW a PROVE Legal(a, IdleRequest)
BY BoundsAssumption
DEF Legal, IdleRequest, Request, RequestType, Carries, Stages, Versions, OfToken, Bumping,
    RotatingStages, PastStages

LEMMA DoneMoves == ASSUME NEW p, Done(p) PROVE Moved(p)
BY LegalDone DEF Done, Moved

(* A request whose stage alone changes. *)
LEMMA GotoMoves ==
  ASSUME TypeOK, NEW p \in Requests, Carries(req[p]), NEW stage \in Stages, Goto(p, stage),
         req[p].at # "idle",
         stage \in OfToken => req[p].at \in OfToken,
         stage \in {"confirmMatch", "confirmConsume", "confirmPassword"} =>
           req[p].at \in {"confirmMatch", "confirmConsume", "confirmPassword"},
         stage \in Bumping => req[p].at \in Bumping,
         stage # "restoreStore",
         stage \in RotatingStages => req[p].at \in RotatingStages,
         stage \in PastStages => req[p].at \in PastStages,
         stage = "confirmConsume" => CodeUsable(req[p].user, req[p].code)
  PROVE  Moved(p)
<1> DEFINE r == [req[p] EXCEPT !.at = stage]
<1>1. /\ r \in RequestType /\ r.at = stage
      /\ r.user = req[p].user /\ r.token = req[p].token /\ r.password = req[p].password
      /\ r.code = req[p].code
  BY Typed DEF RequestType
<1>2. req' = [req EXCEPT ![p] = r]
  BY DEF Goto
<1> HIDE DEF r
<1>3. Carries(r)
  BY <1>1 DEF Carries
<1>4. Legal(req[p], r)
  BY <1>1, <1>3 DEF Legal
<1> QED
  BY <1>2, <1>4 DEF Moved

(* A request that arrives. *)
LEMMA BeginMoves ==
  ASSUME NEW p \in Requests, NEW r \in RequestType, Begin(p, r), Carries(r),
         r.at \in Bumping => RoomToBump(r.user),
         r.at = "restoreStore" => RoomForCode(r.user),
         r.at \in RotatingStages => Valid(r.token),
         r.at \in PastStages => account[r.user].status = "ACTIVE" \/ r.at = "confirmMatch",
         r.at # "confirmConsume"
  PROVE  Moved(p)
BY DEF Begin, Idle, Moved, Legal

-----------------------------------------------------------------------------
(* How each arrival moves its request. *)

LEMMA Fresh ==
  ASSUME NEW at \in Stages, NEW u \in Users
  PROVE  /\ Request(at, u) \in RequestType
         /\ Request(at, u).at = at /\ Request(at, u).user = u
BY BoundsAssumption DEF Request, RequestType, Versions

LEMMA LoginFindMoves ==
  ASSUME TypeOK, NEW p \in Requests, NEW u \in Users, NEW password \in Passwords,
         LoginFind(p, u, password)
  PROVE  Moved(p)
<1> DEFINE r == [Request("loginSession", u) EXCEPT !.version = tokenVersion[u]]
<1>1. r \in RequestType /\ r.at = "loginSession" /\ r.user = u
  <2>1. "loginSession" \in Stages /\ tokenVersion[u] \in Versions
    BY Typed DEF Stages
  <2> QED
    BY <2>1, Fresh DEF RequestType
<1>2. Begin(p, r) /\ account[u].status = "ACTIVE"
  BY DEF LoginFind
<1> HIDE DEF r
<1> QED
  BY <1>1, <1>2, BeginMoves DEF Carries, OfToken, Bumping, RotatingStages, PastStages

LEMMA RefreshLookupMoves ==
  ASSUME TypeOK, NEW p \in Requests, NEW t \in Token, RefreshLookup(p, t)
  PROVE  Moved(p)
<1> DEFINE stage == IF Valid(t) THEN "refreshRotate" ELSE "reuseFamily"
           r == [Request(stage, t.user) EXCEPT !.token = t]
<1>1. stage \in Stages /\ t.user \in Users
  BY DEF Stages, Token
<1>2. r \in RequestType /\ r.at = stage /\ r.user = t.user /\ r.token = t
  BY <1>1, Fresh DEF RequestType
<1>3. Begin(p, r) /\ Issued(t) /\ (Valid(t) \/ RoomToBump(t.user))
  BY DEF RefreshLookup
<1>4. IF Valid(t) THEN stage = "refreshRotate" ELSE stage = "reuseFamily"
  OBVIOUS
<1> HIDE DEF r, stage
<1> QED
  BY <1>1, <1>2, <1>3, <1>4, BeginMoves DEF Carries, OfToken, Bumping, RotatingStages, PastStages

LEMMA LogoutFindMoves ==
  ASSUME TypeOK, NEW p \in Requests, NEW t \in Token, LogoutFind(p, t)
  PROVE  Moved(p)
<1> DEFINE r == [Request("logoutRevoke", t.user) EXCEPT !.token = t]
<1>1. t.user \in Users /\ "logoutRevoke" \in Stages
  BY DEF Token, Stages
<1>2. r \in RequestType /\ r.at = "logoutRevoke" /\ r.user = t.user /\ r.token = t
  BY <1>1, Fresh DEF RequestType
<1>3. Begin(p, r) /\ Issued(t)
  BY DEF LogoutFind, Valid, Issued
<1> HIDE DEF r
<1> QED
  BY <1>1, <1>2, <1>3, BeginMoves DEF Carries, OfToken, Bumping, RotatingStages, PastStages

LEMMA DeleteMeMoves ==
  ASSUME TypeOK, NEW p \in Requests, NEW u \in Users, DeleteMe(p, u)
  PROVE  Moved(p)
<1> DEFINE r == Request("deleteBump", u)
<1>1. r \in RequestType /\ r.at = "deleteBump" /\ r.user = u
  BY Fresh DEF Stages
<1>2. Begin(p, r) /\ RoomToBump(u)
  BY DEF DeleteMe
<1> HIDE DEF r
<1> QED
  BY <1>1, <1>2, BeginMoves DEF Carries, OfToken, Bumping, RotatingStages, PastStages

LEMMA RestoreFindMoves ==
  ASSUME TypeOK, NEW p \in Requests, NEW u \in Users, RestoreFind(p, u)
  PROVE  Moved(p)
<1> DEFINE r == Request("restoreStore", u)
<1>1. r \in RequestType /\ r.at = "restoreStore" /\ r.user = u
  BY Fresh DEF Stages
<1>2. Begin(p, r) /\ RoomForCode(u)
  BY DEF RestoreFind
<1> HIDE DEF r
<1> QED
  BY <1>1, <1>2, BeginMoves DEF Carries, OfToken, Bumping, RotatingStages, PastStages

LEMMA ConfirmFindMoves ==
  ASSUME TypeOK, NEW p \in Requests, NEW u \in Users, NEW password \in Passwords,
         NEW c \in 1..MaxCode, ConfirmFind(p, u, password, c)
  PROVE  Moved(p)
<1> DEFINE a == Request("confirmMatch", u)
           d == account[u].status = "DELETED"
           r == [a EXCEPT !.password = password, !.code = c, !.wasDeleted = d]
<1>1. d \in BOOLEAN /\ c \in 0..MaxCode
  BY BoundsAssumption
<1>2. Begin(p, r) /\ RoomToBump(u)
  BY DEF ConfirmFind
<1>3. a \in RequestType /\ a.at = "confirmMatch" /\ a.user = u
  BY Fresh DEF Stages
<1>r. r = [a EXCEPT !.password = password, !.code = c, !.wasDeleted = d]
  OBVIOUS
<1> HIDE DEF a, d, r
<1>4. r \in RequestType /\ r.at = "confirmMatch" /\ r.user = u /\ r.password = password
  BY <1>1, <1>3, <1>r DEF RequestType
<1> QED
  BY <1>2, <1>3, <1>4, BeginMoves DEF Carries, OfToken, Bumping, RotatingStages, PastStages

-----------------------------------------------------------------------------
(* How a request in flight moves. *)

(* A set of requests, and how its size changes. *)
LEMMA SizeOf ==
  ASSUME NEW S \in SUBSET Requests, NEW T \in SUBSET Requests, NEW p \in Requests
  PROVE  /\ Cardinality(S) \in Nat /\ Cardinality(T) \in Nat
         /\ T \subseteq S => Cardinality(T) <= Cardinality(S)
         /\ T \subseteq S \cup {p} => Cardinality(T) <= Cardinality(S) + 1
         /\ p \in S /\ T \subseteq S \ {p} => Cardinality(T) <= Cardinality(S) - 1
<1>1. IsFiniteSet(S) /\ IsFiniteSet(T)
  BY RequestsAssumption, FS_Subset
<1>2. Cardinality(S) \in Nat /\ Cardinality(T) \in Nat
  BY <1>1, FS_CardinalityType
<1>3. ASSUME T \subseteq S PROVE Cardinality(T) <= Cardinality(S)
  BY <1>1, <1>3, FS_Subset
<1>4. ASSUME T \subseteq S \cup {p} PROVE Cardinality(T) <= Cardinality(S) + 1
  <2>0. /\ IsFiniteSet(S \cup {p})
        /\ Cardinality(S \cup {p}) = IF p \in S THEN Cardinality(S) ELSE Cardinality(S) + 1
    BY <1>1, FS_AddElement
  <2>1. /\ IsFiniteSet(S \cup {p}) /\ Cardinality(S \cup {p}) \in Nat
        /\ Cardinality(S \cup {p}) <= Cardinality(S) + 1
    BY <1>2, <2>0
  <2>2. Cardinality(T) <= Cardinality(S \cup {p})
    BY <1>4, <2>1, FS_Subset
  <2> QED
    BY <1>2, <2>1, <2>2
<1>5. ASSUME p \in S, T \subseteq S \ {p} PROVE Cardinality(T) <= Cardinality(S) - 1
  <2>1. IsFiniteSet(S \ {p}) /\ Cardinality(S \ {p}) = Cardinality(S) - 1
    BY <1>1, <1>5, FS_RemoveElement
  <2>2. Cardinality(T) <= Cardinality(S \ {p})
    BY <1>5, <2>1, FS_Subset
  <2> QED
    BY <2>1, <2>2
<1> QED
  BY <1>2, <1>3, <1>4, <1>5

(* A request on its way to a bump has a version left for it. *)
LEMMA VersionLeft ==
  ASSUME IInv, NEW p \in Requests, req[p].at \in Bumping
  PROVE  req[p].user \in Users /\ tokenVersion[req[p].user] + 1 \in Versions
<1> DEFINE u == req[p].user
<1>1. u \in Users
  BY DEF IInv, Carries, Bumping
<1>2. Bumpers(u) \subseteq Requests /\ p \in Bumpers(u)
  BY DEF Bumpers
<1>3. {} \subseteq Bumpers(u) \ {p} /\ {} \subseteq Requests
  OBVIOUS
<1>4. /\ Cardinality(Bumpers(u)) \in Nat /\ Cardinality({}) \in Nat
      /\ Cardinality({}) <= Cardinality(Bumpers(u)) - 1
  BY <1>2, <1>3, SizeOf
<1>5. tokenVersion[u] \in Versions /\ tokenVersion[u] + Cardinality(Bumpers(u)) <= MaxVersion
  BY <1>1, Typed DEF IInv, RoomLeft
<1>6. Cardinality({}) = 0
  BY FS_EmptySet
<1> HIDE DEF u
<1>7. tokenVersion[u] + 1 \in Versions
  BY <1>4, <1>5, <1>6, BoundsAssumption DEF Versions
<1> QED
  BY <1>1, <1>7 DEF u

LEMMA RefreshUserMoves ==
  ASSUME IInv, NEW p \in Requests, RefreshUser(p)
  PROVE  Moved(p)
<1> DEFINE v == tokenVersion[req[p].user]
           r == [req[p] EXCEPT !.at = "refreshSession", !.version = v]
<1>1. CASE Done(p)
  BY <1>1, DoneMoves
<1>2. CASE account[req[p].user].status = "ACTIVE" /\ req' = [req EXCEPT ![p] = r]
  <2>1. req[p].at = "refreshUser" /\ req[p] \in RequestType /\ Carries(req[p])
    BY Typed DEF RefreshUser, IInv
  <2>2. v \in Versions /\ "refreshSession" \in Stages
    BY <2>1, Typed DEF IInv, Carries, Stages
  <2> HIDE DEF v
  <2>3. r \in RequestType /\ r.at = "refreshSession" /\ r.user = req[p].user /\ r.token = req[p].token
    BY <2>1, <2>2 DEF RequestType
  <2> HIDE DEF r
  <2>4. Carries(r)
    BY <2>1, <2>3 DEF Carries, OfToken
  <2>5. Legal(req[p], r)
    BY <1>2, <2>1, <2>3, <2>4 DEF Legal, Bumping, RotatingStages, PastStages
  <2> QED
    BY <1>2, <2>5 DEF Moved
<1> QED
  BY <1>1, <1>2 DEF RefreshUser

LEMMA BumpMoves ==
  ASSUME IInv, NEW p \in Requests, BumpTokenVersion(p)
  PROVE  Moved(p)
<1> DEFINE v == tokenVersion[req[p].user] + 1
           r == [req[p] EXCEPT !.at = "confirmAll", !.version = v]
<1>1. CASE req[p].at = "reuseBump"
  BY <1>1, DoneMoves DEF BumpTokenVersion
<1>2. CASE req[p].at = "deleteBump"
  BY <1>2, GotoMoves DEF BumpTokenVersion, IInv, Stages, OfToken, Bumping, RotatingStages, PastStages
<1>3. CASE req[p].at = "confirmBump"
  <2>1. req[p] \in RequestType /\ Carries(req[p])
    BY Typed DEF IInv
  <2>2. v \in Versions /\ "confirmAll" \in Stages
    BY <1>3, VersionLeft DEF Stages, Bumping
  <2>3. req' = [req EXCEPT ![p] = r]
    BY <1>3 DEF BumpTokenVersion
  <2> HIDE DEF v
  <2>4. r \in RequestType /\ r.at = "confirmAll" /\ r.user = req[p].user /\ r.token = req[p].token
    BY <2>1, <2>2 DEF RequestType
  <2> HIDE DEF r
  <2>5. Carries(r)
    BY <1>3, <2>1, <2>4 DEF Carries, OfToken
  <2>6. Legal(req[p], r)
    BY <1>3, <2>1, <2>4, <2>5 DEF Legal, Bumping, RotatingStages, PastStages
  <2> QED
    BY <2>3, <2>6 DEF Moved
<1> QED
  BY <1>1, <1>2, <1>3 DEF BumpTokenVersion

LEMMA StepMoves ==
  ASSUME IInv, NEW p \in Requests, Step(p)
  PROVE  Moved(p)
<1> USE DEF Stages, OfToken, Bumping, RotatingStages, PastStages
<1>0. TypeOK /\ Carries(req[p])
  BY DEF IInv
<1>1. CASE LoginSession(p) \/ RefreshSession(p) \/ LogoutRevoke(p) \/ RestoreStore(p) \/ ConfirmSession(p)
  BY <1>1, DoneMoves DEF LoginSession, RefreshSession, LogoutRevoke, RestoreStore, ConfirmSession
<1>2. CASE RefreshRotate(p)
  BY <1>0, <1>2, GotoMoves DEF RefreshRotate
<1>3. CASE RefreshUser(p)
  BY <1>3, RefreshUserMoves
<1>4. CASE ReuseFamily(p)
  BY <1>0, <1>4, GotoMoves DEF ReuseFamily
<1>5. CASE RevokeAll(p)
  <2>1. CASE req[p].at = "reuseAll"
    BY <1>0, <1>5, <2>1, GotoMoves DEF RevokeAll
  <2>2. CASE req[p].at = "deleteAll"
    BY <1>5, <2>2, DoneMoves DEF RevokeAll
  <2>3. CASE req[p].at = "confirmAll"
    BY <1>0, <1>5, <2>3, GotoMoves DEF RevokeAll
  <2> QED
    BY <1>5, <2>1, <2>2, <2>3 DEF RevokeAll
<1>6. CASE BumpTokenVersion(p)
  BY <1>6, BumpMoves
<1>7. CASE ConfirmMatch(p)
  <2>1. CASE CodeUsable(req[p].user, req[p].code)
    BY <1>0, <1>7, <2>1, GotoMoves DEF ConfirmMatch
  <2>2. CASE ~CodeUsable(req[p].user, req[p].code)
    BY <1>7, <2>2, DoneMoves DEF ConfirmMatch
  <2> QED
    BY <2>1, <2>2
<1>8. CASE ConfirmConsume(p)
  BY <1>0, <1>8, GotoMoves DEF ConfirmConsume
<1>9. CASE ConfirmPassword(p)
  BY <1>0, <1>9, GotoMoves DEF ConfirmPassword
<1> QED
  BY <1>1, <1>2, <1>3, <1>4, <1>5, <1>6, <1>7, <1>8, <1>9 DEF Step

LEMMA ArrivalMoves ==
  ASSUME IInv, NEW p \in Requests, Arrival(p)
  PROVE  Moved(p) \/ (Idle(p) /\ UNCHANGED req)
<1>0. TypeOK
  BY DEF IInv
<1>1. ASSUME NEW t \in Token, RefreshLookup(p, t) \/ LogoutFind(p, t) PROVE Moved(p)
  BY <1>0, <1>1, RefreshLookupMoves, LogoutFindMoves
<1>2. ASSUME NEW u \in Users, LogoutAll(p, u) PROVE Idle(p) /\ UNCHANGED req
  BY <1>2 DEF LogoutAll
<1>3. ASSUME NEW u \in Users, DeleteMe(p, u) \/ RestoreFind(p, u) PROVE Moved(p)
  BY <1>0, <1>3, DeleteMeMoves, RestoreFindMoves
<1>4. ASSUME NEW u \in Users, NEW password \in Passwords,
             \/ LoginFind(p, u, password)
             \/ \E c \in 1..MaxCode : ConfirmFind(p, u, password, c)
      PROVE  Moved(p)
  BY <1>0, <1>4, LoginFindMoves, ConfirmFindMoves
<1> QED
  BY <1>1, <1>2, <1>3, <1>4 DEF Arrival

LEMMA RequestMoves ==
  ASSUME IInv, [Next]_vars
  PROVE  UNCHANGED req \/ \E p \in Requests : Moved(p)
<1>1. ASSUME NEW p \in Requests, Abort(p) PROVE Moved(p)
  BY <1>1, DoneMoves DEF Abort
<1> QED
  BY <1>1, StepMoves, ArrivalMoves DEF Next, vars, Tick, GracePeriodEnds, CodeExpires

-----------------------------------------------------------------------------
(* How the rows change. *)

LEMMA RevokeShrinks ==
  ASSUME TypeOK, NEW S, RevokeSessions(S), \A t \in S \cap Token : Issued(t)
  PROVE  Shrinks
<1> DEFINE row(t) == IF t \in S THEN [session[t] EXCEPT !.state = "revoked"] ELSE session[t]
<1>1. session' = [t \in Token |-> row(t)]
  BY DEF RevokeSessions
<1>2. ASSUME NEW t \in Token
      PROVE  /\ row(t) \in SessionRow /\ row(t).family = session[t].family
             /\ row(t).state = "none" <=> session[t].state = "none"
             /\ row(t).state = "valid" => session[t].state = "valid"
  <2>1. session[t] \in SessionRow
    BY Typed
  <2> QED
    BY <2>1 DEF SessionRow, Issued
<1> HIDE DEF row
<1>3. \A t \in Token : session'[t] = row(t)
  BY <1>1
<1>4. session' \in [Token -> SessionRow]
  BY <1>1, <1>2
<1> QED
  BY <1>2, <1>3, <1>4 DEF Shrinks, Issued, Valid

LEMMA RevokeOneShrinks ==
  ASSUME TypeOK, NEW t \in Token, Issued(t), RevokeSession(t)
  PROVE  Shrinks
<1> DEFINE r == [session[t] EXCEPT !.state = "revoked"]
<1>1. session \in [Token -> SessionRow] /\ session[t] \in SessionRow
  BY Typed
<1>2. r \in SessionRow /\ r.family = session[t].family /\ r.state = "revoked"
  BY <1>1 DEF SessionRow
<1>3. session' = [session EXCEPT ![t] = r]
  BY DEF RevokeSession
<1> HIDE DEF r
<1> QED
  BY <1>1, <1>2, <1>3 DEF Shrinks, Issued, Valid

LEMMA SameShrinks == ASSUME TypeOK, UNCHANGED session PROVE Shrinks
BY Typed DEF Shrinks, Issued, Valid

LEMMA CreateShrinksOrInserts ==
  ASSUME IInv, NEW p \in Requests, NEW t \in Token, NEW family \in Token, Create(t, family),
         req[p].at \in {"loginSession", "refreshSession", "confirmSession"}, t.user = req[p].user,
         family = t \/ (req[p].at = "refreshSession" /\ family = session[req[p].token].family)
  PROVE  Shrinks \/ Inserts(p)
<1>1. CASE Issued(t)
  BY <1>1, SameShrinks DEF Create, IInv
<1>2. CASE ~Issued(t)
  <2>1. Inserted(p, t, family)
    BY <1>2 DEF Create, Inserted
  <2> QED
    BY <2>1 DEF Inserts
<1> QED
  BY <1>1, <1>2

LEMMA NewTokenTyped ==
  ASSUME IInv, NEW p \in Requests, req[p].at # "idle"
  PROVE  NewToken(p) \in Token /\ NewToken(p).user = req[p].user
<1>1. req[p] \in RequestType /\ req[p].user \in Users /\ second \in 0..MaxSecond
  BY Typed DEF IInv, Carries, TypeOK
<1>2. req[p].version \in Versions
  BY <1>1 DEF RequestType
<1> QED
  BY <1>1, <1>2 DEF NewToken, Token

LEMMA SessionsMove ==
  ASSUME IInv, [Next]_vars
  PROVE  Shrinks \/ \E p \in Requests : Inserts(p)
<1>0. TypeOK
  BY DEF IInv
<1>1. ASSUME NEW p \in Requests, LoginSession(p) \/ ConfirmSession(p)
      PROVE  Shrinks \/ Inserts(p)
  <2>1. NewToken(p) \in Token /\ NewToken(p).user = req[p].user
    BY <1>1, NewTokenTyped DEF LoginSession, ConfirmSession
  <2> QED
    BY <1>1, <2>1, CreateShrinksOrInserts DEF LoginSession, ConfirmSession
<1>2. ASSUME NEW p \in Requests, RefreshSession(p)
      PROVE  Shrinks \/ Inserts(p)
  <2>1. NewToken(p) \in Token /\ NewToken(p).user = req[p].user
    BY <1>2, NewTokenTyped DEF RefreshSession
  <2>2. req[p].token \in Token
    BY <1>2 DEF IInv, Carries, OfToken, RefreshSession
  <2>3. session[req[p].token] \in SessionRow
    BY <1>0, <2>2, Typed
  <2>4. session[req[p].token].family \in Token
    BY <2>3 DEF SessionRow
  <2> QED
    BY <1>2, <2>1, <2>4, CreateShrinksOrInserts DEF RefreshSession
<1>3. ASSUME NEW p \in Requests, RefreshRotate(p) \/ LogoutRevoke(p) PROVE Shrinks
  <2>1. req[p].token \in Token /\ Issued(req[p].token)
    BY <1>3 DEF IInv, Carries, OfToken, RefreshRotate, LogoutRevoke
  <2> QED
    BY <1>0, <1>3, <2>1, RevokeOneShrinks DEF RefreshRotate, LogoutRevoke
<1>4. ASSUME NEW p \in Requests, ReuseFamily(p) PROVE Shrinks
  <2> DEFINE S == SessionsIn(session[req[p].token].family)
  <2>1. \A t \in S \cap Token : Issued(t)
    BY DEF SessionsIn, Valid, Issued
  <2>2. RevokeSessions(S)
    BY <1>4 DEF ReuseFamily
  <2> HIDE DEF S
  <2> QED
    BY <1>0, <2>1, <2>2, RevokeShrinks
<1>5. ASSUME NEW u, RevokeSessions(SessionsOf(u)) PROVE Shrinks
  <2>1. \A t \in SessionsOf(u) \cap Token : Issued(t)
    BY DEF SessionsOf, Valid, Issued
  <2> QED
    BY <1>0, <1>5, <2>1, RevokeShrinks
<1>6. ASSUME NEW p \in Requests, RevokeAll(p) PROVE Shrinks
  BY <1>5, <1>6 DEF RevokeAll
<1>7. ASSUME NEW p \in Requests, Step(p) PROVE Shrinks \/ Inserts(p)
  BY <1>0, <1>1, <1>2, <1>3, <1>4, <1>6, <1>7, SameShrinks
  DEF Step, RefreshUser, BumpTokenVersion, RestoreStore, ConfirmMatch, ConfirmConsume, ConfirmPassword
<1>8. ASSUME NEW p \in Requests, Arrival(p) PROVE Shrinks
  <2>1. ASSUME NEW u \in Users, LogoutAll(p, u) PROVE Shrinks
    BY <1>5, <2>1 DEF LogoutAll
  <2>2. ASSUME UNCHANGED session PROVE Shrinks
    BY <1>0, <2>2, SameShrinks
  <2> QED
    BY <1>8, <2>1, <2>2
    DEF Arrival, RefreshLookup, LogoutFind, DeleteMe, RestoreFind, LoginFind, ConfirmFind
<1>9. ASSUME UNCHANGED session PROVE Shrinks
  BY <1>0, <1>9, SameShrinks
<1> QED
  BY <1>7, <1>8, <1>9 DEF Next, vars, Tick, GracePeriodEnds, CodeExpires, Abort

(* A version is bumped by a request that was on its way to it.             *)
Bumped(p) ==
  /\ req[p].at \in Bumping /\ req'[p].at \notin Bumping
  /\ tokenVersion' = [tokenVersion EXCEPT ![req[p].user] = @ + 1]
  /\ \A q \in Requests : q # p => req'[q] = req[q]

LEMMA VersionsMove ==
  ASSUME IInv, [Next]_vars
  PROVE  UNCHANGED tokenVersion \/ \E p \in Requests : Bumped(p)
<1>1. ASSUME NEW p \in Requests, BumpTokenVersion(p) PROVE Bumped(p)
  <2>1. req \in [Requests -> RequestType] /\ req[p] \in RequestType
    BY Typed DEF IInv
  <2>2. req[p].at \in Bumping /\ tokenVersion' = [tokenVersion EXCEPT ![req[p].user] = @ + 1]
    BY <1>1 DEF BumpTokenVersion, Bumping
  <2>3. (\A q \in Requests : q # p => req'[q] = req[q]) /\ req'[p].at \in {"idle", "deleteAll", "confirmAll"}
    <3>1. CASE req[p].at = "reuseBump"
      BY <1>1, <2>1, <3>1 DEF BumpTokenVersion, Done, IdleRequest, Request
    <3>2. CASE req[p].at = "deleteBump"
      BY <1>1, <2>1, <3>2 DEF BumpTokenVersion, Goto, RequestType
    <3>3. CASE req[p].at = "confirmBump"
      BY <1>1, <2>1, <3>3 DEF BumpTokenVersion, RequestType
    <3> QED
      BY <1>1, <3>1, <3>2, <3>3 DEF BumpTokenVersion
  <2> QED
    BY <2>2, <2>3 DEF Bumped, Bumping
<1>2. ASSUME NEW p \in Requests, Step(p), ~BumpTokenVersion(p) PROVE UNCHANGED tokenVersion
  BY <1>2
  DEF Step, LoginSession, RefreshRotate, RefreshUser, RefreshSession, ReuseFamily, RevokeAll, LogoutRevoke,
      RestoreStore, ConfirmMatch, ConfirmConsume, ConfirmPassword, ConfirmSession
<1>3. ASSUME NEW p \in Requests, Arrival(p) \/ Abort(p) PROVE UNCHANGED tokenVersion
  BY <1>3
  DEF Arrival, Abort, RefreshLookup, LogoutFind, LogoutAll, DeleteMe, RestoreFind, LoginFind, ConfirmFind
<1> QED
  BY <1>1, <1>2, <1>3 DEF Next, vars, Tick, GracePeriodEnds, CodeExpires

(* A code is generated by a request that was about to store it; every other*)
(* change of a restore record takes the code away.                         *)
Stored(p) ==
  /\ req[p].at = "restoreStore" /\ req'[p].at = "idle"
  /\ codes' = [codes EXCEPT ![req[p].user] = @ + 1]
  /\ restore' = [restore EXCEPT ![req[p].user] =
                   [code |-> codes[req[p].user] + 1, used |-> FALSE, live |-> TRUE]]
  /\ \A q \in Requests : q # p => req'[q] = req[q]

CodesFade ==
  /\ UNCHANGED codes
  /\ restore' \in [Users -> [code : 0..MaxCode, used : BOOLEAN, live : BOOLEAN]]
  /\ \A u \in Users, c \in 1..MaxCode : CodeUsable(u, c)' => CodeUsable(u, c)

LEMMA FadeOne ==
  ASSUME TypeOK, NEW u \in Users, NEW r, UNCHANGED codes,
         restore' = [restore EXCEPT ![u] = r],
         r = NoCode \/ r = [restore[u] EXCEPT !.used = TRUE] \/ r = [restore[u] EXCEPT !.live = FALSE]
  PROVE  CodesFade
<1> DEFINE RT == [code : 0..MaxCode, used : BOOLEAN, live : BOOLEAN]
<1>1. restore \in [Users -> RT] /\ restore[u] \in RT
  BY Typed
<1>2. /\ r \in RT
      /\ \A c \in 1..MaxCode : (r.code = c /\ ~r.used /\ r.live) =>
           (restore[u].code = c /\ ~restore[u].used /\ restore[u].live)
  <2>1. CASE r = NoCode
    <3>1. r.used /\ r \in RT
      BY <2>1, BoundsAssumption DEF NoCode
    <3> QED
      BY <3>1
  <2>2. CASE r = [restore[u] EXCEPT !.used = TRUE]
    <3>1. r.used /\ r \in RT
      BY <1>1, <2>2
    <3> QED
      BY <3>1
  <2>3. CASE r = [restore[u] EXCEPT !.live = FALSE]
    <3>1. ~r.live /\ r \in RT
      BY <1>1, <2>3
    <3> QED
      BY <3>1
  <2> QED
    BY <2>1, <2>2, <2>3
<1> HIDE DEF RT
<1>3. restore' \in [Users -> RT]
  BY <1>1, <1>2
<1>4. restore'[u] = r /\ \A v \in Users : v # u => restore'[v] = restore[v]
  BY <1>1
<1> QED
  BY <1>2, <1>3, <1>4 DEF CodesFade, CodeUsable, RT

LEMMA CodesMove ==
  ASSUME IInv, [Next]_vars
  PROVE  CodesFade \/ \E p \in Requests : Stored(p)
<1>0. TypeOK
  BY DEF IInv
<1>1. ASSUME UNCHANGED <<codes, restore>> PROVE CodesFade
  BY <1>0, <1>1, Typed DEF CodesFade, CodeUsable
<1>2. ASSUME NEW p \in Requests, RestoreStore(p) PROVE Stored(p)
  <2>1. req'[p].at = "idle" /\ \A q \in Requests : q # p => req'[q] = req[q]
    BY <1>0, <1>2, Typed DEF RestoreStore, Done, IdleRequest, Request
  <2> QED
    BY <1>2, <2>1 DEF RestoreStore, Stored
<1>3. ASSUME NEW p \in Requests, ConfirmConsume(p) \/ ConfirmPassword(p) PROVE CodesFade
  <2>1. req[p].user \in Users
    BY <1>3 DEF IInv, Carries, ConfirmConsume, ConfirmPassword
  <2>2. CASE ConfirmConsume(p)
    <3>1. restore' = [restore EXCEPT ![req[p].user] = [restore[req[p].user] EXCEPT !.used = TRUE]]
      BY <2>2 DEF ConfirmConsume
    <3> QED
      BY <1>0, <2>1, <2>2, <3>1, FadeOne DEF ConfirmConsume
  <2>3. CASE ConfirmPassword(p)
    BY <1>0, <2>1, <2>3, FadeOne DEF ConfirmPassword
  <2> QED
    BY <1>3, <2>2, <2>3
<1>4. ASSUME NEW u \in Users, CodeExpires(u) PROVE CodesFade
  <2>1. restore' = [restore EXCEPT ![u] = [restore[u] EXCEPT !.live = FALSE]] /\ UNCHANGED codes
    BY <1>4 DEF CodeExpires
  <2> QED
    BY <1>0, <2>1, FadeOne
<1>5. ASSUME NEW p \in Requests, Step(p), ~RestoreStore(p) PROVE CodesFade
  BY <1>1, <1>3, <1>5
  DEF Step, LoginSession, RefreshRotate, RefreshUser, RefreshSession, ReuseFamily, RevokeAll, BumpTokenVersion,
      LogoutRevoke, ConfirmMatch, ConfirmSession
<1>6. ASSUME NEW p \in Requests, Arrival(p) \/ Abort(p) PROVE CodesFade
  BY <1>1, <1>6
  DEF Arrival, Abort, RefreshLookup, LogoutFind, LogoutAll, DeleteMe, RestoreFind, LoginFind, ConfirmFind
<1> QED
  BY <1>1, <1>2, <1>4, <1>5, <1>6 DEF Next, vars, Tick, GracePeriodEnds

(* The account: deleteMe deletes, the last step of a confirmation restores.*)
AccountKept ==
  /\ account' \in [Users -> [status : {"ACTIVE", "DELETED"}, password : Passwords, graceOver : BOOLEAN]]
  /\ \A u \in Users :
       \/ account'[u].status = account[u].status
       \/ account'[u].status = "DELETED"
       \/ \E p \in Requests : req[p].at = "confirmPassword" /\ req[p].user = u

LEMMA AccountOne ==
  ASSUME TypeOK, NEW u \in Users,
         NEW r \in [status : {"ACTIVE", "DELETED"}, password : Passwords, graceOver : BOOLEAN],
         account' = [account EXCEPT ![u] = r],
         \/ r.status = account[u].status \/ r.status = "DELETED"
         \/ \E p \in Requests : req[p].at = "confirmPassword" /\ req[p].user = u
  PROVE  AccountKept
BY Typed DEF AccountKept

LEMMA AccountsMove ==
  ASSUME IInv, [Next]_vars
  PROVE  AccountKept
<1> DEFINE AT == [status : {"ACTIVE", "DELETED"}, password : Passwords, graceOver : BOOLEAN]
<1>0. TypeOK /\ \A u \in Users : account[u] \in AT
  BY Typed DEF IInv
<1>1. ASSUME UNCHANGED account PROVE AccountKept
  BY <1>0, <1>1, Typed DEF AccountKept
<1>2. ASSUME NEW p \in Requests, NEW u \in Users, DeleteMe(p, u) PROVE AccountKept
  <2> DEFINE r == [account[u] EXCEPT !.status = "DELETED", !.graceOver = FALSE]
  <2>1. r \in AT /\ r.status = "DELETED"
    BY <1>0
  <2>2. account' = [account EXCEPT ![u] = r]
    BY <1>2 DEF DeleteMe
  <2> HIDE DEF r
  <2> QED
    BY <1>0, <2>1, <2>2, AccountOne
<1>3. ASSUME NEW u \in Users, GracePeriodEnds(u) PROVE AccountKept
  <2> DEFINE r == [account[u] EXCEPT !.graceOver = TRUE]
  <2>1. r \in AT /\ r.status = account[u].status
    BY <1>0
  <2>2. account' = [account EXCEPT ![u] = r]
    BY <1>3 DEF GracePeriodEnds
  <2> HIDE DEF r
  <2> QED
    BY <1>0, <2>1, <2>2, AccountOne
<1>4. ASSUME NEW p \in Requests, ConfirmPassword(p) PROVE AccountKept
  <2> DEFINE u == req[p].user
             r == IF req[p].wasDeleted
                    THEN [status |-> "ACTIVE", password |-> req[p].password, graceOver |-> FALSE]
                    ELSE [status |-> account[u].status, password |-> req[p].password,
                          graceOver |-> account[u].graceOver]
  <2>1. u \in Users /\ req[p].password \in Passwords /\ req[p].at = "confirmPassword"
    BY <1>4 DEF IInv, Carries, ConfirmPassword
  <2>2. r \in AT
    BY <1>0, <2>1
  <2>3. account' = [account EXCEPT ![u] = r]
    BY <1>4 DEF ConfirmPassword
  <2>4. \E q \in Requests : req[q].at = "confirmPassword" /\ req[q].user = u
    BY <2>1
  <2> HIDE DEF r, u
  <2> QED
    BY <1>0, <2>1, <2>2, <2>3, <2>4, AccountOne
<1>5. ASSUME NEW p \in Requests, Step(p), ~ConfirmPassword(p) PROVE UNCHANGED account
  BY <1>5
  DEF Step, LoginSession, RefreshRotate, RefreshUser, RefreshSession, ReuseFamily, RevokeAll, BumpTokenVersion,
      LogoutRevoke, RestoreStore, ConfirmMatch, ConfirmConsume, ConfirmSession
<1>6. ASSUME NEW p \in Requests, Arrival(p) \/ Abort(p) PROVE AccountKept
  BY <1>1, <1>2, <1>6
  DEF Arrival, Abort, RefreshLookup, LogoutFind, LogoutAll, RestoreFind, LoginFind, ConfirmFind
<1> QED
  BY <1>1, <1>3, <1>4, <1>5, <1>6 DEF Next, vars, Tick, CodeExpires

-----------------------------------------------------------------------------
(* The invariant. *)

LEMMA InitIInv == Init => IInv
<1> SUFFICES ASSUME Init PROVE IInv
  OBVIOUS
<1>1. \A p \in Requests : req[p] = IdleRequest
  BY DEF Init
<1>2. IdleRequest \in RequestType /\ IdleRequest.at = "idle"
  BY BoundsAssumption DEF IdleRequest, Request, RequestType, Stages, Versions
<1>3. req \in [Requests -> RequestType]
  BY <1>2 DEF Init
<1>4. session \in [Token -> SessionRow] /\ \A t \in Token : ~Issued(t) /\ session[t].family = t
  BY DEF Init, SessionRow, Issued
<1>5. NoCode \in [code : 0..MaxCode, used : BOOLEAN, live : BOOLEAN]
  BY BoundsAssumption DEF NoCode
<1>6. TypeOK
  <2>1. account \in [Users -> [status : {"ACTIVE", "DELETED"}, password : Passwords, graceOver : BOOLEAN]]
    <3>1. [status : {"ACTIVE"}, password : Passwords, graceOver : {FALSE}]
            \subseteq [status : {"ACTIVE", "DELETED"}, password : Passwords, graceOver : BOOLEAN]
      OBVIOUS
    <3> QED
      BY <3>1 DEF Init
  <2>2. tokenVersion \in [Users -> Versions] /\ codes \in [Users -> 0..MaxCode] /\ second \in 0..MaxSecond
    BY BoundsAssumption DEF Init, Versions
  <2>3. restore \in [Users -> [code : 0..MaxCode, used : BOOLEAN, live : BOOLEAN]]
    BY <1>5 DEF Init
  <2> QED
    BY <1>3, <1>4, <2>1, <2>2, <2>3 DEF TypeOK, RequestType
<1>7. \A u \in Users : Bumpers(u) = {} /\ Storers(u) = {}
  BY <1>1, <1>2 DEF Bumpers, Storers, Bumping
<1>8. RoomLeft
  BY <1>7, FS_EmptySet, BoundsAssumption DEF Init, RoomLeft
<1> QED
  BY <1>1, <1>2, <1>4, <1>6, <1>8 DEF IInv, Carries, OfToken, FamiliesOpened

(* A row that was issued stays so; a row keeps its family, once issued.    *)
LEMMA IssuedKept ==
  ASSUME IInv, [Next]_vars
  PROVE  /\ session' \in [Token -> SessionRow]
         /\ FamiliesOpened'
         /\ \A t \in Token : Issued(t) => Issued(t)' /\ session'[t].family = session[t].family
<1>0. session \in [Token -> SessionRow] /\ FamiliesOpened
  BY Typed DEF IInv
<1>1. \A t \in Token : session[t].family \in Token
  BY <1>0 DEF SessionRow
<1>2. CASE Shrinks
  BY <1>0, <1>1, <1>2 DEF Shrinks, FamiliesOpened
<1>3. ASSUME NEW p \in Requests, NEW t \in Token, NEW family \in Token, Inserted(p, t, family),
             req[p].at \in {"loginSession", "refreshSession", "confirmSession"}
      PROVE  /\ session' \in [Token -> SessionRow]
             /\ FamiliesOpened'
             /\ \A s \in Token : Issued(s) => Issued(s)' /\ session'[s].family = session[s].family
  <2> DEFINE r == [state |-> "valid", family |-> family]
  <2>1. r \in SessionRow /\ r.state = "valid" /\ r.family = family
    BY DEF SessionRow
  <2>2. session' = [session EXCEPT ![t] = r] /\ ~Issued(t)
    BY <1>3 DEF Inserted
  <2> HIDE DEF r
  <2>3. session'[t] = r /\ \A s \in Token : s # t => session'[s] = session[s]
    BY <1>0, <2>2
  <2>4. family = t \/ Issued(family)
    <3>1. CASE req[p].at = "refreshSession" /\ family = session[req[p].token].family
      <4>1. req[p].token \in Token /\ Issued(req[p].token)
        BY <3>1 DEF IInv, Carries, OfToken
      <4> QED
        BY <1>0, <3>1, <4>1 DEF FamiliesOpened
    <3> QED
      BY <1>3, <3>1 DEF Inserted
  <2>5. \A s \in Token : session'[s].state # "none" <=> (s = t \/ session[s].state # "none")
    BY <2>1, <2>3 DEF Issued
  <2>6. FamiliesOpened'
    <3> SUFFICES ASSUME NEW s \in Token
                 PROVE  IF session'[s].state # "none" THEN session'[session'[s].family].state # "none"
                        ELSE session'[s].family = s
      BY DEF FamiliesOpened, Issued
    <3>1. CASE s = t
      BY <2>1, <2>3, <2>4, <2>5, <3>1 DEF Issued
    <3>2. CASE s # t
      BY <1>0, <1>1, <2>3, <2>5, <3>2 DEF FamiliesOpened, Issued
    <3> QED
      BY <3>1, <3>2
  <2>7. session' \in [Token -> SessionRow]
    BY <1>0, <2>1, <2>2
  <2> QED
    BY <2>2, <2>3, <2>5, <2>6, <2>7 DEF Issued
<1>4. Shrinks \/ \E p \in Requests : Inserts(p)
  BY SessionsMove
<1> QED
  BY <1>2, <1>3, <1>4 DEF Inserts

LEMMA RequestsCarry ==
  ASSUME IInv, [Next]_vars
  PROVE  req' \in [Requests -> RequestType] /\ \A p \in Requests : Carries(req[p])'
<1>1. ASSUME \A p \in Requests : Carries(req'[p])
      PROVE  \A p \in Requests : Carries(req[p])'
  BY <1>1, IssuedKept DEF Carries
<1>2. req \in [Requests -> RequestType] /\ \A p \in Requests : Carries(req[p])
  BY Typed DEF IInv
<1>3. CASE UNCHANGED req
  BY <1>1, <1>2, <1>3
<1>4. ASSUME NEW p \in Requests, NEW r, Legal(req[p], r), req' = [req EXCEPT ![p] = r]
      PROVE  req' \in [Requests -> RequestType] /\ \A q \in Requests : Carries(req[q])'
  <2>1. r \in RequestType /\ Carries(r)
    BY <1>4 DEF Legal
  <2>2. req' \in [Requests -> RequestType] /\ \A q \in Requests : Carries(req'[q])
    BY <1>2, <1>4, <2>1
  <2> QED
    BY <1>1, <2>2
<1> QED
  BY <1>3, <1>4, RequestMoves DEF Moved

LEMMA VersionsLeft ==
  ASSUME IInv, [Next]_vars
  PROVE  /\ tokenVersion' \in [Users -> Versions]
         /\ \A u \in Users : tokenVersion'[u] + Cardinality(Bumpers(u)') <= MaxVersion
<1>0. /\ req \in [Requests -> RequestType] /\ tokenVersion \in [Users -> Versions] /\ MaxVersion \in Nat
      /\ \A u \in Users : /\ tokenVersion[u] \in Nat
                          /\ tokenVersion[u] + Cardinality(Bumpers(u)) <= MaxVersion
                          /\ Bumpers(u) \in SUBSET Requests /\ Bumpers(u)' \in SUBSET Requests
  BY Typed, BoundsAssumption DEF IInv, RoomLeft, Bumpers, Versions
<1>1. ASSUME NEW p \in Requests, Bumped(p)
      PROVE  /\ tokenVersion' \in [Users -> Versions]
             /\ \A u \in Users : tokenVersion'[u] + Cardinality(Bumpers(u)') <= MaxVersion
  <2> DEFINE v == req[p].user
  <2>1. v \in Users /\ tokenVersion[v] + 1 \in Versions
    BY <1>1, VersionLeft DEF Bumped
  <2>2. tokenVersion' \in [Users -> Versions]
    BY <1>0, <1>1, <2>1 DEF Bumped
  <2>3. ASSUME NEW u \in Users PROVE tokenVersion'[u] + Cardinality(Bumpers(u)') <= MaxVersion
    <3>1. CASE u = v
      <4>1. p \in Bumpers(u) /\ Bumpers(u)' \subseteq Bumpers(u) \ {p}
        BY <1>1, <3>1 DEF Bumped, Bumpers
      <4>2. /\ Cardinality(Bumpers(u)) \in Nat /\ Cardinality(Bumpers(u)') \in Nat
            /\ Cardinality(Bumpers(u)') <= Cardinality(Bumpers(u)) - 1
        BY <1>0, <4>1, SizeOf
      <4>3. tokenVersion'[u] = tokenVersion[u] + 1
        BY <1>0, <1>1, <3>1 DEF Bumped
      <4> QED
        BY <1>0, <4>2, <4>3
    <3>2. CASE u # v
      <4>1. Bumpers(u)' \subseteq Bumpers(u)
        BY <1>1, <3>2 DEF Bumped, Bumpers
      <4>2. /\ Cardinality(Bumpers(u)) \in Nat /\ Cardinality(Bumpers(u)') \in Nat
            /\ Cardinality(Bumpers(u)') <= Cardinality(Bumpers(u))
        BY <1>0, <1>1, <4>1, SizeOf
      <4>3. tokenVersion'[u] = tokenVersion[u]
        BY <1>0, <1>1, <3>2 DEF Bumped
      <4> QED
        BY <1>0, <4>2, <4>3
    <3> QED
      BY <3>1, <3>2
  <2> QED
    BY <2>2, <2>3
<1>2. ASSUME UNCHANGED tokenVersion, NEW p \in Requests, Moved(p), NEW u \in Users
      PROVE  tokenVersion'[u] + Cardinality(Bumpers(u)') <= MaxVersion
  <2>1. PICK r : Legal(req[p], r) /\ req' = [req EXCEPT ![p] = r]
    BY <1>2 DEF Moved
  <2>2. req'[p] = r /\ \A q \in Requests : q # p => req'[q] = req[q]
    BY <1>0, <2>1
  <2>3. CASE r.at \in Bumping /\ r.user = u /\ req[p].at \notin Bumping
    <3>1. Bumpers(u)' \subseteq Bumpers(u) \cup {p}
      BY <2>2 DEF Bumpers
    <3>2. tokenVersion[u] + Cardinality(Bumpers(u)) < MaxVersion
      BY <2>1, <2>3 DEF Legal, RoomToBump, Bumpers
    <3>3. /\ Cardinality(Bumpers(u)) \in Nat /\ Cardinality(Bumpers(u)') \in Nat
          /\ Cardinality(Bumpers(u)') <= Cardinality(Bumpers(u)) + 1
      BY <1>0, <3>1, SizeOf
    <3> QED
      BY <1>0, <1>2, <3>2, <3>3
  <2>4. CASE ~(r.at \in Bumping /\ r.user = u /\ req[p].at \notin Bumping)
    <3>1. r.at \in Bumping /\ req[p].at \in Bumping => r.user = req[p].user
      BY <2>1 DEF Legal, Bumping
    <3>2. Bumpers(u)' \subseteq Bumpers(u)
      BY <2>2, <2>4, <3>1 DEF Bumpers
    <3>3. /\ Cardinality(Bumpers(u)) \in Nat /\ Cardinality(Bumpers(u)') \in Nat
          /\ Cardinality(Bumpers(u)') <= Cardinality(Bumpers(u))
      BY <1>0, <1>2, <3>2, SizeOf
    <3> QED
      BY <1>0, <1>2, <3>3
  <2> QED
    BY <2>3, <2>4
<1>3. ASSUME UNCHANGED <<tokenVersion, req>>, NEW u \in Users
      PROVE  tokenVersion'[u] + Cardinality(Bumpers(u)') <= MaxVersion
  <2>1. Bumpers(u)' = Bumpers(u)
    BY <1>3 DEF Bumpers
  <2> QED
    BY <1>0, <1>3, <2>1
<1> QED
  BY <1>0, <1>1, <1>2, <1>3, VersionsMove, RequestMoves

LEMMA CodesLeft ==
  ASSUME IInv, [Next]_vars
  PROVE  /\ codes' \in [Users -> 0..MaxCode]
         /\ restore' \in [Users -> [code : 0..MaxCode, used : BOOLEAN, live : BOOLEAN]]
         /\ \A u \in Users : codes'[u] + Cardinality(Storers(u)') <= MaxCode
<1>0. /\ req \in [Requests -> RequestType] /\ codes \in [Users -> 0..MaxCode] /\ MaxCode \in Nat
      /\ \A u \in Users : /\ codes[u] \in Nat
                          /\ codes[u] + Cardinality(Storers(u)) <= MaxCode
                          /\ Storers(u) \in SUBSET Requests /\ Storers(u)' \in SUBSET Requests
  BY Typed, BoundsAssumption DEF IInv, RoomLeft, Storers
<1>1. ASSUME NEW p \in Requests, Stored(p)
      PROVE  /\ codes' \in [Users -> 0..MaxCode]
             /\ restore' \in [Users -> [code : 0..MaxCode, used : BOOLEAN, live : BOOLEAN]]
             /\ \A u \in Users : codes'[u] + Cardinality(Storers(u)') <= MaxCode
  <2> DEFINE v == req[p].user
  <2>1. v \in Users /\ p \in Storers(v)
    BY <1>1 DEF IInv, Carries, Stored, Storers
  <2>2. Cardinality(Storers(v)) \in Nat /\ Cardinality(Storers(v)) >= 1
    <3>1. {} \subseteq Storers(v) \ {p} /\ {} \in SUBSET Requests /\ Cardinality({}) = 0
      BY FS_EmptySet
    <3>2. Cardinality(Storers(v)) \in Nat /\ Cardinality({}) <= Cardinality(Storers(v)) - 1
      BY <1>0, <2>1, <3>1, SizeOf
    <3> QED
      BY <3>1, <3>2
  <2>3. codes[v] + 1 \in 0..MaxCode
    BY <1>0, <2>1, <2>2
  <2>4. codes' \in [Users -> 0..MaxCode]
    BY <1>0, <1>1, <2>1, <2>3 DEF Stored
  <2>5. restore' \in [Users -> [code : 0..MaxCode, used : BOOLEAN, live : BOOLEAN]]
    <3>1. [code |-> codes[v] + 1, used |-> FALSE, live |-> TRUE]
            \in [code : 0..MaxCode, used : BOOLEAN, live : BOOLEAN]
      BY <2>3
    <3> QED
      BY <1>1, <2>1, <3>1, Typed DEF Stored, IInv
  <2>6. ASSUME NEW u \in Users PROVE codes'[u] + Cardinality(Storers(u)') <= MaxCode
    <3>1. CASE u = v
      <4>1. p \in Storers(u) /\ Storers(u)' \subseteq Storers(u) \ {p}
        BY <1>1, <3>1 DEF Stored, Storers
      <4>2. /\ Cardinality(Storers(u)) \in Nat /\ Cardinality(Storers(u)') \in Nat
            /\ Cardinality(Storers(u)') <= Cardinality(Storers(u)) - 1
        BY <1>0, <4>1, SizeOf
      <4>3. codes'[u] = codes[u] + 1
        BY <1>0, <1>1, <3>1 DEF Stored
      <4> QED
        BY <1>0, <4>2, <4>3
    <3>2. CASE u # v
      <4>1. Storers(u)' \subseteq Storers(u)
        BY <1>1, <3>2 DEF Stored, Storers
      <4>2. /\ Cardinality(Storers(u)) \in Nat /\ Cardinality(Storers(u)') \in Nat
            /\ Cardinality(Storers(u)') <= Cardinality(Storers(u))
        BY <1>0, <1>1, <4>1, SizeOf
      <4>3. codes'[u] = codes[u]
        BY <1>0, <1>1, <3>2 DEF Stored
      <4> QED
        BY <1>0, <4>2, <4>3
    <3> QED
      BY <3>1, <3>2
  <2> QED
    BY <2>4, <2>5, <2>6
<1>2. ASSUME UNCHANGED codes, NEW p \in Requests, Moved(p), NEW u \in Users
      PROVE  codes'[u] + Cardinality(Storers(u)') <= MaxCode
  <2>1. PICK r : Legal(req[p], r) /\ req' = [req EXCEPT ![p] = r]
    BY <1>2 DEF Moved
  <2>2. req'[p] = r /\ \A q \in Requests : q # p => req'[q] = req[q]
    BY <1>0, <2>1
  <2>3. CASE r.at = "restoreStore" /\ r.user = u
    <3>1. Storers(u)' \subseteq Storers(u) \cup {p}
      BY <2>2 DEF Storers
    <3>2. codes[u] + Cardinality(Storers(u)) < MaxCode
      BY <2>1, <2>3 DEF Legal, RoomForCode, Storers
    <3>3. /\ Cardinality(Storers(u)) \in Nat /\ Cardinality(Storers(u)') \in Nat
          /\ Cardinality(Storers(u)') <= Cardinality(Storers(u)) + 1
      BY <1>0, <3>1, SizeOf
    <3> QED
      BY <1>0, <1>2, <3>2, <3>3
  <2>4. CASE ~(r.at = "restoreStore" /\ r.user = u)
    <3>1. Storers(u)' \subseteq Storers(u)
      BY <2>2, <2>4 DEF Storers
    <3>2. /\ Cardinality(Storers(u)) \in Nat /\ Cardinality(Storers(u)') \in Nat
          /\ Cardinality(Storers(u)') <= Cardinality(Storers(u))
      BY <1>0, <1>2, <3>1, SizeOf
    <3> QED
      BY <1>0, <1>2, <3>2
  <2> QED
    BY <2>3, <2>4
<1>3. ASSUME UNCHANGED <<codes, req>>, NEW u \in Users
      PROVE  codes'[u] + Cardinality(Storers(u)') <= MaxCode
  <2>1. Storers(u)' = Storers(u)
    BY <1>3 DEF Storers
  <2> QED
    BY <1>0, <1>3, <2>1
<1>4. CASE CodesFade
  BY <1>0, <1>2, <1>3, <1>4, RequestMoves DEF CodesFade
<1> QED
  BY <1>1, <1>4, CodesMove

LEMMA NextIInv == IInv /\ [Next]_vars => IInv'
<1> SUFFICES ASSUME IInv, [Next]_vars PROVE IInv'
  OBVIOUS
<1>1. second' \in 0..MaxSecond
  <2>1. second \in 0..MaxSecond
    BY DEF IInv, TypeOK
  <2>2. ASSUME NEW p \in Requests, Step(p) \/ Arrival(p) \/ Abort(p) PROVE UNCHANGED second
    BY <2>2
    DEF Step, LoginSession, RefreshRotate, RefreshUser, RefreshSession, ReuseFamily, RevokeAll,
        BumpTokenVersion, LogoutRevoke, RestoreStore, ConfirmMatch, ConfirmConsume, ConfirmPassword,
        ConfirmSession, Arrival, RefreshLookup, LogoutFind, LogoutAll, DeleteMe, RestoreFind, LoginFind,
        ConfirmFind, Abort
  <2> QED
    BY <2>1, <2>2, BoundsAssumption DEF Next, vars, Tick, GracePeriodEnds, CodeExpires
<1>2. TypeOK'
  BY <1>1, AccountsMove, VersionsLeft, CodesLeft, IssuedKept, RequestsCarry
  DEF AccountKept, TypeOK, RequestType
<1>3. RoomLeft'
  BY VersionsLeft, CodesLeft DEF RoomLeft
<1> QED
  BY <1>2, <1>3, IssuedKept, RequestsCarry DEF IInv

(* What the requests carry and what the rows hold fit together throughout, *)
(* whatever requests overlap or die.                                       *)
THEOREM Invariance == Spec => []IInv
BY InitIInv, NextIInv, PTL DEF Spec

(* Every variable keeps to its type: the counters of the bumps and of the  *)
(* restore codes stay in range, a request always carries what its next     *)
(* statement reads (for any number of requests).                           *)
THEOREM TypeCorrect == Spec => []TypeOK
<1>1. IInv => TypeOK
  BY DEF IInv
<1> QED
  BY <1>1, Invariance, PTL

-----------------------------------------------------------------------------
(* What no step of any request ever does. *)

(* What moved of the requests, request by request. *)
LEMMA EachMoves ==
  ASSUME IInv, [Next]_vars, NEW p \in Requests
  PROVE  req'[p] = req[p] \/ Legal(req[p], req'[p])
BY RequestMoves, Typed DEF Moved, IInv

LEMMA DeadRows ==
  ASSUME IInv, [Next]_vars, NEW f \in Token, DeadFamily(f), NEW t \in Token
  PROVE  /\ t \in FamilyTokens(f)' <=> t \in FamilyTokens(f)
         /\ t \in FamilyTokens(f) => ~Valid(t)'
<1>0. session \in [Token -> SessionRow] /\ FamiliesOpened
  BY Typed DEF IInv
<1>1. Issued(f)
  BY <1>0 DEF DeadFamily, FamilyTokens, FamiliesOpened
<1>2. CASE Shrinks
  BY <1>2 DEF Shrinks, FamilyTokens, DeadFamily
<1>3. ASSUME NEW p \in Requests, NEW s \in Token, NEW family \in Token, Inserted(p, s, family)
      PROVE  /\ t \in FamilyTokens(f)' <=> t \in FamilyTokens(f)
             /\ t \in FamilyTokens(f) => ~Valid(t)'
  <2>1. family # f
    <3>1. CASE family = s
      BY <1>1, <1>3, <3>1 DEF Inserted
    <3>2. CASE req[p].at = "refreshSession" /\ family = session[req[p].token].family
      <4>1. req[p].token \in Token /\ Issued(req[p].token)
        BY <3>2 DEF IInv, Carries, OfToken
      <4>2. req[p].token \notin FamilyTokens(f)
        BY <3>2 DEF DeadFamily, Rotating
      <4> QED
        BY <3>2, <4>1, <4>2 DEF FamilyTokens
    <3> QED
      BY <1>3, <3>1, <3>2 DEF Inserted
  <2> DEFINE r == [state |-> "valid", family |-> family]
  <2>2. r.state = "valid" /\ r.family = family
    OBVIOUS
  <2>3. session' = [session EXCEPT ![s] = r] /\ ~Issued(s)
    BY <1>3 DEF Inserted
  <2> HIDE DEF r
  <2>4. session'[s] = r /\ \A x \in Token : x # s => session'[x] = session[x]
    BY <1>0, <2>3
  <2> QED
    BY <2>1, <2>2, <2>3, <2>4 DEF FamilyTokens, Issued, Valid, DeadFamily
<1> QED
  BY <1>2, <1>3, SessionsMove DEF Inserts

(* A family of which no token is valid or being rotated stays dead through *)
(* every login, refresh, logout, reset and restore: a stolen refresh token *)
(* is worth nothing once its family was revoked (auth.service.ts refresh). *)
THEOREM FamiliesStayDead == Spec => DeadFamilyStaysDead
<1>1. IInv /\ [Next]_vars => [\A f \in Token : DeadFamily(f) => DeadFamily(f)']_vars
  <2> SUFFICES ASSUME IInv, [Next]_vars, NEW f \in Token, DeadFamily(f)
               PROVE  DeadFamily(f)'
    OBVIOUS
  <2>1. FamilyTokens(f)' = FamilyTokens(f)
    <3>1. FamilyTokens(f) \subseteq Token /\ FamilyTokens(f)' \subseteq Token
      BY DEF FamilyTokens
    <3> QED
      BY <3>1, DeadRows
  <2>2. \A t \in FamilyTokens(f) : ~Valid(t)'
    BY DeadRows DEF FamilyTokens
  <2>3. ASSUME NEW p \in Requests, Rotating(p)' PROVE req'[p].token \notin FamilyTokens(f)
    <3>1. CASE req'[p] = req[p]
      BY <2>3, <3>1 DEF DeadFamily, Rotating
    <3>2. CASE Legal(req[p], req'[p])
      BY <2>3, <3>2 DEF Legal, RotatingStages, DeadFamily, Rotating
    <3> QED
      BY <3>1, <3>2, EachMoves
  <2> QED
    BY <2>1, <2>2, <2>3 DEF DeadFamily
<1> QED
  BY <1>1, Invariance, PTL DEF Spec, DeadFamilyStaysDead

(* Once the requests that passed its status before the deletion are done,  *)
(* no login or refresh opens a session of a deleted account; only a        *)
(* confirmation of a restore starts it again (user.service.ts deleteMe,    *)
(* auth.service.ts confirmRestore).                                        *)
THEOREM DeletedAccountsStayLocked == Spec => DeletedStaysLocked
<1> DEFINE Kept(u) == /\ SessionsOf(u)' \subseteq SessionsOf(u)
                      /\ \/ Locked(u)'
                         \/ \E p \in Requests : Idle(p) /\ req'[p].at = "confirmMatch" /\ req'[p].user = u
<1>1. IInv /\ [Next]_vars => [\A u \in Users : Locked(u) => Kept(u)]_vars
  <2> SUFFICES ASSUME IInv, [Next]_vars, NEW u \in Users, Locked(u)
               PROVE  Kept(u)
    OBVIOUS
  <2>1. SessionsOf(u)' \subseteq SessionsOf(u)
    <3> SUFFICES ASSUME NEW t \in Token, Valid(t)', t.user = u
                 PROVE  Valid(t)
      BY DEF SessionsOf
    <3>1. CASE Shrinks
      BY <3>1 DEF Shrinks
    <3>2. ASSUME NEW p \in Requests, Inserts(p) PROVE Valid(t)
      <4>1. PICK s \in Token, family \in Token : Inserted(p, s, family)
        BY <3>2 DEF Inserts
      <4>2. s.user # u
        BY <3>2, <4>1 DEF Inserts, Inserted, Locked, PastTheChecks
      <4>3. session'[t] = session[t]
        BY <4>1, <4>2, Typed DEF Inserted, IInv
      <4> QED
        BY <4>3 DEF Valid
    <3> QED
      BY <3>1, <3>2, SessionsMove
  <2>2. account'[u].status = "DELETED"
    BY AccountsMove DEF AccountKept, Locked, PastTheChecks
  <2>3. ASSUME NEW p \in Requests, PastTheChecks(p)', req'[p].user = u
        PROVE  Idle(p) /\ req'[p].at = "confirmMatch"
    <3>1. req'[p] # req[p]
      BY <2>3 DEF PastTheChecks, Locked
    <3>2. Legal(req[p], req'[p])
      BY <3>1, EachMoves
    <3>3. req'[p].at \in PastStages /\ req'[p].at # "idle"
      BY <2>3 DEF PastTheChecks, PastStages
    <3>4. req[p].at \in PastStages => req[p].user # u /\ req[p].at # "idle"
      BY DEF Locked, PastTheChecks, PastStages
    <3> QED
      BY <2>3, <3>2, <3>3, <3>4 DEF Legal, Locked, Idle
  <2> QED
    BY <2>1, <2>2, <2>3 DEF Locked
<1> QED
  BY <1>1, Invariance, PTL DEF Spec, DeletedStaysLocked

(* A restore code that was used, replaced or has expired, and that no      *)
(* confirmation has matched yet, opens the account for nobody any more     *)
(* (auth.service.ts verifyAndConsumeRestoreCode).                          *)
THEOREM SpentCodesStaySpent == Spec => SpentCodeStaysSpent
<1>1. IInv /\ [Next]_vars => [\A u \in Users : \A c \in 1..MaxCode : SpentCode(u, c) => SpentCode(u, c)']_vars
  <2> SUFFICES ASSUME IInv, [Next]_vars, NEW u \in Users, NEW c \in 1..MaxCode, SpentCode(u, c)
               PROVE  SpentCode(u, c)'
    OBVIOUS
  <2>0. /\ codes \in [Users -> 0..MaxCode] /\ MaxCode \in Nat
        /\ restore \in [Users -> [code : 0..MaxCode, used : BOOLEAN, live : BOOLEAN]]
    BY Typed, BoundsAssumption DEF IInv
  <2>1. c <= codes'[u] /\ ~CodeUsable(u, c)'
    <3>1. CASE CodesFade
      BY <3>1 DEF CodesFade, SpentCode
    <3>2. ASSUME NEW p \in Requests, Stored(p) PROVE c <= codes'[u] /\ ~CodeUsable(u, c)'
      <4>1. CASE u = req[p].user
        <5>1. codes'[u] = codes[u] + 1 /\ restore'[u].code = codes[u] + 1
          BY <2>0, <3>2, <4>1 DEF Stored
        <5> QED
          BY <2>0, <5>1 DEF SpentCode, CodeUsable
      <4>2. CASE u # req[p].user
        BY <2>0, <3>2, <4>2 DEF Stored, SpentCode, CodeUsable
      <4> QED
        BY <4>1, <4>2
    <3> QED
      BY <3>1, <3>2, CodesMove
  <2>2. ASSUME NEW p \in Requests, req'[p].at = "confirmConsume", req'[p].user = u, req'[p].code = c
        PROVE  FALSE
    <3>1. CASE req'[p] = req[p]
      BY <2>2, <3>1 DEF SpentCode
    <3>2. CASE Legal(req[p], req'[p])
      BY <2>2, <3>2 DEF Legal, SpentCode
    <3> QED
      BY <3>1, <3>2, EachMoves
  <2> QED
    BY <2>1, <2>2 DEF SpentCode
<1> QED
  BY <1>1, Invariance, PTL DEF Spec, SpentCodeStaysSpent

-----------------------------------------------------------------------------
(***************************************************************************)
(* One request at a time, of which every query succeeds: what a handler    *)
(* read at its start still holds at its end.                               *)
(***************************************************************************)
Alone == ~Failures /\ \E p \in Requests : Requests = {p}

(* The stages at which the request carries the current version, at which   *)
(* the sessions of its account are stale, and at which there are none.     *)
Holding == {"loginSession", "refreshSession", "confirmAll", "confirmSession"}
Stale == {"deleteAll", "confirmAll"}
Emptied == {"reuseBump", "confirmSession"}

(* Where the account is active, and where it may have just been deleted.   *)
Active == {"loginSession", "refreshSession", "confirmBump", "confirmAll", "confirmSession"}
Deleting == {"deleteBump", "deleteAll"}
Confirming == {"confirmMatch", "confirmConsume", "confirmPassword"}

Versioned(p) ==
  /\ \A t \in Token : Issued(t) => t.version <= tokenVersion[t.user]
  /\ \A t \in Token : Valid(t) =>
       t.version = tokenVersion[t.user] \/ (req[p].at \in Stale /\ req[p].user = t.user)
  /\ req[p].at \in Holding => req[p].version = tokenVersion[req[p].user]
  /\ req[p].at \in Emptied => \A t \in Token : Valid(t) => t.user # req[p].user

Deleted(p) ==
  /\ \A t \in Token : Issued(t) /\ account[t.user].status = "DELETED" =>
       \/ ~Valid(t) /\ t.version # tokenVersion[t.user]
       \/ req[p].user = t.user /\ req[p].at = "deleteBump"
       \/ req[p].user = t.user /\ req[p].at = "deleteAll" /\ t.version # tokenVersion[t.user]
  /\ req[p].at \in Active => account[req[p].user].status = "ACTIVE"
  /\ req[p].at \in Confirming => (req[p].wasDeleted <=> account[req[p].user].status = "DELETED")

Rotated(p) ==
  /\ OneValidPerFamily
  /\ req[p].at = "refreshRotate" => Valid(req[p].token)
  /\ req[p].at \in {"refreshUser", "refreshSession"} =>
       \A t \in Token : Valid(t) => session[t].family # session[req[p].token].family

AloneInv == IInv /\ \A p \in Requests : Versioned(p) /\ Deleted(p) /\ Rotated(p)

-----------------------------------------------------------------------------

LEMMA GotoFields ==
  ASSUME TypeOK, NEW p \in Requests, NEW stage, Goto(p, stage)
  PROVE  /\ req'[p].at = stage /\ req'[p].user = req[p].user /\ req'[p].token = req[p].token
         /\ req'[p].version = req[p].version /\ req'[p].wasDeleted = req[p].wasDeleted
<1>1. req \in [Requests -> RequestType] /\ req[p] \in RequestType
  BY Typed
<1>2. req'[p] = [req[p] EXCEPT !.at = stage]
  BY <1>1 DEF Goto
<1> QED
  BY <1>1, <1>2 DEF RequestType

LEMMA DoneFields == ASSUME TypeOK, NEW p \in Requests, Done(p) PROVE req'[p].at = "idle"
BY Typed DEF Done, IdleRequest, Request

LEMMA BeginFields ==
  ASSUME TypeOK, NEW p \in Requests, NEW r, Begin(p, r)
  PROVE  req'[p] = r /\ req[p].at = "idle"
BY Typed DEF Begin, Idle

LEMMA RevokeFields ==
  ASSUME TypeOK, NEW S, RevokeSessions(S), NEW t \in Token
  PROVE  Valid(t)' => Valid(t) /\ t \notin S
<1>1. session[t] \in SessionRow
  BY Typed
<1>2. session'[t] = IF t \in S THEN [session[t] EXCEPT !.state = "revoked"] ELSE session[t]
  BY DEF RevokeSessions
<1> QED
  BY <1>1, <1>2 DEF SessionRow, Valid

LEMMA RevokeOneFields ==
  ASSUME TypeOK, NEW t \in Token, RevokeSession(t)
  PROVE  ~Valid(t)'
<1>1. session \in [Token -> SessionRow] /\ session[t] \in SessionRow
  BY Typed
<1>2. session'[t] = [session[t] EXCEPT !.state = "revoked"]
  BY <1>1 DEF RevokeSession
<1> QED
  BY <1>1, <1>2 DEF SessionRow, Valid

(* A step that neither bumps nor inserts nor changes the status of an      *)
(* account, and does not bring its request to a stage that relies on it.   *)
LEMMA CalmAlone ==
  ASSUME AloneInv, NEW p \in Requests, Shrinks, UNCHANGED tokenVersion,
         \A u \in Users : account'[u].status = account[u].status,
         req[p].at \notin Stale \cup Deleting, req'[p].at \notin Stale \cup Holding \cup Emptied \cup Active,
         req'[p].at \in Confirming => req'[p].user \in Users,
         req'[p].at \in Confirming => (req'[p].wasDeleted <=> account[req'[p].user].status = "DELETED"),
         req'[p].at = "refreshRotate" => Valid(req[p].token)',
         req'[p].at = "refreshUser" =>
           \A t \in Token : Valid(t)' => session'[t].family # session'[req'[p].token].family
  PROVE  Versioned(p)' /\ Deleted(p)' /\ Rotated(p)'
<1>0. \A t \in Token : t.user \in Users
  BY DEF Token
<1>1. Versioned(p)'
  BY DEF AloneInv, Versioned, Shrinks
<1>2. Deleted(p)'
  BY <1>0 DEF AloneInv, Deleted, Shrinks, Deleting
<1>3. Rotated(p)'
  BY DEF AloneInv, Rotated, Shrinks, OneValidPerFamily, Holding
<1> QED
  BY <1>1, <1>2, <1>3

(* The clock, and what passes with it. *)
LEMMA ElsewhereAlone ==
  ASSUME AloneInv, NEW p \in Requests, UNCHANGED <<tokenVersion, session, req>>,
         \A u \in Users : account'[u].status = account[u].status
  PROVE  Versioned(p)' /\ Deleted(p)' /\ Rotated(p)'
<1>0. (\A t \in Token : t.user \in Users) /\ (req[p].at # "idle" => req[p].user \in Users)
  BY DEF Token, AloneInv, IInv, Carries
<1>1. \A t \in Token : (Valid(t) <=> Valid(t)') /\ (Issued(t) <=> Issued(t)')
  BY DEF Valid, Issued
<1>2. Versioned(p)'
  BY <1>1 DEF AloneInv, Versioned
<1>3. Deleted(p)'
  BY <1>0, <1>1 DEF AloneInv, Deleted, Active, Confirming
<1>4. Rotated(p)'
  BY <1>1 DEF AloneInv, Rotated, OneValidPerFamily, Valid
<1> QED
  BY <1>2, <1>3, <1>4

LEMMA CreateAlone ==
  ASSUME AloneInv, NEW p \in Requests, NEW t \in Token, NEW family \in Token, Create(t, family),
         req[p].at \in {"loginSession", "refreshSession", "confirmSession"}, t = NewToken(p),
         family = t \/ (req[p].at = "refreshSession" /\ family = session[req[p].token].family),
         UNCHANGED <<account, tokenVersion>>, req'[p].at = "idle"
  PROVE  Versioned(p)' /\ Deleted(p)' /\ Rotated(p)'
<1>0. /\ (\A s \in Token : s.user \in Users) /\ session \in [Token -> SessionRow] /\ TypeOK /\ FamiliesOpened
      /\ \A s \in Token : s.version \in Nat /\ tokenVersion[s.user] \in Nat
  BY Typed, BoundsAssumption DEF Token, AloneInv, IInv, Versions
<1>1. t.user = req[p].user /\ t.version = req[p].version
  BY DEF NewToken
<1>2. t.version = tokenVersion[t.user] /\ account[t.user].status = "ACTIVE"
  BY <1>1 DEF AloneInv, Versioned, Deleted, Holding, Active
<1>3. CASE Issued(t)
  <2>1. Shrinks /\ req[p].at \notin Stale \cup Deleting
    BY <1>0, <1>3, SameShrinks DEF Create, Stale, Deleting
  <2> QED
    BY <2>1, CalmAlone DEF Stale, Holding, Emptied, Active, Confirming
<1>4. CASE ~Issued(t)
  <2> DEFINE r == [state |-> "valid", family |-> family]
  <2>1. r.state = "valid" /\ r.family = family
    OBVIOUS
  <2>2. session' = [session EXCEPT ![t] = r]
    BY <1>4 DEF Create
  <2> HIDE DEF r
  <2>3. session'[t] = r /\ \A s \in Token : s # t => session'[s] = session[s]
    BY <1>0, <2>2
  <2>4. \A s \in Token : (Valid(s)' <=> Valid(s) \/ s = t) /\ (Issued(s)' <=> Issued(s) \/ s = t)
    BY <2>1, <2>3 DEF Valid, Issued
  <2>5. Versioned(p)'
    BY <1>0, <1>2, <2>4 DEF AloneInv, Versioned, Stale, Holding, Emptied
  <2>6. Deleted(p)'
    BY <1>0, <1>2, <2>4 DEF AloneInv, Deleted, Active, Confirming
  <2>7. \A s \in Token : Valid(s) => session[s].family # family
    <3>1. CASE family = t
      BY <1>0, <1>4, <3>1 DEF FamiliesOpened, Valid, Issued
    <3>2. CASE req[p].at = "refreshSession" /\ family = session[req[p].token].family
      BY <3>2 DEF AloneInv, Rotated
    <3> QED
      BY <3>1, <3>2
  <2>8. OneValidPerFamily'
    BY <2>1, <2>3, <2>4, <2>7 DEF AloneInv, Rotated, OneValidPerFamily
  <2> QED
    BY <2>5, <2>6, <2>8 DEF Rotated
<1> QED
  BY <1>3, <1>4

(* A step that leaves the sessions alone, or revokes some, is calm for them*)
LEMMA SameSession ==
  ASSUME IInv, UNCHANGED session
  PROVE  /\ Shrinks
         /\ \A t \in Token : (Valid(t)' <=> Valid(t)) /\ (Issued(t)' <=> Issued(t))
BY SameShrinks DEF IInv, Valid, Issued

LEMMA RefreshUserAlone ==
  ASSUME AloneInv, NEW p \in Requests, RefreshUser(p)
  PROVE  Versioned(p)' /\ Deleted(p)' /\ Rotated(p)'
<1>0. /\ IInv /\ req[p].at = "refreshUser" /\ UNCHANGED <<account, tokenVersion, session>>
      /\ req[p] \in RequestType /\ req[p].user \in Users /\ \A t \in Token : t.user \in Users
  BY Typed DEF AloneInv, IInv, RefreshUser, Carries, Token
<1>1. Shrinks /\ \A t \in Token : (Valid(t)' <=> Valid(t)) /\ (Issued(t)' <=> Issued(t))
  BY <1>0, SameSession
<1>2. CASE Done(p)
  <2>1. req'[p].at = "idle"
    BY <1>0, <1>2, DoneFields DEF IInv
  <2> QED
    BY <1>0, <1>1, <2>1, CalmAlone DEF Stale, Deleting, Holding, Emptied, Active, Confirming
<1>3. CASE /\ account[req[p].user].status = "ACTIVE"
           /\ req' = [req EXCEPT ![p].at = "refreshSession", ![p].version = tokenVersion[req[p].user]]
  <2> DEFINE v == tokenVersion[req[p].user]
             r == [req[p] EXCEPT !.at = "refreshSession", !.version = v]
  <2>1. req' = [req EXCEPT ![p] = r]
    BY <1>3
  <2> HIDE DEF v
  <2>2. r.at = "refreshSession" /\ r.user = req[p].user /\ r.token = req[p].token /\ r.version = v
    BY <1>0 DEF RequestType
  <2>3. req'[p] = r
    BY <1>0, <2>1, Typed DEF IInv
  <2> HIDE DEF r
  <2>4. Versioned(p)'
    BY <1>0, <1>1, <2>2, <2>3 DEF AloneInv, Versioned, Stale, Holding, Emptied, v
  <2>5. Deleted(p)'
    BY <1>0, <1>1, <1>3, <2>2, <2>3 DEF AloneInv, Deleted, Active, Confirming
  <2>6. Rotated(p)'
    BY <1>0, <1>1, <2>2, <2>3 DEF AloneInv, Rotated, OneValidPerFamily
  <2> QED
    BY <2>4, <2>5, <2>6
<1> QED
  BY <1>2, <1>3 DEF RefreshUser

LEMMA LoginFindAlone ==
  ASSUME AloneInv, NEW p \in Requests, NEW u \in Users, NEW password \in Passwords,
         LoginFind(p, u, password)
  PROVE  Versioned(p)' /\ Deleted(p)' /\ Rotated(p)'
<1>0. /\ IInv /\ UNCHANGED <<account, tokenVersion, session>> /\ account[u].status = "ACTIVE"
      /\ \A t \in Token : t.user \in Users
  BY DEF AloneInv, LoginFind, Token
<1>1. \A t \in Token : (Valid(t)' <=> Valid(t)) /\ (Issued(t)' <=> Issued(t))
  BY <1>0, SameSession
<1> DEFINE v == tokenVersion[u]
           r == [Request("loginSession", u) EXCEPT !.version = v]
<1>2. r.at = "loginSession" /\ r.user = u /\ r.version = v
  BY DEF Request
<1>3. Begin(p, r)
  BY DEF LoginFind
<1> HIDE DEF v, r
<1>4. req'[p] = r /\ req[p].at = "idle"
  BY <1>0, <1>3, BeginFields DEF IInv
<1>5. Versioned(p)'
  BY <1>0, <1>1, <1>2, <1>4 DEF AloneInv, Versioned, Stale, Holding, Emptied, v
<1>6. Deleted(p)'
  BY <1>0, <1>1, <1>2, <1>4 DEF AloneInv, Deleted, Active, Confirming
<1>7. Rotated(p)'
  BY <1>0, <1>1, <1>2, <1>4 DEF AloneInv, Rotated, OneValidPerFamily
<1> QED
  BY <1>5, <1>6, <1>7

LEMMA RevokeAllAlone ==
  ASSUME AloneInv, NEW p \in Requests, RevokeAll(p)
  PROVE  Versioned(p)' /\ Deleted(p)' /\ Rotated(p)'
<1> DEFINE u == req[p].user
<1>0. /\ IInv /\ TypeOK /\ UNCHANGED <<account, tokenVersion>> /\ RevokeSessions(SessionsOf(u))
      /\ req[p].at \in {"reuseAll", "deleteAll", "confirmAll"} /\ u \in Users
      /\ \A t \in Token : t.user \in Users
  BY DEF AloneInv, IInv, RevokeAll, Carries, Token
<1>1. Shrinks
  <2>1. \A t \in SessionsOf(u) \cap Token : Issued(t)
    BY DEF SessionsOf, Valid, Issued
  <2> QED
    BY <1>0, <2>1, RevokeShrinks
<1>2. \A t \in Token : Valid(t)' => Valid(t) /\ t.user # u
  BY <1>0, RevokeFields DEF SessionsOf
<1>3. /\ req[p].at = "reuseAll" => req'[p].at = "reuseBump"
      /\ req[p].at = "deleteAll" => req'[p].at = "idle"
      /\ req[p].at = "confirmAll" => req'[p].at = "confirmSession"
      /\ req[p].at # "deleteAll" => req'[p].user = u /\ req'[p].version = req[p].version
  <2>1. CASE req[p].at = "reuseAll"
    BY <1>0, <2>1, GotoFields DEF RevokeAll
  <2>2. CASE req[p].at = "deleteAll"
    BY <1>0, <2>2, DoneFields DEF RevokeAll
  <2>3. CASE req[p].at = "confirmAll"
    BY <1>0, <2>3, GotoFields DEF RevokeAll
  <2> QED
    BY <1>0, <2>1, <2>2, <2>3
<1>4. Versioned(p)'
  BY <1>0, <1>1, <1>2, <1>3 DEF AloneInv, Versioned, Shrinks, Stale, Holding, Emptied
<1>5. Deleted(p)'
  BY <1>0, <1>1, <1>2, <1>3 DEF AloneInv, Deleted, Shrinks, Active, Confirming
<1>6. Rotated(p)'
  BY <1>0, <1>1, <1>3 DEF AloneInv, Rotated, OneValidPerFamily, Shrinks
<1> QED
  BY <1>4, <1>5, <1>6

LEMMA BumpAlone ==
  ASSUME AloneInv, NEW p \in Requests, BumpTokenVersion(p)
  PROVE  Versioned(p)' /\ Deleted(p)' /\ Rotated(p)'
<1> DEFINE u == req[p].user
<1>0. /\ IInv /\ TypeOK /\ UNCHANGED <<account, session>>
      /\ req[p].at \in {"reuseBump", "deleteBump", "confirmBump"} /\ u \in Users
      /\ tokenVersion' = [tokenVersion EXCEPT ![u] = @ + 1]
      /\ req \in [Requests -> RequestType] /\ req[p] \in RequestType
      /\ tokenVersion \in [Users -> Versions]
  BY Typed DEF AloneInv, IInv, BumpTokenVersion, Carries
<1>1. \A t \in Token : t.user \in Users /\ t.version \in Nat /\ tokenVersion[t.user] \in Nat
  BY <1>0, BoundsAssumption DEF Token, Versions
<1>2. \A v \in Users : tokenVersion'[v] = IF v = u THEN tokenVersion[u] + 1 ELSE tokenVersion[v]
  BY <1>0
<1>3. Shrinks /\ \A t \in Token : (Valid(t)' <=> Valid(t)) /\ (Issued(t)' <=> Issued(t))
  BY <1>0, SameSession
<1>4. /\ req[p].at = "reuseBump" => req'[p].at = "idle"
      /\ req[p].at = "deleteBump" => req'[p].at = "deleteAll" /\ req'[p].user = u
      /\ req[p].at = "confirmBump" =>
           req'[p].at = "confirmAll" /\ req'[p].user = u /\ req'[p].version = tokenVersion[u] + 1
  <2>1. CASE req[p].at = "reuseBump"
    BY <1>0, <2>1, DoneFields DEF BumpTokenVersion
  <2>2. CASE req[p].at = "deleteBump"
    BY <1>0, <2>2, GotoFields DEF BumpTokenVersion
  <2>3. CASE req[p].at = "confirmBump"
    <3> DEFINE v == tokenVersion[u] + 1
               r == [req[p] EXCEPT !.at = "confirmAll", !.version = v]
    <3>1. req' = [req EXCEPT ![p] = r]
      BY <2>3 DEF BumpTokenVersion
    <3> HIDE DEF v
    <3>2. req'[p] = r /\ r.at = "confirmAll" /\ r.user = u /\ r.version = v
      BY <1>0, <3>1 DEF RequestType
    <3> HIDE DEF r
    <3> QED
      BY <2>3, <3>2 DEF v
  <2> QED
    BY <1>0, <2>1, <2>2, <2>3
<1>5. Versioned(p)'
  <2>1. \A t \in Token : Issued(t)' => t.version <= tokenVersion'[t.user]
    BY <1>1, <1>2, <1>3 DEF AloneInv, Versioned
  <2>2. ASSUME NEW t \in Token, Valid(t)'
        PROVE  t.version = tokenVersion'[t.user] \/ (req'[p].at \in Stale /\ req'[p].user = t.user)
    BY <1>0, <1>1, <1>2, <1>3, <1>4, <2>2 DEF AloneInv, Versioned, Stale, Emptied
  <2>3. req'[p].at \in Holding => req'[p].version = tokenVersion'[req'[p].user]
    BY <1>0, <1>2, <1>4 DEF Holding
  <2>4. req'[p].at \notin Emptied
    BY <1>0, <1>4 DEF Emptied
  <2> QED
    BY <2>1, <2>2, <2>3, <2>4 DEF Versioned
<1>6. Deleted(p)'
  <2>1. ASSUME NEW t \in Token, Issued(t)', account'[t.user].status = "DELETED"
        PROVE  \/ ~Valid(t)' /\ t.version # tokenVersion'[t.user]
               \/ req'[p].user = t.user /\ req'[p].at = "deleteAll" /\ t.version # tokenVersion'[t.user]
    <3>1. t.user = u => t.version # tokenVersion'[t.user]
      BY <1>1, <1>2, <1>3, <2>1 DEF AloneInv, Versioned
    <3>2. CASE t.user = u /\ req[p].at = "deleteBump"
      BY <1>4, <3>1, <3>2
    <3>3. CASE t.user # u
      BY <1>0, <1>1, <1>2, <1>3, <2>1, <3>3 DEF AloneInv, Deleted
    <3>4. CASE t.user = u /\ req[p].at # "deleteBump"
      BY <1>0, <1>3, <2>1, <3>1, <3>4 DEF AloneInv, Deleted
    <3> QED
      BY <3>2, <3>3, <3>4
  <2>2. req'[p].at \in Active => account'[req'[p].user].status = "ACTIVE"
    BY <1>0, <1>4 DEF AloneInv, Deleted, Active
  <2>3. req'[p].at \notin Confirming
    BY <1>0, <1>4 DEF Confirming
  <2> QED
    BY <2>1, <2>2, <2>3 DEF Deleted
<1>7. Rotated(p)'
  BY <1>0, <1>3, <1>4 DEF AloneInv, Rotated, OneValidPerFamily
<1> QED
  BY <1>5, <1>6, <1>7

LEMMA DeleteMeAlone ==
  ASSUME AloneInv, NEW p \in Requests, NEW u \in Users, DeleteMe(p, u)
  PROVE  Versioned(p)' /\ Deleted(p)' /\ Rotated(p)'
<1>0. /\ IInv /\ UNCHANGED <<tokenVersion, session>>
      /\ Begin(p, Request("deleteBump", u))
      /\ account' = [account EXCEPT ![u].status = "DELETED", ![u].graceOver = FALSE]
      /\ \A t \in Token : t.user \in Users
  BY DEF AloneInv, DeleteMe, Token
<1>1. \A t \in Token : (Valid(t)' <=> Valid(t)) /\ (Issued(t)' <=> Issued(t))
  BY <1>0, SameSession
<1>2. Request("deleteBump", u).at = "deleteBump" /\ Request("deleteBump", u).user = u
  BY Fresh DEF Stages
<1>3. req'[p].at = "deleteBump" /\ req'[p].user = u /\ req[p].at = "idle"
  BY <1>0, <1>2, BeginFields DEF IInv
<1>4. \A v \in Users : v # u => account'[v] = account[v]
  BY <1>0, Typed DEF IInv
<1>5. Versioned(p)'
  BY <1>0, <1>1, <1>3 DEF AloneInv, Versioned, Stale, Holding, Emptied
<1>6. Deleted(p)'
  BY <1>0, <1>1, <1>3, <1>4 DEF AloneInv, Deleted, Active, Confirming
<1>7. Rotated(p)'
  BY <1>0, <1>1, <1>3 DEF AloneInv, Rotated, OneValidPerFamily
<1> QED
  BY <1>5, <1>6, <1>7

LEMMA ConfirmPasswordAlone ==
  ASSUME AloneInv, NEW p \in Requests, ConfirmPassword(p)
  PROVE  Versioned(p)' /\ Deleted(p)' /\ Rotated(p)'
<1> DEFINE u == req[p].user
           r == IF req[p].wasDeleted
                  THEN [status |-> "ACTIVE", password |-> req[p].password, graceOver |-> FALSE]
                  ELSE [status |-> account[u].status, password |-> req[p].password,
                        graceOver |-> account[u].graceOver]
<1>0. /\ IInv /\ TypeOK /\ UNCHANGED <<tokenVersion, session>> /\ Goto(p, "confirmBump")
      /\ req[p].at = "confirmPassword" /\ u \in Users
      /\ account' = [account EXCEPT ![u] = r]
      /\ \A t \in Token : t.user \in Users
  BY DEF AloneInv, IInv, Carries, ConfirmPassword, Token
<1>1. \A t \in Token : (Valid(t)' <=> Valid(t)) /\ (Issued(t)' <=> Issued(t))
  BY <1>0, SameSession
<1>2. req'[p].at = "confirmBump" /\ req'[p].user = u
  BY <1>0, GotoFields
<1>3. account[u].status \in {"ACTIVE", "DELETED"}
  <2>1. account[u] \in [status : {"ACTIVE", "DELETED"}, password : Passwords, graceOver : BOOLEAN]
    BY <1>0, Typed
  <2> QED
    BY <2>1
<1>4. req[p].wasDeleted <=> account[u].status = "DELETED"
  BY <1>0 DEF AloneInv, Deleted, Confirming
<1>5. r.status = "ACTIVE"
  BY <1>3, <1>4
<1> HIDE DEF r
<1>6. account'[u].status = "ACTIVE" /\ \A v \in Users : v # u => account'[v] = account[v]
  BY <1>0, <1>5, Typed
<1>7. Versioned(p)'
  BY <1>0, <1>1, <1>2 DEF AloneInv, Versioned, Stale, Holding, Emptied
<1>8. Deleted(p)'
  BY <1>0, <1>1, <1>2, <1>6 DEF AloneInv, Deleted, Active, Confirming
<1>9. Rotated(p)'
  BY <1>0, <1>1, <1>2 DEF AloneInv, Rotated, OneValidPerFamily
<1> QED
  BY <1>7, <1>8, <1>9

LEMMA ArrivalAlone ==
  ASSUME AloneInv, NEW p \in Requests, Arrival(p)
  PROVE  Versioned(p)' /\ Deleted(p)' /\ Rotated(p)'
<1> USE DEF Stale, Deleting, Holding, Emptied, Active, Confirming
<1>0. IInv /\ TypeOK
  BY DEF AloneInv, IInv
<1>1. ASSUME NEW r, Begin(p, r), r.at \in {"refreshRotate", "reuseFamily", "logoutRevoke", "restoreStore"},
             r.at = "refreshRotate" => Valid(r.token), UNCHANGED <<account, tokenVersion, session>>
      PROVE  Versioned(p)' /\ Deleted(p)' /\ Rotated(p)'
  <2>1. req'[p] = r /\ req[p].at = "idle"
    BY <1>0, <1>1, BeginFields
  <2>2. Shrinks
    BY <1>0, <1>1, SameSession
  <2>3. r.at = "refreshRotate" => Valid(req[p].token)'
    BY <1>1, <2>1 DEF Valid
  <2> HIDE DEF Stale, Deleting, Holding, Emptied, Active, Confirming
  <2>4. /\ req[p].at \notin Stale \cup Deleting
        /\ req'[p].at \notin Stale \cup Holding \cup Emptied \cup Active \cup Confirming \cup {"refreshUser"}
    BY <1>1, <2>1 DEF Stale, Deleting, Holding, Emptied, Active, Confirming
  <2> QED
    BY <1>1, <2>1, <2>2, <2>3, <2>4, CalmAlone
<1>2. ASSUME NEW t \in Token, RefreshLookup(p, t) PROVE Versioned(p)' /\ Deleted(p)' /\ Rotated(p)'
  <2> DEFINE stage == IF Valid(t) THEN "refreshRotate" ELSE "reuseFamily"
             r == [Request(stage, t.user) EXCEPT !.token = t]
  <2>1. r.at = stage /\ r.token = t
    BY DEF Request
  <2>2. Begin(p, r) /\ UNCHANGED <<account, tokenVersion, session>>
    BY <1>2 DEF RefreshLookup
  <2>3. IF Valid(t) THEN stage = "refreshRotate" ELSE stage = "reuseFamily"
    OBVIOUS
  <2> HIDE DEF stage, r
  <2> QED
    BY <1>1, <2>1, <2>2, <2>3
<1>3. ASSUME NEW t \in Token, LogoutFind(p, t) PROVE Versioned(p)' /\ Deleted(p)' /\ Rotated(p)'
  <2> DEFINE r == [Request("logoutRevoke", t.user) EXCEPT !.token = t]
  <2>1. r.at = "logoutRevoke"
    BY DEF Request
  <2>2. Begin(p, r) /\ UNCHANGED <<account, tokenVersion, session>>
    BY <1>3 DEF LogoutFind
  <2> HIDE DEF r
  <2> QED
    BY <1>1, <2>1, <2>2
<1>4. ASSUME NEW u \in Users, LogoutAll(p, u) PROVE Versioned(p)' /\ Deleted(p)' /\ Rotated(p)'
  <2>1. \A t \in SessionsOf(u) \cap Token : Issued(t)
    BY DEF SessionsOf, Valid, Issued
  <2>2. Shrinks /\ req[p].at = "idle" /\ UNCHANGED <<account, tokenVersion, req>>
    BY <1>0, <1>4, <2>1, RevokeShrinks DEF LogoutAll, Idle
  <2> QED
    BY <2>2, CalmAlone
<1>5. ASSUME NEW u \in Users, RestoreFind(p, u) PROVE Versioned(p)' /\ Deleted(p)' /\ Rotated(p)'
  <2>1. Request("restoreStore", u).at = "restoreStore"
    BY Fresh DEF Stages
  <2> QED
    BY <1>1, <1>5, <2>1 DEF RestoreFind
<1>6. ASSUME NEW u \in Users, NEW password \in Passwords, NEW c \in 1..MaxCode, ConfirmFind(p, u, password, c)
      PROVE  Versioned(p)' /\ Deleted(p)' /\ Rotated(p)'
  <2> DEFINE a == Request("confirmMatch", u)
             d == account[u].status = "DELETED"
             r == [a EXCEPT !.password = password, !.code = c, !.wasDeleted = d]
  <2>1. d \in BOOLEAN /\ c \in 0..MaxCode
    BY BoundsAssumption
  <2>2. Begin(p, r) /\ UNCHANGED <<account, tokenVersion, session>>
    BY <1>6 DEF ConfirmFind
  <2>3. a \in RequestType /\ a.at = "confirmMatch" /\ a.user = u
    BY Fresh DEF Stages
  <2>r. r = [a EXCEPT !.password = password, !.code = c, !.wasDeleted = d]
    OBVIOUS
  <2> HIDE DEF a, d, r
  <2>4. r.at = "confirmMatch" /\ r.user = u /\ r.wasDeleted = d
    BY <2>1, <2>3, <2>r DEF RequestType
  <2>5. req'[p] = r /\ req[p].at = "idle"
    BY <1>0, <2>2, BeginFields
  <2>6. req'[p].wasDeleted <=> account[req'[p].user].status = "DELETED"
    BY <2>4, <2>5 DEF d
  <2>7. Shrinks
    BY <1>0, <2>2, SameSession
  <2>8. /\ req[p].at \notin Stale \cup Deleting
        /\ req'[p].at \notin Stale \cup Holding \cup Emptied \cup Active \cup {"refreshRotate", "refreshUser"}
    BY <2>4, <2>5
  <2> HIDE DEF Stale, Deleting, Holding, Emptied, Active, Confirming
  <2> QED
    BY <2>2, <2>4, <2>5, <2>6, <2>7, <2>8, CalmAlone
<1>7. ASSUME NEW u \in Users, DeleteMe(p, u) PROVE Versioned(p)' /\ Deleted(p)' /\ Rotated(p)'
  BY <1>7, DeleteMeAlone
<1>8. ASSUME NEW u \in Users, NEW password \in Passwords, LoginFind(p, u, password)
      PROVE  Versioned(p)' /\ Deleted(p)' /\ Rotated(p)'
  BY <1>8, LoginFindAlone
<1> HIDE DEF Stale, Deleting, Holding, Emptied, Active, Confirming
<1> QED
  BY <1>2, <1>3, <1>4, <1>5, <1>6, <1>7, <1>8 DEF Arrival

(* The steps that go on, or end, and are calm. *)
LEMMA GoesOnAlone ==
  ASSUME AloneInv, NEW p \in Requests,
         \/ RefreshRotate(p) \/ ReuseFamily(p) \/ LogoutRevoke(p) \/ RestoreStore(p)
         \/ ConfirmMatch(p) \/ ConfirmConsume(p)
  PROVE  Versioned(p)' /\ Deleted(p)' /\ Rotated(p)'
<1> USE DEF Stale, Deleting, Holding, Emptied, Active, Confirming
<1>0. IInv /\ TypeOK
  BY DEF AloneInv, IInv
<1>s. Shrinks
  <2>1. [Next]_vars /\ req[p].at \notin {"loginSession", "refreshSession", "confirmSession"}
    BY DEF Next, Step, RefreshRotate, ReuseFamily, LogoutRevoke, RestoreStore, ConfirmMatch, ConfirmConsume
  <2>2. CASE UNCHANGED session
    BY <1>0, <2>2, SameSession
  <2>3. CASE RefreshRotate(p) \/ LogoutRevoke(p)
    <3>1. req[p].token \in Token /\ Issued(req[p].token)
      BY <1>0, <2>3 DEF IInv, Carries, OfToken, RefreshRotate, LogoutRevoke
    <3> QED
      BY <1>0, <2>3, <3>1, RevokeOneShrinks DEF RefreshRotate, LogoutRevoke
  <2>4. CASE ReuseFamily(p)
    <3> DEFINE S == SessionsIn(session[req[p].token].family)
    <3>1. \A t \in S \cap Token : Issued(t)
      BY DEF SessionsIn, Valid, Issued
    <3>2. RevokeSessions(S)
      BY <2>4 DEF ReuseFamily
    <3> HIDE DEF S
    <3> QED
      BY <1>0, <3>1, <3>2, RevokeShrinks
  <2> QED
    BY <2>2, <2>3, <2>4 DEF RestoreStore, ConfirmMatch, ConfirmConsume
<1>1. CASE LogoutRevoke(p) \/ RestoreStore(p)
  <2>1. /\ req'[p].at = "idle" /\ req[p].at \notin Stale \cup Deleting
        /\ UNCHANGED <<account, tokenVersion>>
    BY <1>0, <1>1, DoneFields DEF LogoutRevoke, RestoreStore
  <2> QED
    BY <1>s, <2>1, CalmAlone
<1>2. CASE ReuseFamily(p)
  <2>1. /\ req'[p].at = "reuseAll" /\ req[p].at \notin Stale \cup Deleting
        /\ UNCHANGED <<account, tokenVersion>>
    BY <1>0, <1>2, GotoFields DEF ReuseFamily
  <2> QED
    BY <1>s, <2>1, CalmAlone
<1>3. CASE RefreshRotate(p)
  <2>0. req[p].token \in Token /\ Valid(req[p].token)
    BY <1>0, <1>3 DEF AloneInv, Rotated, IInv, Carries, OfToken, RefreshRotate
  <2>k. PICK k \in Token : k = req[p].token
    BY <2>0
  <2>1. /\ req'[p].at = "refreshUser" /\ req'[p].token = k /\ req[p].at = "refreshRotate"
        /\ UNCHANGED <<account, tokenVersion>> /\ RevokeSession(k)
    BY <1>0, <1>3, <2>k, GotoFields DEF RefreshRotate
  <2>2. Valid(k)
    BY <2>0, <2>k
  <2>3. ~Valid(k)'
    BY <1>0, <2>1, <2>2, RevokeOneFields
  <2>4. \A t \in Token : Valid(t)' => session'[t].family # session'[k].family
    <3>1. \A t \in Token : Valid(t) /\ session[t].family = session[k].family => t = k
      BY <2>2 DEF AloneInv, Rotated, OneValidPerFamily
    <3> QED
      BY <1>s, <2>2, <2>3, <3>1 DEF Shrinks
  <2>5. /\ req[p].at \notin Stale \cup Deleting
        /\ req'[p].at \notin Stale \cup Holding \cup Emptied \cup Active \cup Confirming \cup {"refreshRotate"}
    BY <2>1
  <2> HIDE DEF Stale, Deleting, Holding, Emptied, Active, Confirming
  <2> QED
    BY <1>s, <2>1, <2>4, <2>5, CalmAlone
<1>4. CASE ConfirmMatch(p) \/ ConfirmConsume(p)
  <2>1. /\ req[p].at \in {"confirmMatch", "confirmConsume"} /\ UNCHANGED <<account, tokenVersion>>
        /\ \/ req'[p].at = "idle"
           \/ /\ req'[p].at \in {"confirmConsume", "confirmPassword"}
              /\ req'[p].user = req[p].user /\ req'[p].wasDeleted = req[p].wasDeleted
    BY <1>0, <1>4, GotoFields, DoneFields DEF ConfirmMatch, ConfirmConsume
  <2>2. req[p].user \in Users /\ (req[p].wasDeleted <=> account[req[p].user].status = "DELETED")
    BY <1>0, <2>1 DEF AloneInv, Deleted, IInv, Carries
  <2>3. /\ req[p].at \notin Stale \cup Deleting
        /\ req'[p].at \notin Stale \cup Holding \cup Emptied \cup Active \cup {"refreshRotate", "refreshUser"}
    BY <2>1
  <2>4. req'[p].at \in Confirming =>
          req'[p].user \in Users /\ (req'[p].wasDeleted <=> account[req'[p].user].status = "DELETED")
    BY <2>1, <2>2
  <2> HIDE DEF Stale, Deleting, Holding, Emptied, Active, Confirming
  <2> QED
    BY <1>s, <2>1, <2>3, <2>4, CalmAlone
<1> HIDE DEF Stale, Deleting, Holding, Emptied, Active, Confirming
<1> QED
  BY <1>1, <1>2, <1>3, <1>4

LEMMA InsertsAlone ==
  ASSUME AloneInv, NEW p \in Requests, LoginSession(p) \/ RefreshSession(p) \/ ConfirmSession(p)
  PROVE  Versioned(p)' /\ Deleted(p)' /\ Rotated(p)'
<1>0. IInv /\ TypeOK
  BY DEF AloneInv, IInv
<1>1. /\ req[p].at \in {"loginSession", "refreshSession", "confirmSession"}
      /\ UNCHANGED <<account, tokenVersion>> /\ req'[p].at = "idle"
  BY <1>0, DoneFields DEF LoginSession, RefreshSession, ConfirmSession
<1>2. NewToken(p) \in Token
  BY <1>0, <1>1, NewTokenTyped
<1>3. CASE LoginSession(p) \/ ConfirmSession(p)
  BY <1>1, <1>2, <1>3, CreateAlone DEF LoginSession, ConfirmSession
<1>4. CASE RefreshSession(p)
  <2>1. req[p].token \in Token
    BY <1>0, <1>4 DEF IInv, Carries, OfToken, RefreshSession
  <2>2. session[req[p].token] \in SessionRow
    BY <1>0, <2>1, Typed
  <2>3. session[req[p].token].family \in Token
    BY <2>2 DEF SessionRow
  <2> QED
    BY <1>1, <1>2, <1>4, <2>3, CreateAlone DEF RefreshSession
<1> QED
  BY <1>3, <1>4

LEMMA ElsewhereSteps ==
  ASSUME AloneInv, NEW p \in Requests,
         \/ Tick \/ UNCHANGED vars
         \/ \E u \in Users : GracePeriodEnds(u) \/ CodeExpires(u)
  PROVE  Versioned(p)' /\ Deleted(p)' /\ Rotated(p)'
<1>1. UNCHANGED <<tokenVersion, session, req>>
  BY DEF Tick, vars, GracePeriodEnds, CodeExpires
<1>2. \A u \in Users : account'[u].status = account[u].status
  <2>1. ASSUME NEW w \in Users, GracePeriodEnds(w)
        PROVE  \A u \in Users : account'[u].status = account[u].status
    <3>1. account \in [Users -> [status : {"ACTIVE", "DELETED"}, password : Passwords, graceOver : BOOLEAN]]
      BY Typed DEF AloneInv, IInv
    <3> QED
      BY <2>1, <3>1 DEF GracePeriodEnds
  <2> QED
    BY <2>1 DEF Tick, vars, CodeExpires
<1> QED
  BY <1>1, <1>2, ElsewhereAlone

LEMMA AloneInvariance == ASSUME Alone PROVE Spec => []AloneInv
<1>1. Init => AloneInv
  <2> SUFFICES ASSUME Init, NEW p \in Requests PROVE Versioned(p) /\ Deleted(p) /\ Rotated(p)
    BY InitIInv DEF AloneInv
  <2>1. (\A t \in Token : ~Issued(t) /\ ~Valid(t)) /\ req[p].at = "idle"
    BY DEF Init, Issued, Valid, IdleRequest, Request
  <2> QED
    BY <2>1 DEF Versioned, Deleted, Rotated, OneValidPerFamily, Holding, Emptied, Active, Confirming
<1>2. AloneInv /\ [Next]_vars => AloneInv'
  <2> SUFFICES ASSUME AloneInv, [Next]_vars PROVE AloneInv'
    OBVIOUS
  <2>1. IInv'
    BY NextIInv DEF AloneInv
  <2>2. PICK p \in Requests : Requests = {p}
    BY DEF Alone
  <2>3. ASSUME Step(p) PROVE Versioned(p)' /\ Deleted(p)' /\ Rotated(p)'
    BY <2>3, RefreshUserAlone, RevokeAllAlone, BumpAlone, ConfirmPasswordAlone, GoesOnAlone, InsertsAlone DEF Step
  <2>4. ~Abort(p)
    BY DEF Alone, Abort
  <2>5. Versioned(p)' /\ Deleted(p)' /\ Rotated(p)'
    BY <2>2, <2>3, <2>4, ArrivalAlone, ElsewhereSteps DEF Next
  <2> QED
    BY <2>1, <2>2, <2>5 DEF AloneInv
<1> QED
  BY <1>1, <1>2, PTL DEF Spec

(* Whatever a single client does in sequence, no session outlives a        *)
(* password reset, a deletion or a detected reuse: between two requests    *)
(* every valid session is of the account's current version.                *)
THEOREM SessionsStayCurrent == ASSUME Alone PROVE Spec => []SessionsAreCurrent
<1>1. AloneInv => SessionsAreCurrent
  BY DEF Alone, AloneInv, Versioned, SessionsAreCurrent, Quiet, Idle, Stale
<1> QED
  BY <1>1, AloneInvariance, PTL

(* ... and a deleted account has no session left, and no token of its      *)
(* current version.                                                        *)
THEOREM DeletionLogsOut == ASSUME Alone PROVE Spec => []LoggedOutEverywhere
<1>1. AloneInv => LoggedOutEverywhere
  BY DEF Alone, AloneInv, Deleted, LoggedOutEverywhere, Quiet, Idle
<1> QED
  BY <1>1, AloneInvariance, PTL

(* ... and, even within a request, a family has at most one valid token:   *)
(* a refresh replaces the token that was presented.                        *)
THEOREM RotationReplaces == ASSUME Alone PROVE Spec => []OneValidPerFamily
<1>1. AloneInv => OneValidPerFamily
  BY DEF Alone, AloneInv, Rotated
<1> QED
  BY <1>1, AloneInvariance, PTL

=============================================================================
