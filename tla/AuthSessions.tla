---------------------------- MODULE AuthSessions ----------------------------
(***************************************************************************)
(* Sessions of the user service: login, refresh with rotation and reuse    *)
(* detection, logout, deleteMe and the restore flow (services/             *)
(* auth.service.ts, services/user.service.ts), over the users and          *)
(* user_sessions tables (repositories/*.ts).                               *)
(*                                                                         *)
(* No handler runs in a transaction.  A request is cut at every await that *)
(* reads or writes what another request can change, and between two of its *)
(* steps any other request may run, or the process may die (Failures).     *)
(*                                                                         *)
(* A refresh token is a JWT without a jti: the account, the tokenVersion   *)
(* and the second it was signed in determine it (role and email do not     *)
(* change here).  A session row is found by the hash of its token, which   *)
(* is unique in the table, so the rows are a function of the tokens.  An   *)
(* expired token is one that nobody presents any more: verifyRefreshToken  *)
(* and findValidByRefreshTokenHash refuse it before anything is written.   *)
(*                                                                         *)
(* The write-through of a bumped tokenVersion to Redis, and how long       *)
(* authenticate honours an old one, are the subject of TokenVersion; here  *)
(* a caller of an authenticated endpoint holds some token of the account.  *)
(***************************************************************************)
EXTENDS Integers, FiniteSets

CONSTANTS
  Users,        \* the accounts, one per email
  None,         \* the account, token or password of a request that has none
  Requests,     \* slots for HTTP requests in flight
  Passwords,    \* what users type
  MaxVersion,   \* bound on the number of bumps of one account
  MaxSecond,    \* bound on the clock tokens are dated with
  MaxCode,      \* bound on the restore codes generated for one account
  Failures      \* whether a query may throw, or the process die

ASSUME NoneAssumption == None \notin Users \cup Passwords
ASSUME BoundsAssumption == MaxVersion \in Nat /\ MaxSecond \in Nat /\ MaxCode \in Nat
ASSUME FailuresAssumption == Failures \in BOOLEAN
ASSUME RequestsAssumption == IsFiniteSet(Requests)

VARIABLES
  account,      \* status, password and grace period of the users row
  tokenVersion, \* users.tokenVersion
  restore,      \* restoreCodeHash, restoreCodeUsed, restoreCodeExpiresAt
  codes,        \* how many restore codes were generated for an account
  session,      \* user_sessions, by refresh token
  second,       \* the clock of jwt.sign
  req           \* the requests in flight

vars == <<account, tokenVersion, restore, codes, session, second, req>>

Versions == 0..MaxVersion
Token == [user : Users, version : Versions, iat : 0..MaxSecond]

(* A row that does not exist carries the family a new login would give it: *)
(* familyId is a fresh UUID, and so is the token that opens a family.      *)
SessionRow == [state : {"none", "valid", "revoked"}, family : Token]

NoCode == [code |-> 0, used |-> TRUE, live |-> FALSE]

(* The next thing a request does.                                          *)
Stages == {"idle", "loginSession",
           "refreshRotate", "refreshUser", "refreshSession",
           "reuseFamily", "reuseAll", "reuseBump",
           "logoutRevoke",
           "deleteBump", "deleteAll",
           "restoreStore",
           "confirmMatch", "confirmConsume", "confirmPassword",
           "confirmBump", "confirmAll", "confirmSession"}

Request(at, u) ==
  [at |-> at, user |-> u, token |-> None, version |-> 0, password |-> None, code |-> 0,
   wasDeleted |-> FALSE]

IdleRequest == Request("idle", None)

Idle(p) == req[p].at = "idle"
Begin(p, r) == Idle(p) /\ req' = [req EXCEPT ![p] = r]
Goto(p, stage) == req' = [req EXCEPT ![p].at = stage]
Done(p) == req' = [req EXCEPT ![p] = IdleRequest]

Init ==
  /\ account \in [Users -> [status : {"ACTIVE"}, password : Passwords, graceOver : {FALSE}]]
  /\ tokenVersion = [u \in Users |-> 0]
  /\ restore = [u \in Users |-> NoCode]
  /\ codes = [u \in Users |-> 0]
  /\ session = [t \in Token |-> [state |-> "none", family |-> t]]
  /\ second = 0
  /\ req = [p \in Requests |-> IdleRequest]

(***************************************************************************)
(* The bounds: a handler that would bump a version, or generate a code,    *)
(* starts only while the account has one left.                             *)
(***************************************************************************)
Bumping == {"reuseFamily", "reuseAll", "reuseBump", "deleteBump",
            "confirmMatch", "confirmConsume", "confirmPassword", "confirmBump"}

RoomToBump(u) ==
  tokenVersion[u] + Cardinality({p \in Requests : req[p].at \in Bumping /\ req[p].user = u}) < MaxVersion

RoomForCode(u) ==
  codes[u] + Cardinality({p \in Requests : req[p].at = "restoreStore" /\ req[p].user = u}) < MaxCode

(***************************************************************************)
(* sessionRepository                                                       *)
(***************************************************************************)
Issued(t) == session[t].state # "none"
Valid(t) == session[t].state = "valid"

(* Sign a refresh token for the request's account and version, and insert  *)
(* its row: refreshTokenHash is unique, so a token that was issued before  *)
(* makes the insert throw.                                                 *)
NewToken(p) == [user |-> req[p].user, version |-> req[p].version, iat |-> second]

Create(t, family) ==
  session' = IF Issued(t) THEN session
             ELSE [session EXCEPT ![t] = [state |-> "valid", family |-> family]]

RevokeSession(t) == session' = [session EXCEPT ![t].state = "revoked"]

SessionsOf(u) == {t \in Token : Valid(t) /\ t.user = u}
SessionsIn(family) == {t \in Token : Valid(t) /\ session[t].family = family}

RevokeSessions(S) ==
  session' = [t \in Token |-> IF t \in S THEN [session[t] EXCEPT !.state = "revoked"] ELSE session[t]]

(***************************************************************************)
(* login                                                                   *)
(***************************************************************************)
LoginFind(p, u, password) ==
  /\ account[u].status = "ACTIVE" /\ account[u].password = password
  /\ Begin(p, [Request("loginSession", u) EXCEPT !.version = tokenVersion[u]])
  /\ UNCHANGED <<account, tokenVersion, restore, codes, session, second>>

LoginSession(p) ==
  /\ req[p].at = "loginSession"
  /\ Create(NewToken(p), NewToken(p))
  /\ Done(p)
  /\ UNCHANGED <<account, tokenVersion, restore, codes, second>>

(***************************************************************************)
(* refresh                                                                 *)
(***************************************************************************)
(* Mutant: a revoked token is rotated like a valid one. *)
RefreshLookupUnchecked(p, t) ==
  /\ Issued(t)
  /\ Begin(p, [Request("refreshRotate", t.user) EXCEPT !.token = t])
  /\ UNCHANGED <<account, tokenVersion, restore, codes, session, second>>

RefreshLookup(p, t) ==
  /\ Issued(t)
  /\ Valid(t) \/ RoomToBump(t.user)
  /\ LET stage == IF Valid(t) THEN "refreshRotate" ELSE "reuseFamily"
     IN  Begin(p, [Request(stage, t.user) EXCEPT !.token = t])
  /\ UNCHANGED <<account, tokenVersion, restore, codes, session, second>>

(* Mutant: the session that is rotated stays valid. *)
RefreshRotateKeeps(p) ==
  /\ req[p].at = "refreshRotate"
  /\ Goto(p, "refreshUser")
  /\ UNCHANGED <<account, tokenVersion, restore, codes, session, second>>

RefreshRotate(p) ==
  /\ req[p].at = "refreshRotate"
  /\ RevokeSession(req[p].token)
  /\ Goto(p, "refreshUser")
  /\ UNCHANGED <<account, tokenVersion, restore, codes, second>>

(* Mutant: the status of the account is not looked at. *)
RefreshUserUnchecked(p) ==
  /\ req[p].at = "refreshUser"
  /\ req' = [req EXCEPT ![p].at = "refreshSession", ![p].version = tokenVersion[req[p].user]]
  /\ UNCHANGED <<account, tokenVersion, restore, codes, session, second>>

(* Mutant: the tokens are signed for the version after the current one. *)
RefreshUserAhead(p) ==
  /\ req[p].at = "refreshUser"
  /\ req' = [req EXCEPT ![p].at = "refreshSession", ![p].version = tokenVersion[req[p].user] + 1]
  /\ UNCHANGED <<account, tokenVersion, restore, codes, session, second>>

RefreshUser(p) ==
  /\ req[p].at = "refreshUser"
  /\ IF account[req[p].user].status = "ACTIVE"
       THEN req' = [req EXCEPT ![p].at = "refreshSession",
                               ![p].version = tokenVersion[req[p].user]]
       ELSE Done(p)
  /\ UNCHANGED <<account, tokenVersion, restore, codes, session, second>>

RefreshSession(p) ==
  /\ req[p].at = "refreshSession"
  /\ Create(NewToken(p), session[req[p].token].family)
  /\ Done(p)
  /\ UNCHANGED <<account, tokenVersion, restore, codes, second>>

(* A revoked token was presented: its family is revoked, then (RevokeAll)  *)
(* every session of the account, then the version is bumped.               *)
ReuseFamily(p) ==
  /\ req[p].at = "reuseFamily"
  /\ RevokeSessions(SessionsIn(session[req[p].token].family))
  /\ Goto(p, "reuseAll")
  /\ UNCHANGED <<account, tokenVersion, restore, codes, second>>

(***************************************************************************)
(* Steps that several handlers share, and where each goes on.              *)
(***************************************************************************)
(* Mutant: a password reset keeps the other sessions. *)
RevokeAllButReset(p) ==
  /\ req[p].at \in {"reuseAll", "deleteAll", "confirmAll"}
  /\ RevokeSessions(IF req[p].at = "confirmAll" THEN {} ELSE SessionsOf(req[p].user))
  /\ CASE req[p].at = "reuseAll"   -> Goto(p, "reuseBump")
       [] req[p].at = "deleteAll"  -> Done(p)
       [] req[p].at = "confirmAll" -> Goto(p, "confirmSession")
  /\ UNCHANGED <<account, tokenVersion, restore, codes, second>>

RevokeAll(p) ==
  /\ req[p].at \in {"reuseAll", "deleteAll", "confirmAll"}
  /\ RevokeSessions(SessionsOf(req[p].user))
  /\ CASE req[p].at = "reuseAll"   -> Goto(p, "reuseBump")
       [] req[p].at = "deleteAll"  -> Done(p)
       [] req[p].at = "confirmAll" -> Goto(p, "confirmSession")
  /\ UNCHANGED <<account, tokenVersion, restore, codes, second>>

(* Mutant: deleteMe ends with the bump and leaves the sessions. *)
BumpEndsDelete(p) ==
  LET u == req[p].user IN
  /\ req[p].at \in {"reuseBump", "deleteBump", "confirmBump"}
  /\ tokenVersion' = [tokenVersion EXCEPT ![u] = @ + 1]
  /\ IF req[p].at = "confirmBump"
       THEN req' = [req EXCEPT ![p].at = "confirmAll", ![p].version = tokenVersion[u] + 1]
       ELSE Done(p)
  /\ UNCHANGED <<account, restore, codes, session, second>>

BumpTokenVersion(p) ==
  LET u == req[p].user IN
  /\ req[p].at \in {"reuseBump", "deleteBump", "confirmBump"}
  /\ tokenVersion' = [tokenVersion EXCEPT ![u] = @ + 1]
  /\ CASE req[p].at = "reuseBump"   -> Done(p)
       [] req[p].at = "deleteBump"  -> Goto(p, "deleteAll")
       [] req[p].at = "confirmBump" ->
            req' = [req EXCEPT ![p].at = "confirmAll", ![p].version = tokenVersion[u] + 1]
  /\ UNCHANGED <<account, restore, codes, session, second>>

(***************************************************************************)
(* logout, of every session or of one of the caller's own                  *)
(***************************************************************************)
SignedIn(u) == \E t \in Token : t.user = u /\ Issued(t)

LogoutAll(p, u) ==
  /\ Idle(p) /\ SignedIn(u)
  /\ RevokeSessions(SessionsOf(u))
  /\ UNCHANGED <<account, tokenVersion, restore, codes, second, req>>

LogoutFind(p, t) ==
  /\ Valid(t)
  /\ Begin(p, [Request("logoutRevoke", t.user) EXCEPT !.token = t])
  /\ UNCHANGED <<account, tokenVersion, restore, codes, session, second>>

LogoutRevoke(p) ==
  /\ req[p].at = "logoutRevoke"
  /\ RevokeSession(req[p].token)
  /\ Done(p)
  /\ UNCHANGED <<account, tokenVersion, restore, codes, second>>

(***************************************************************************)
(* deleteMe: soft delete, then bump, then revoke                           *)
(***************************************************************************)
DeleteMe(p, u) ==
  /\ SignedIn(u) /\ RoomToBump(u)
  /\ account' = [account EXCEPT ![u].status = "DELETED", ![u].graceOver = FALSE]
  /\ Begin(p, Request("deleteBump", u))
  /\ UNCHANGED <<tokenVersion, restore, codes, session, second>>

(* gracePeriodEnd passes. *)
GracePeriodEnds(u) ==
  /\ account[u].status = "DELETED" /\ ~account[u].graceOver
  /\ account' = [account EXCEPT ![u].graceOver = TRUE]
  /\ UNCHANGED <<tokenVersion, restore, codes, session, second, req>>

(***************************************************************************)
(* requestRestore and confirmRestore: of a deleted account within its      *)
(* grace period, or of an active one whose password was forgotten          *)
(***************************************************************************)
Restorable(u) == account[u].status = "DELETED" => ~account[u].graceOver

RestoreFind(p, u) ==
  /\ Restorable(u) /\ RoomForCode(u)
  /\ Begin(p, Request("restoreStore", u))
  /\ UNCHANGED <<account, tokenVersion, restore, codes, session, second>>

RestoreStore(p) ==
  LET u == req[p].user IN
  /\ req[p].at = "restoreStore"
  /\ codes' = [codes EXCEPT ![u] = @ + 1]
  /\ restore' = [restore EXCEPT ![u] = [code |-> codes[u] + 1, used |-> FALSE, live |-> TRUE]]
  /\ Done(p)
  /\ UNCHANGED <<account, tokenVersion, session, second>>

(* restoreCodeExpiresAt passes. *)
CodeExpires(u) ==
  /\ restore[u].live
  /\ restore' = [restore EXCEPT ![u].live = FALSE]
  /\ UNCHANGED <<account, tokenVersion, codes, session, second, req>>

ConfirmFind(p, u, password, c) ==
  /\ Restorable(u) /\ RoomToBump(u) /\ c \in 1..codes[u]
  /\ Begin(p, [Request("confirmMatch", u) EXCEPT
                 !.password = password, !.code = c,
                 !.wasDeleted = account[u].status = "DELETED"])
  /\ UNCHANGED <<account, tokenVersion, restore, codes, session, second>>

(* verifyAndConsumeRestoreCode: a findFirst, and an update by id. *)
CodeUsable(u, c) == restore[u].code = c /\ ~restore[u].used /\ restore[u].live

(* Mutant: restoreCodeUsed is not part of the query. *)
ConfirmMatchUsed(p) ==
  /\ req[p].at = "confirmMatch"
  /\ IF restore[req[p].user].code = req[p].code /\ restore[req[p].user].live
       THEN Goto(p, "confirmConsume") ELSE Done(p)
  /\ UNCHANGED <<account, tokenVersion, restore, codes, session, second>>

ConfirmMatch(p) ==
  /\ req[p].at = "confirmMatch"
  /\ IF CodeUsable(req[p].user, req[p].code) THEN Goto(p, "confirmConsume") ELSE Done(p)
  /\ UNCHANGED <<account, tokenVersion, restore, codes, session, second>>

ConfirmConsume(p) ==
  /\ req[p].at = "confirmConsume"
  /\ restore' = [restore EXCEPT ![req[p].user].used = TRUE]
  /\ Goto(p, "confirmPassword")
  /\ UNCHANGED <<account, tokenVersion, codes, session, second>>

(* restoreAccount, or the update of an active account: which of the two is *)
(* decided by the row as it was read at the start.                         *)
ConfirmPassword(p) ==
  LET u == req[p].user
      a == account[u]
  IN
  /\ req[p].at = "confirmPassword"
  /\ account' = [account EXCEPT ![u] =
        IF req[p].wasDeleted
          THEN [status |-> "ACTIVE", password |-> req[p].password, graceOver |-> FALSE]
          ELSE [status |-> a.status, password |-> req[p].password, graceOver |-> a.graceOver]]
  /\ restore' = [restore EXCEPT ![u] = NoCode]
  /\ Goto(p, "confirmBump")
  /\ UNCHANGED <<tokenVersion, codes, session, second>>

ConfirmSession(p) ==
  /\ req[p].at = "confirmSession"
  /\ Create(NewToken(p), NewToken(p))
  /\ Done(p)
  /\ UNCHANGED <<account, tokenVersion, restore, codes, second>>

-----------------------------------------------------------------------------

(* A query throws, or the process dies: what was committed stays.          *)
Abort(p) ==
  /\ Failures /\ ~Idle(p)
  /\ Done(p)
  /\ UNCHANGED <<account, tokenVersion, restore, codes, session, second>>

Tick ==
  /\ second < MaxSecond
  /\ second' = second + 1
  /\ UNCHANGED <<account, tokenVersion, restore, codes, session, req>>

Step(p) ==
  \/ LoginSession(p)
  \/ RefreshRotate(p) \/ RefreshUser(p) \/ RefreshSession(p) \/ ReuseFamily(p)
  \/ RevokeAll(p) \/ BumpTokenVersion(p) \/ LogoutRevoke(p)
  \/ RestoreStore(p)
  \/ ConfirmMatch(p) \/ ConfirmConsume(p) \/ ConfirmPassword(p) \/ ConfirmSession(p)

Arrival(p) ==
  \/ \E t \in Token : RefreshLookup(p, t) \/ LogoutFind(p, t)
  \/ \E u \in Users :
       \/ LogoutAll(p, u) \/ DeleteMe(p, u) \/ RestoreFind(p, u)
       \/ \E password \in Passwords :
            \/ LoginFind(p, u, password)
            \/ \E c \in 1..MaxCode : ConfirmFind(p, u, password, c)

Next ==
  \/ Tick
  \/ \E u \in Users : GracePeriodEnds(u) \/ CodeExpires(u)
  \/ \E p \in Requests : Step(p) \/ Arrival(p) \/ Abort(p)

Spec == Init /\ [][Next]_vars

-----------------------------------------------------------------------------

TypeOK ==
  /\ account \in [Users -> [status : {"ACTIVE", "DELETED"}, password : Passwords, graceOver : BOOLEAN]]
  /\ tokenVersion \in [Users -> Versions]
  /\ restore \in [Users -> [code : 0..MaxCode, used : BOOLEAN, live : BOOLEAN]]
  /\ codes \in [Users -> 0..MaxCode]
  /\ session \in [Token -> SessionRow]
  /\ second \in 0..MaxSecond
  /\ req \in [Requests -> [at : Stages, user : Users \cup {None}, token : Token \cup {None},
                           version : Versions, password : Passwords \cup {None},
                           code : 0..MaxCode, wasDeleted : BOOLEAN]]

(* Rotation ends: a family none of whose tokens is valid, and none of      *)
(* whose tokens is being rotated, never gets a valid token again, whatever *)
(* becomes of the account.  (A stolen token is worth nothing from then on.) *)
FamilyTokens(f) == {t \in Token : Issued(t) /\ session[t].family = f}

Rotating(p) == req[p].at \in {"refreshRotate", "refreshUser", "refreshSession"}

DeadFamily(f) ==
  /\ FamilyTokens(f) # {}
  /\ \A t \in FamilyTokens(f) : ~Valid(t)
  /\ \A p \in Requests : Rotating(p) => req[p].token \notin FamilyTokens(f)

DeadFamilyStaysDead == [][\A f \in Token : DeadFamily(f) => DeadFamily(f)']_vars

(* A deleted account is locked once the requests that got past its status  *)
(* or its restore code before the deletion are done: no session of it      *)
(* becomes valid until someone starts to confirm a restore.                *)
PastTheChecks(p) ==
  req[p].at \in {"loginSession", "refreshSession", "confirmMatch", "confirmConsume",
                 "confirmPassword", "confirmBump", "confirmAll", "confirmSession"}

Locked(u) ==
  /\ account[u].status = "DELETED"
  /\ \A p \in Requests : PastTheChecks(p) => req[p].user # u

DeletedStaysLocked ==
  [][\A u \in Users : Locked(u) =>
       /\ SessionsOf(u)' \subseteq SessionsOf(u)
       /\ \/ Locked(u)'
          \/ \E p \in Requests : Idle(p) /\ req'[p].at = "confirmMatch" /\ req'[p].user = u]_vars

(* A restore code that was used, overwritten or has expired, and that no   *)
(* confirmation has matched yet, is never matched again.                   *)
SpentCode(u, c) ==
  /\ c <= codes[u] /\ ~CodeUsable(u, c)
  /\ \A p \in Requests :
       req[p].at = "confirmConsume" => ~(req[p].user = u /\ req[p].code = c)

SpentCodeStaysSpent ==
  [][\A u \in Users : \A c \in 1..MaxCode : SpentCode(u, c) => SpentCode(u, c)']_vars

(* What the handlers achieve when nothing runs beside them and nothing     *)
(* fails: with no request in flight every valid session is of the          *)
(* account's current version (nobody's session outlives a password reset,  *)
(* a deletion or a detected reuse), a deleted account has none, and a      *)
(* family has at most one.                                                 *)
Quiet == \A p \in Requests : Idle(p)

SessionsAreCurrent ==
  Quiet => \A t \in Token : Valid(t) => t.version = tokenVersion[t.user]

LoggedOutEverywhere ==
  Quiet => \A t \in Token :
    Issued(t) /\ account[t.user].status = "DELETED" => ~Valid(t) /\ t.version # tokenVersion[t.user]

(* A refresh token is replaced, not copied.                                *)
OneValidPerFamily ==
  \A t1, t2 \in Token :
    Valid(t1) /\ Valid(t2) /\ session[t1].family = session[t2].family => t1 = t2

=============================================================================
