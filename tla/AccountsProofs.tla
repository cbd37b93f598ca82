--------------------------- MODULE AccountsProofs ---------------------------
(***************************************************************************)
(* For any number of rows, addresses and requests: the users table is an   *)
(* address book, and only requests that found one address free at once     *)
(* share it or meet the unique index.                                      *)
(*                                                                         *)
(* None of it is inductive by itself.  A request acts on a lookup that may *)
(* be old, so the invariant says what is true of the requests that found   *)
(* an address free: another one that did, or a row that got it since, has  *)
(* left a mark.  Most steps neither give an address nor find one free: they*)
(* are calm, and the proofs treat them as one.                             *)
(***************************************************************************)
EXTENDS Accounts, TLAPS

Requested == [at : Steps \cup Ends, user : Users \cup {None},
              email : Emails \cup {None}, deleted : BOOLEAN, late : BOOLEAN]

Finding == {"insert", "changeEmail"}
OfUser == {"changeTaken", "changeEmail", "verifyMark", "loginGrace", "restoreGrace", "restoreSet",
           "confirmGrace", "confirmMatch", "confirmConsume", "confirmWrite"}
OfEmail == {"insert", "changeTaken", "changeEmail", "loginDeleted"}

(* What a request carries while it is in flight. *)
Carries(r) ==
  /\ r.at \notin Ends /\ r.user # None => r.user \in Registered
  /\ r.at \in OfUser => r.user \in Registered
  /\ r.at \in OfEmail => r.email \in Emails

CodesOwned == \A u \in Users : row[u].code => u \in Registered

LiveUnique == \A u, v \in Live : row[u].email = row[v].email => u = v

FoundTogether ==
  \A p, q \in Requests :
    p # q /\ req[p].at \in Finding /\ req[q].at \in Finding /\ req[p].email = req[q].email
      => req[p].email \in overlapped

FoundBefore ==
  \A p \in Requests, u \in Registered :
    req[p].at \in Finding /\ row[u].email = req[p].email => row[u].email \in overlapped

ChangesLate ==
  \A p \in Requests :
    req[p].at \in {"changeTaken", "changeEmail"} /\ row[req[p].user].verified => req[p].late

IInv ==
  /\ TypeOK
  /\ \A p \in Requests : Carries(req[p])
  /\ CodesOwned /\ LiveUnique
  /\ FoundTogether /\ FoundBefore
  /\ SharedOnlyByOverlap /\ FailsOnlyByOverlap
  /\ ChangesLate

(* A step that changes at most the status, the grace period and the code of*)
(* one row, and brings no request to an address that is free.              *)
SameAddress(r, s) ==
  /\ s \in Rows /\ s.email = r.email /\ s.verified = r.verified
  /\ (s.status = "absent") = (r.status = "absent")
  /\ s.grace => s.status = "DELETED"
  /\ s.code => s.status # "absent"

CalmRow(u) ==
  /\ row' = [row EXCEPT ![u] = row'[u]]
  /\ SameAddress(row[u], row'[u])
  /\ row'[u].status = "ACTIVE" => IndexAllows(u, row[u].email)

CalmRequest(r) ==
  /\ r \in Requested /\ Carries(r)
  /\ r.at \notin Finding \cup {"changeTaken"}
  /\ r.at = "indexError" => r.email \in overlapped

Calm ==
  /\ row' = row \/ \E u \in Users : CalmRow(u)
  /\ req' = req \/ \E p \in Requests, r \in Requested : CalmRequest(r) /\ req' = [req EXCEPT ![p] = r]
  /\ overlapped' = overlapped

-----------------------------------------------------------------------------

LEMMA InitIInv == Init => IInv
<1> SUFFICES ASSUME Init PROVE IInv
  OBVIOUS
<1>1. TypeOK
  BY NoneAssumption
  DEF Init, TypeOK, Absent, Rows, Registered, Deleted, IdleRequest, Request, Steps, Ends, Idle
<1>2. Registered = {} /\ Live = {} /\ CodesOwned
  BY DEF Init, Registered, Live, Absent, CodesOwned
<1>3. \A p \in Requests : req[p].at = "idle" /\ req[p].user = None
  BY DEF Init, IdleRequest, Request
<1> QED
  BY <1>1, <1>2, <1>3
  DEF IInv, Carries, LiveUnique, FoundTogether, FoundBefore, SharedOnlyByOverlap, FailsOnlyByOverlap,
      ChangesLate, Ends, OfUser, OfEmail, Finding, At

LEMMA Typed ==
  ASSUME IInv
  PROVE  /\ row \in [Users -> Rows] /\ req \in [Requests -> Requested] /\ overlapped \in SUBSET Emails
         /\ \A u \in Users : /\ row[u].email = None <=> row[u].status = "absent"
                             /\ row[u].grace => row[u].status = "DELETED"
                             /\ row[u].code => row[u].status # "absent"
         /\ \A p \in Requests : Carries(req[p])
BY DEF IInv, TypeOK, Requested, Registered, Deleted, CodesOwned

(* The converse: what makes a state well typed. *)
LEMMA TypedNext ==
  ASSUME row' \in [Users -> Rows], req' \in [Requests -> Requested], overlapped' \in SUBSET Emails,
         \A u \in Users : /\ row'[u].email = None <=> row'[u].status = "absent"
                          /\ row'[u].grace => row'[u].status = "DELETED",
         \A p \in Requests : Carries(req[p])'
  PROVE  TypeOK'
BY DEF TypeOK, Requested, Registered, Deleted, Carries, Idle

LEMMA CalmIInv == IInv /\ Calm => IInv'
<1> SUFFICES ASSUME IInv, Calm PROVE IInv'
  OBVIOUS
<1>1. /\ row \in [Users -> Rows] /\ req \in [Requests -> Requested] /\ overlapped \in SUBSET Emails
      /\ \A u \in Users : /\ row[u].email = None <=> row[u].status = "absent"
                          /\ row[u].grace => row[u].status = "DELETED"
                          /\ row[u].code => row[u].status # "absent"
      /\ \A p \in Requests : Carries(req[p])
  BY Typed
<1>2. \A u \in Users : SameAddress(row[u], row'[u])
  BY <1>1 DEF Calm, CalmRow, SameAddress
<1>3. row' \in [Users -> Rows]
  BY <1>1, <1>2 DEF Calm, CalmRow, SameAddress
<1>4. Registered' = Registered
  BY <1>2 DEF Registered, SameAddress
<1>5. \A p \in Requests : req'[p] = req[p] \/ CalmRequest(req'[p])
  BY <1>1 DEF Calm
<1>6. req' \in [Requests -> Requested] /\ overlapped' = overlapped
  BY <1>1 DEF Calm
<1>7. \A r : Carries(r) <=> Carries(r)'
  BY <1>4 DEF Carries
<1>8. ASSUME NEW p \in Requests PROVE Carries(req[p])'
  BY <1>1, <1>4, <1>5 DEF CalmRequest, Carries
<1>9. TypeOK'
  <2>1. \A u \in Users : /\ row'[u].email = None <=> row'[u].status = "absent"
                         /\ row'[u].grace => row'[u].status = "DELETED"
    BY <1>1, <1>2 DEF SameAddress
  <2> QED
    BY <1>1, <1>3, <1>6, <1>8, <2>1, TypedNext
<1>10. LiveUnique'
  <2>1. CASE row' = row
    BY <2>1 DEF IInv, LiveUnique, Live
  <2>2. ASSUME NEW w \in Users, CalmRow(w) PROVE LiveUnique'
    <3>1. \A u \in Users : u # w => row'[u] = row[u]
      BY <1>1, <2>2 DEF CalmRow
    <3>2. SUFFICES ASSUME NEW u \in Live', NEW v \in Live', row'[u].email = row'[v].email, u # v
                   PROVE  FALSE
      BY DEF LiveUnique
    <3>3. CASE u # w /\ v # w
      BY <3>1, <3>2, <3>3 DEF IInv, LiveUnique, Live
    <3>4. CASE u = w
      <4>1. v \in Live /\ row[v].email = row[w].email
        BY <1>2, <3>1, <3>2, <3>4 DEF Live, SameAddress
      <4>2. IndexAllows(w, row[w].email)
        BY <2>2, <3>2, <3>4 DEF CalmRow, Live
      <4> QED
        BY <3>2, <3>4, <4>1, <4>2 DEF IndexAllows, findActiveByEmail, findByEmail, Live, Registered
    <3>5. CASE v = w
      <4>1. u \in Live /\ row[u].email = row[w].email
        BY <1>2, <3>1, <3>2, <3>5 DEF Live, SameAddress
      <4>2. IndexAllows(w, row[w].email)
        BY <2>2, <3>2, <3>5 DEF CalmRow, Live
      <4> QED
        BY <3>2, <3>5, <4>1, <4>2 DEF IndexAllows, findActiveByEmail, findByEmail, Live, Registered
    <3> QED
      BY <3>3, <3>4, <3>5
  <2> QED
    BY <2>1, <2>2 DEF Calm
<1>11. \A p \in Requests : req'[p].at \in Finding \cup {"changeTaken"} => req'[p] = req[p]
  BY <1>5 DEF CalmRequest
<1>12. FoundTogether' /\ FoundBefore'
  BY <1>2, <1>4, <1>6, <1>11 DEF IInv, FoundTogether, FoundBefore, SameAddress, Registered
<1>13. SharedOnlyByOverlap'
  BY <1>2, <1>4, <1>6 DEF IInv, SharedOnlyByOverlap, SameAddress, Registered
<1>14. FailsOnlyByOverlap'
  BY <1>5, <1>6 DEF IInv, FailsOnlyByOverlap, At, CalmRequest
<1>15. ChangesLate'
  <2> SUFFICES ASSUME NEW p \in Requests, req'[p].at \in {"changeTaken", "changeEmail"},
                      row'[req'[p].user].verified
               PROVE  req'[p].late
    BY DEF ChangesLate
  <2>1. req'[p] = req[p]
    BY <1>11 DEF Finding
  <2>2. req[p].user \in Users
    BY <1>1, <2>1 DEF Carries, OfUser, Registered
  <2> QED
    BY <1>2, <2>1, <2>2 DEF IInv, ChangesLate, SameAddress
<1>16. CodesOwned'
  BY <1>2 DEF CodesOwned, SameAddress, Registered
<1> QED
  BY <1>8, <1>9, <1>10, <1>12, <1>13, <1>14, <1>15, <1>16 DEF IInv

-----------------------------------------------------------------------------
(* Which steps are calm. *)

(* A request that ends, or arrives where no address was found free. *)
LEMMA CalmBegin ==
  ASSUME NEW at \in Steps \cup Ends, NEW u \in Users \cup {None}, NEW e \in Emails \cup {None},
         NEW d \in BOOLEAN, at \notin Finding \cup {"changeTaken"},
         at \in OfUser => u \in Registered, at \notin Ends /\ u # None => u \in Registered,
         at \in OfEmail => e \in Emails, at = "indexError" => e \in overlapped
  PROVE  CalmRequest(Request(at, u, e, d))
BY DEF CalmRequest, Carries, Request, Requested

LEMMA CalmDone == CalmRequest(IdleRequest)
BY DEF CalmRequest, Carries, IdleRequest, Request, Requested, Finding, OfUser, OfEmail, Steps, Ends

(* A request that goes on to another step with its account. *)
LEMMA CalmGoto ==
  ASSUME IInv, NEW p \in Requests, NEW step \in OfUser \ {"changeTaken", "changeEmail"},
         req[p].user \in Registered
  PROVE  CalmRequest([req[p] EXCEPT !.at = step])
BY Typed DEF CalmRequest, Carries, Requested, Finding, OfUser, OfEmail, Steps, Ends

(* One row and one request at most: what the calm actions are made of. *)
LEMMA CalmIf ==
  ASSUME row' = row \/ \E u \in Users : CalmRow(u), UNCHANGED overlapped,
         \/ UNCHANGED req
         \/ \E p \in Requests, r \in Requested : CalmRequest(r) /\ req' = [req EXCEPT ![p] = r]
  PROVE  Calm
BY DEF Calm

LEMMA CalmRowIf ==
  ASSUME IInv, NEW u \in Registered, NEW r,
         row' = [row EXCEPT ![u] = r], SameAddress(row[u], r),
         r.status = "ACTIVE" => IndexAllows(u, row[u].email)
  PROVE  \E v \in Users : CalmRow(v)
<1>1. u \in Users /\ row \in [Users -> Rows]
  BY Typed DEF Registered
<1>2. row'[u] = r
  BY <1>1
<1> QED
  BY <1>1, <1>2 DEF CalmRow

(* The index never stands against a row that is in use already. *)
LEMMA LiveAllowed ==
  ASSUME IInv, NEW u \in Live
  PROVE  IndexAllows(u, row[u].email)
BY DEF IInv, LiveUnique, IndexAllows, findActiveByEmail, findByEmail, Live, Registered

LEMMA DeleteMeCalm == ASSUME IInv, NEW u \in Users, DeleteMe(u) PROVE Calm
<1> DEFINE r == [row[u] EXCEPT !.status = "DELETED", !.grace = TRUE]
<1>1. u \in Registered /\ row[u] \in Rows /\ row[u].status = "ACTIVE"
  BY Typed DEF DeleteMe, Live, Registered
<1>2. SameAddress(row[u], r) /\ r.status = "DELETED"
  BY <1>1 DEF SameAddress, Rows
<1>3. row' = [row EXCEPT ![u] = r]
  BY DEF DeleteMe
<1>4. r.status = "ACTIVE" => IndexAllows(u, row[u].email)
  BY <1>2
<1> HIDE DEF r
<1>5. \E v \in Users : CalmRow(v)
  BY <1>1, <1>2, <1>3, <1>4, CalmRowIf
<1> QED
  BY <1>5, CalmIf DEF DeleteMe

LEMMA GraceEndsCalm == ASSUME IInv, NEW u \in Users, GraceEnds(u) PROVE Calm
<1> DEFINE r == [row[u] EXCEPT !.grace = FALSE]
<1>1. u \in Registered /\ row[u] \in Rows /\ row[u].status = "DELETED"
  BY Typed DEF GraceEnds, Registered
<1>2. SameAddress(row[u], r) /\ r.status = "DELETED"
  BY <1>1 DEF SameAddress, Rows
<1>3. row' = [row EXCEPT ![u] = r]
  BY DEF GraceEnds
<1>4. r.status = "ACTIVE" => IndexAllows(u, row[u].email)
  BY <1>2
<1> HIDE DEF r
<1>5. \E v \in Users : CalmRow(v)
  BY <1>1, <1>2, <1>3, <1>4, CalmRowIf
<1> QED
  BY <1>5, CalmIf DEF GraceEnds

(* The restore code of a row is set, used or expires. *)
LEMMA CalmCode ==
  ASSUME IInv, NEW u \in Registered, NEW b \in BOOLEAN, row' = [row EXCEPT ![u].code = b]
  PROVE  \E v \in Users : CalmRow(v)
<1> DEFINE r == [row[u] EXCEPT !.code = b]
<1>1. /\ u \in Users /\ row[u] \in Rows /\ row[u].status # "absent"
      /\ row[u].grace => row[u].status = "DELETED"
  BY Typed DEF Registered
<1>2. SameAddress(row[u], r) /\ r.status = row[u].status
  BY <1>1 DEF SameAddress, Rows
<1>3. row' = [row EXCEPT ![u] = r]
  OBVIOUS
<1>4. r.status = "ACTIVE" => IndexAllows(u, row[u].email)
  BY <1>1, <1>2, LiveAllowed DEF Live
<1> HIDE DEF r
<1> QED
  BY <1>2, <1>3, <1>4, CalmRowIf

LEMMA CodeExpiresCalm == ASSUME IInv, NEW u \in Users, CodeExpires(u) PROVE Calm
<1>1. u \in Registered
  BY Typed DEF CodeExpires, Registered
<1> QED
  BY <1>1, CalmCode, CalmIf DEF CodeExpires

(* A request that ends, as most may at any step. *)
LEMMA EndCalm ==
  ASSUME NEW p \in Requests, Done(p), UNCHANGED overlapped, UNCHANGED row \/ \E u \in Users : CalmRow(u)
  PROVE  Calm
BY CalmDone, CalmIf DEF Done, CalmRequest

LEMMA ArrivalCalm ==
  ASSUME NEW p \in Requests, NEW at \in Steps \cup Ends, NEW u \in Users \cup {None},
         NEW e \in Emails \cup {None}, NEW d \in BOOLEAN, Begin(p, at, u, e, d),
         at \notin Finding \cup {"changeTaken", "indexError"},
         at \in OfUser => u \in Registered, at \notin Ends /\ u # None => u \in Registered,
         at \in OfEmail => e \in Emails, UNCHANGED <<row, overlapped>>
  PROVE  Calm
<1>1. CalmRequest(Request(at, u, e, d))
  BY CalmBegin
<1> QED
  BY <1>1, CalmIf DEF Begin, CalmRequest

LEMMA GotoCalm ==
  ASSUME IInv, NEW p \in Requests, NEW step \in OfUser \ {"changeTaken", "changeEmail"},
         req[p].user \in Registered, Goto(p, step), UNCHANGED overlapped,
         UNCHANGED row \/ \E u \in Users : CalmRow(u)
  PROVE  Calm
<1>1. req' = [req EXCEPT ![p] = [req[p] EXCEPT !.at = step]]
  BY DEF Goto
<1>2. CalmRequest([req[p] EXCEPT !.at = step])
  BY CalmGoto
<1> QED
  BY <1>1, <1>2, CalmIf DEF CalmRequest

(* An error of the index, over an address that two requests found free. *)
LEMMA ErrorCalm ==
  ASSUME NEW p \in Requests, NEW e \in Emails, e \in overlapped, Answer(p, "indexError", None, e),
         UNCHANGED <<row, overlapped>>
  PROVE  Calm
<1>1. CalmRequest(Request("indexError", None, e, FALSE))
  BY CalmBegin DEF Ends, Finding, OfUser, OfEmail
<1> QED
  BY <1>1, CalmIf DEF Answer, CalmRequest

(* Who stands at a step of an account has one. *)
LEMMA HasUser ==
  ASSUME IInv, NEW p \in Requests, req[p].at \in OfUser
  PROVE  /\ req[p].user \in Registered /\ req[p].user \in Users
         /\ row[req[p].user] \in Rows /\ row[req[p].user].email \in Emails
<1>1. req[p].user \in Registered /\ req[p].user \in Users
  BY Typed DEF Carries, Registered
<1> QED
  BY <1>1, Typed DEF Registered, Rows

LEMMA LoginCalm ==
  ASSUME IInv, NEW p \in Requests,
         (\E e \in Emails : LoginFind(p, e)) \/ LoginDeleted(p) \/ LoginGrace(p)
  PROVE  Calm
<1>1. ASSUME NEW e \in Emails, LoginFind(p, e) PROVE Calm
  <2>1. CASE findActiveByEmail(e) = {}
    BY <1>1, <2>1, ArrivalCalm DEF LoginFind, Steps, Ends, Finding, OfUser, OfEmail
  <2>2. CASE findActiveByEmail(e) # {}
    BY <1>1, <2>2, EndCalm DEF LoginFind
  <2> QED
    BY <2>1, <2>2
<1>2. CASE LoginDeleted(p)
  <2>1. CASE findDeletedByEmail(req[p].email) = {}
    BY <1>2, <2>1, EndCalm DEF LoginDeleted
  <2>2. CASE findDeletedByEmail(req[p].email) # {}
    <3>1. PICK u \in findDeletedByEmail(req[p].email) :
            req' = [req EXCEPT ![p].at = "loginGrace", ![p].user = u]
      BY <1>2, <2>2 DEF LoginDeleted
    <3> DEFINE r == [req[p] EXCEPT !.at = "loginGrace", !.user = u]
    <3>2. req' = [req EXCEPT ![p] = r] /\ u \in Registered /\ u \in Users
      BY <3>1 DEF findDeletedByEmail, findByEmail, Registered
    <3>3. req[p] \in Requested
      BY Typed
    <3>4. r \in Requested /\ r.at = "loginGrace" /\ r.user = u
      BY <3>2, <3>3 DEF Requested, Steps
    <3> HIDE DEF r
    <3>5. CalmRequest(r)
      BY <3>2, <3>4 DEF CalmRequest, Carries, Finding, OfUser, OfEmail, Ends
    <3> QED
      BY <1>2, <3>2, <3>4, <3>5, CalmIf DEF LoginDeleted
  <2> QED
    BY <2>1, <2>2
<1>3. CASE LoginGrace(p)
  BY <1>3, EndCalm DEF LoginGrace
<1> QED
  BY <1>1, <1>2, <1>3

LEMMA RequestRestoreCalm ==
  ASSUME IInv, NEW p \in Requests,
         (\E e \in Emails : RestoreFind(p, e)) \/ RestoreGrace(p) \/ RestoreSet(p)
  PROVE  Calm
<1>1. ASSUME NEW e \in Emails, RestoreFind(p, e) PROVE Calm
  <2>1. CASE Idle(p) /\ Done(p)
    BY <1>1, <2>1, EndCalm DEF RestoreFind
  <2>2. ASSUME NEW u \in findByEmail(e),
               Begin(p, IF Deleted(u) THEN "restoreGrace" ELSE "restoreSet", u, e, Deleted(u))
        PROVE  Calm
    <3>1. u \in Registered /\ u \in Users /\ Deleted(u) \in BOOLEAN
      BY DEF findByEmail, Registered, Deleted
    <3>2. UNCHANGED <<row, overlapped>>
      BY <1>1 DEF RestoreFind
    <3>3. CASE Deleted(u)
      BY <2>2, <3>1, <3>2, <3>3, ArrivalCalm DEF Steps, Ends, Finding, OfUser, OfEmail
    <3>4. CASE ~Deleted(u)
      BY <2>2, <3>1, <3>2, <3>4, ArrivalCalm DEF Steps, Ends, Finding, OfUser, OfEmail
    <3> QED
      BY <3>3, <3>4
  <2> QED
    BY <1>1, <2>1, <2>2 DEF RestoreFind
<1>2. CASE RestoreGrace(p)
  <2>1. req[p].user \in Registered
    BY <1>2, HasUser DEF RestoreGrace, At, OfUser
  <2>2. CASE canRestore(req[p].user)
    BY <1>2, <2>1, <2>2, GotoCalm DEF RestoreGrace, OfUser
  <2>3. CASE ~canRestore(req[p].user)
    BY <1>2, <2>3, EndCalm DEF RestoreGrace
  <2> QED
    BY <2>2, <2>3
<1>3. CASE RestoreSet(p)
  <2>1. req[p].user \in Registered
    BY <1>3, HasUser DEF RestoreSet, At, OfUser
  <2>2. \E u \in Users : CalmRow(u)
    BY <1>3, <2>1, CalmCode DEF RestoreSet
  <2> QED
    BY <1>3, <2>2, EndCalm DEF RestoreSet
<1> QED
  BY <1>1, <1>2, <1>3

(* The restoration, or the new password of an account in use.  If the index*)
(* refuses it, another row in use has the address of this one.             *)
LEMMA ConfirmWriteCalm == ASSUME IInv, NEW p \in Requests, ConfirmWrite(p) PROVE Calm
<1> DEFINE u == req[p].user
           back == IF req[p].deleted THEN restoreAccount(u) ELSE [row[u] EXCEPT !.code = FALSE]
<1>1. u \in Registered /\ u \in Users /\ row[u] \in Rows /\ row[u].email \in Emails
  BY HasUser DEF ConfirmWrite, At, OfUser
<1>2. row[u].status # "absent" /\ (row[u].grace => row[u].status = "DELETED")
  BY <1>1, Typed DEF Registered
<1>3. SameAddress(row[u], back)
  <2>1. CASE req[p].deleted
    BY <1>1, <1>2, <2>1 DEF SameAddress, Rows, restoreAccount
  <2>2. CASE ~req[p].deleted
    BY <1>1, <1>2, <2>2 DEF SameAddress, Rows
  <2> QED
    BY <2>1, <2>2
<1>4. back.email = row[u].email
  BY <1>3 DEF SameAddress
<1>5. IF back.status = "ACTIVE" /\ ~IndexAllows(u, back.email)
        THEN UNCHANGED row /\ Answer(p, "indexError", None, back.email)
        ELSE row' = [row EXCEPT ![u] = back] /\ Done(p)
  BY DEF ConfirmWrite
<1>6. UNCHANGED overlapped
  BY DEF ConfirmWrite
<1> HIDE DEF u, back
<1>7. CASE back.status = "ACTIVE" /\ ~IndexAllows(u, back.email)
  <2>1. PICK v \in Registered : v # u /\ row[v].email = row[u].email
    BY <1>4, <1>7 DEF IndexAllows, findActiveByEmail, findByEmail
  <2>2. row[u].email \in overlapped
    BY <1>1, <2>1 DEF IInv, SharedOnlyByOverlap
  <2> QED
    BY <1>1, <1>4, <1>5, <1>6, <1>7, <2>2, ErrorCalm
<1>8. CASE ~(back.status = "ACTIVE" /\ ~IndexAllows(u, back.email))
  <2>1. \E v \in Users : CalmRow(v)
    BY <1>1, <1>3, <1>4, <1>5, <1>8, CalmRowIf
  <2> QED
    BY <1>5, <1>6, <1>8, <2>1, EndCalm
<1> QED
  BY <1>7, <1>8

LEMMA ConfirmRestoreCalm ==
  ASSUME IInv, NEW p \in Requests,
         \/ \E e \in Emails : ConfirmFind(p, e)
         \/ ConfirmGrace(p) \/ ConfirmMatch(p) \/ ConfirmConsume(p) \/ ConfirmWrite(p)
  PROVE  Calm
<1>1. ASSUME NEW e \in Emails, ConfirmFind(p, e) PROVE Calm
  <2>1. CASE Idle(p) /\ Done(p)
    BY <1>1, <2>1, EndCalm DEF ConfirmFind
  <2>2. ASSUME NEW u \in findByEmail(e),
               Begin(p, IF Deleted(u) THEN "confirmGrace" ELSE "confirmMatch", u, e, Deleted(u))
        PROVE  Calm
    <3>1. u \in Registered /\ u \in Users /\ Deleted(u) \in BOOLEAN
      BY DEF findByEmail, Registered, Deleted
    <3>2. UNCHANGED <<row, overlapped>>
      BY <1>1 DEF ConfirmFind
    <3>3. CASE Deleted(u)
      BY <2>2, <3>1, <3>2, <3>3, ArrivalCalm DEF Steps, Ends, Finding, OfUser, OfEmail
    <3>4. CASE ~Deleted(u)
      BY <2>2, <3>1, <3>2, <3>4, ArrivalCalm DEF Steps, Ends, Finding, OfUser, OfEmail
    <3> QED
      BY <3>3, <3>4
  <2> QED
    BY <1>1, <2>1, <2>2 DEF ConfirmFind
<1>2. CASE ConfirmGrace(p)
  <2>1. req[p].user \in Registered
    BY <1>2, HasUser DEF ConfirmGrace, At, OfUser
  <2>2. CASE canRestore(req[p].user)
    BY <1>2, <2>1, <2>2, GotoCalm DEF ConfirmGrace, OfUser
  <2>3. CASE ~canRestore(req[p].user)
    BY <1>2, <2>3, EndCalm DEF ConfirmGrace
  <2> QED
    BY <2>2, <2>3
<1>3. CASE ConfirmMatch(p)
  <2>1. req[p].user \in Registered
    BY <1>3, HasUser DEF ConfirmMatch, At, OfUser
  <2>2. CASE Done(p)
    BY <1>3, <2>2, EndCalm DEF ConfirmMatch
  <2>3. CASE Goto(p, "confirmConsume")
    BY <1>3, <2>1, <2>3, GotoCalm DEF ConfirmMatch, OfUser
  <2> QED
    BY <1>3, <2>2, <2>3 DEF ConfirmMatch
<1>4. CASE ConfirmConsume(p)
  <2>1. req[p].user \in Registered
    BY <1>4, HasUser DEF ConfirmConsume, At, OfUser
  <2>2. \E u \in Users : CalmRow(u)
    BY <1>4, <2>1, CalmCode DEF ConfirmConsume
  <2> QED
    BY <1>4, <2>1, <2>2, GotoCalm DEF ConfirmConsume, OfUser
<1> QED
  BY <1>1, <1>2, <1>3, <1>4, ConfirmWriteCalm

(* verifyEmail up to its update, and the ends that any request may meet.   *)
LEMMA VerifyCalm ==
  ASSUME IInv, NEW p \in Requests,
         (\E u, first \in Users : VerifyFind(p, u, first)) \/ VerifyWrong(p)
  PROVE  Calm
<1>1. ASSUME NEW u \in Users, NEW first \in Users, VerifyFind(p, u, first) PROVE Calm
  <2>1. u \in Registered /\ UNCHANGED <<row, overlapped>>
    BY <1>1 DEF VerifyFind
  <2>2. CASE row[first].verified
    BY <1>1, <2>1, <2>2, ArrivalCalm DEF VerifyFind, Steps, Ends, Finding, OfUser, OfEmail
  <2>3. CASE ~row[first].verified
    BY <1>1, <2>1, <2>3, ArrivalCalm DEF VerifyFind, Steps, Ends, Finding, OfUser, OfEmail
  <2> QED
    BY <2>2, <2>3
<1>2. CASE VerifyWrong(p)
  BY <1>2, EndCalm DEF VerifyWrong
<1> QED
  BY <1>1, <1>2

LEMMA AbortCalm == ASSUME NEW p \in Requests, Abort(p) \/ ChangeLimitReached(p) PROVE Calm
BY EndCalm DEF Abort, ChangeLimitReached, Done

-----------------------------------------------------------------------------
(* The other steps: those that find an address free, give it to a row, or  *)
(* verify an account.                                                      *)

(* A request that has found its address free leaves its mark on those that *)
(* did so too.                                                             *)
LEMMA FindIInv ==
  ASSUME IInv, NEW p \in Requests, NEW r \in Requested, Carries(r), r.at \in Finding,
         req' = [req EXCEPT ![p] = r], UNCHANGED row, findByEmail(r.email) = {}, NoteOverlap(p, r.email),
         r.at = "changeEmail" => req[p].at = "changeTaken" /\ r.user = req[p].user /\ r.late = req[p].late
  PROVE  IInv'
<1>1. /\ row' = row /\ row \in [Users -> Rows]
      /\ req \in [Requests -> Requested] /\ overlapped \in SUBSET Emails
      /\ \A u \in Users : /\ row[u].email = None <=> row[u].status = "absent"
                          /\ row[u].grace => row[u].status = "DELETED"
      /\ \A q \in Requests : Carries(req[q])
  BY Typed
<1>2. r.email \in Emails
  BY DEF Carries, Finding, OfEmail
<1>3. overlapped \subseteq overlapped' /\ overlapped' \in SUBSET Emails
  BY <1>1, <1>2 DEF NoteOverlap
<1>4. req' \in [Requests -> Requested] /\ \A q \in Requests : req'[q] = IF q = p THEN r ELSE req[q]
  BY <1>1
<1>5. \A q \in Requests : Carries(req[q])'
  BY <1>1, <1>4 DEF Carries, Registered
<1>6. TypeOK'
  BY <1>1, <1>3, <1>4, <1>5, TypedNext
<1>7. CodesOwned' /\ LiveUnique' /\ Registered' = Registered
  BY <1>1 DEF IInv, CodesOwned, LiveUnique, Live, Registered
<1>8. FoundTogether'
  <2>1. \A q \in Requests :
          q # p /\ req[q].at \in Finding /\ req[q].email = r.email => r.email \in overlapped'
    BY DEF NoteOverlap, FoundFree, Finding
  <2> QED
    BY <1>3, <1>4, <2>1 DEF IInv, FoundTogether
<1>9. FoundBefore'
  <2>1. \A u \in Registered : row[u].email # r.email
    BY DEF findByEmail
  <2> QED
    BY <1>1, <1>3, <1>4, <1>7, <2>1 DEF IInv, FoundBefore
<1>10. SharedOnlyByOverlap' /\ FailsOnlyByOverlap'
  BY <1>1, <1>3, <1>4, <1>7 DEF IInv, SharedOnlyByOverlap, FailsOnlyByOverlap, At, Finding
<1>11. ChangesLate'
  BY <1>1, <1>4 DEF IInv, ChangesLate, Finding
<1> QED
  BY <1>5, <1>6, <1>7, <1>8, <1>9, <1>10, <1>11 DEF IInv

(* A row is given the address that a request found free: what found it free*)
(* too, or got it since, has left its mark.                                *)
LEMMA GiveIInv ==
  ASSUME IInv, NEW p \in Requests, req[p].at \in Finding, NEW u \in Users, NEW r \in Rows,
         r.email = req[p].email, r.status # "absent", r.grace => r.status = "DELETED",
         r.verified => row[u].verified, r.status = "ACTIVE" => IndexAllows(u, r.email),
         row' = [row EXCEPT ![u] = r], Done(p), UNCHANGED overlapped
  PROVE  IInv'
<1>1. /\ row \in [Users -> Rows] /\ req \in [Requests -> Requested] /\ overlapped \in SUBSET Emails
      /\ \A v \in Users : /\ row[v].email = None <=> row[v].status = "absent"
                          /\ row[v].grace => row[v].status = "DELETED"
                          /\ row[v].code => row[v].status # "absent"
      /\ \A q \in Requests : Carries(req[q])
  BY Typed
<1>2. r.email \in Emails /\ r.email # None
  BY <1>1, NoneAssumption DEF Carries, Finding, OfEmail
<1>3. /\ row' \in [Users -> Rows] /\ \A v \in Users : row'[v] = IF v = u THEN r ELSE row[v]
      /\ Registered' = Registered \cup {u}
  <2>1. row' \in [Users -> Rows] /\ \A v \in Users : row'[v] = IF v = u THEN r ELSE row[v]
    BY <1>1
  <2> QED
    BY <2>1 DEF Registered
<1>4. /\ IdleRequest \in Requested /\ IdleRequest.at = "idle"
      /\ req' \in [Requests -> Requested]
      /\ \A q \in Requests : req'[q] = IF q = p THEN IdleRequest ELSE req[q]
  <2>1. IdleRequest \in Requested /\ IdleRequest.at = "idle"
    BY CalmDone DEF CalmRequest, IdleRequest, Request
  <2> QED
    BY <1>1, <2>1 DEF Done
<1>5. \A q \in Requests : Carries(req[q])'
  BY <1>1, <1>3, <1>4 DEF Carries, Ends, OfUser, OfEmail
<1>6. TypeOK'
  BY <1>1, <1>2, <1>3, <1>4, <1>5, TypedNext
<1>7. CodesOwned'
  BY <1>1, <1>3 DEF CodesOwned, Registered
<1>8. LiveUnique'
  <2> SUFFICES ASSUME NEW v \in Live', NEW w \in Live', row'[v].email = row'[w].email, v # w
               PROVE  FALSE
    BY DEF LiveUnique
  <2>1. CASE v # u /\ w # u
    BY <1>3, <2>1 DEF IInv, LiveUnique, Live
  <2>2. ASSUME NEW x \in Users, x # u, row'[x].status = "ACTIVE", r.status = "ACTIVE", row'[x].email = r.email
        PROVE  FALSE
    BY <1>3, <2>2 DEF IndexAllows, findActiveByEmail, findByEmail, Live, Registered
  <2> QED
    BY <1>3, <2>1, <2>2 DEF Live
<1>9. FoundTogether'
  BY <1>4 DEF IInv, FoundTogether, Finding
<1>10. FoundBefore'
  <2> SUFFICES ASSUME NEW q \in Requests, NEW v \in Registered', req'[q].at \in Finding,
                      row'[v].email = req'[q].email
               PROVE  row'[v].email \in overlapped
    BY DEF FoundBefore
  <2>1. q # p /\ req'[q] = req[q]
    BY <1>4 DEF Finding
  <2>2. CASE v = u
    BY <1>3, <2>1, <2>2 DEF IInv, FoundTogether
  <2>3. CASE v # u
    BY <1>3, <2>1, <2>3 DEF IInv, FoundBefore, Registered
  <2> QED
    BY <2>2, <2>3
<1>11. SharedOnlyByOverlap'
  <2>1. \A v \in Registered : row[v].email = r.email => r.email \in overlapped
    BY DEF IInv, FoundBefore
  <2> QED
    BY <1>3, <2>1 DEF IInv, SharedOnlyByOverlap, Registered
<1>12. FailsOnlyByOverlap'
  BY <1>4 DEF IInv, FailsOnlyByOverlap, At
<1>13. ChangesLate'
  <2> SUFFICES ASSUME NEW q \in Requests, req'[q].at \in {"changeTaken", "changeEmail"},
                      row'[req'[q].user].verified
               PROVE  req'[q].late
    BY DEF ChangesLate
  <2>1. req'[q] = req[q] /\ req[q].user \in Users
    BY <1>1, <1>4 DEF Carries, OfUser, Registered
  <2> QED
    BY <1>3, <2>1 DEF IInv, ChangesLate
<1> QED
  BY <1>5, <1>6, <1>7, <1>8, <1>9, <1>10, <1>11, <1>12, <1>13 DEF IInv

LEMMA RegisterFindIInv == ASSUME IInv, NEW p \in Requests, NEW e \in Emails, RegisterFind(p, e) PROVE IInv'
<1>1. CASE findByEmail(e) # {}
  BY <1>1, EndCalm, CalmIInv DEF RegisterFind
<1>2. CASE findByEmail(e) = {}
  <2> DEFINE r == Request("insert", None, e, FALSE)
  <2>1. req' = [req EXCEPT ![p] = r] /\ UNCHANGED row /\ NoteOverlap(p, e)
    BY <1>2 DEF RegisterFind, Begin
  <2>2. r \in Requested /\ Carries(r) /\ r.at = "insert" /\ r.email = e
    BY DEF Request, Requested, Carries, Steps, Ends, OfUser, OfEmail
  <2> HIDE DEF r
  <2> QED
    BY <1>2, <2>1, <2>2, FindIInv DEF Finding
<1> QED
  BY <1>1, <1>2

(* The insert: done, or refused by the index over a row that got there.    *)
LEMMA RegisterInsertCases ==
  ASSUME IInv, NEW p \in Requests, NEW u \in Users, RegisterInsert(p, u)
  PROVE  \/ Calm
         \/ /\ row' = [row EXCEPT ![u] = NewRow(req[p].email)] /\ Done(p) /\ UNCHANGED overlapped
            /\ IndexAllows(u, req[p].email)
<1>1. CASE IndexAllows(u, req[p].email)
  BY <1>1 DEF RegisterInsert
<1>2. CASE ~IndexAllows(u, req[p].email)
  <2>1. req[p].email \in Emails /\ req[p].at \in Finding
    BY Typed DEF RegisterInsert, At, Carries, OfEmail, Finding
  <2>2. req[p].email \in overlapped
    BY <1>2, <2>1 DEF IInv, FoundBefore, IndexAllows, findActiveByEmail, findByEmail
  <2> QED
    BY <1>2, <2>1, <2>2, ErrorCalm DEF RegisterInsert
<1> QED
  BY <1>1, <1>2

LEMMA NewRowTyped ==
  ASSUME NEW e \in Emails
  PROVE  /\ NewRow(e) \in Rows /\ NewRow(e).email = e /\ NewRow(e).status = "ACTIVE"
         /\ ~NewRow(e).verified /\ ~NewRow(e).grace
BY DEF NewRow, Absent, Rows

LEMMA RegisterInsertIInv ==
  ASSUME IInv, NEW p \in Requests, NEW u \in Users, RegisterInsert(p, u) PROVE IInv'
<1>1. req[p].email \in Emails /\ req[p].at \in Finding
  BY Typed DEF RegisterInsert, At, Carries, OfEmail, Finding
<1>2. CASE /\ row' = [row EXCEPT ![u] = NewRow(req[p].email)] /\ Done(p) /\ UNCHANGED overlapped
           /\ IndexAllows(u, req[p].email)
  BY <1>1, <1>2, NewRowTyped, GiveIInv
<1> QED
  BY <1>2, RegisterInsertCases, CalmIInv

LEMMA ChangeFindIInv ==
  ASSUME IInv, NEW p \in Requests, NEW u \in Users, NEW new \in Emails, ChangeFind(p, u, new)
  PROVE  IInv'
<1>1. u \in Registered /\ UNCHANGED <<row, overlapped>>
  BY DEF ChangeFind
<1>2. CASE row[u].verified
  <2>1. Begin(p, "toldVerified", u, None, FALSE)
    BY <1>2 DEF ChangeFind
  <2> QED
    BY <1>1, <2>1, ArrivalCalm, CalmIInv DEF Steps, Ends, Finding, OfUser, OfEmail
<1>3. CASE ~row[u].verified /\ row[u].email = new
  BY <1>1, <1>3, EndCalm, CalmIInv DEF ChangeFind
<1>4. CASE ~row[u].verified /\ row[u].email # new
  <2> DEFINE r == Request("changeTaken", u, new, FALSE)
  <2>1. req' = [req EXCEPT ![p] = r]
    BY <1>4 DEF ChangeFind, Begin
  <2>2. r \in Requested /\ Carries(r) /\ r.at = "changeTaken" /\ r.user = u
    BY <1>1 DEF Request, Requested, Carries, Steps, Ends, OfUser, OfEmail
  <2> HIDE DEF r
  <2>3. \A q \in Requests : req'[q] = IF q = p THEN r ELSE req[q]
    BY <2>1, Typed
  <2>4. req' \in [Requests -> Requested]
    BY <2>1, <2>2, Typed
  <2>5. \A q \in Requests : Carries(req[q])'
    BY <1>1, <2>2, <2>3, Typed DEF Carries, Registered
  <2>6. TypeOK'
    <3>1. row' \in [Users -> Rows] /\ overlapped' \in SUBSET Emails
      BY <1>1, Typed
    <3>2. \A v \in Users : /\ row'[v].email = None <=> row'[v].status = "absent"
                           /\ row'[v].grace => row'[v].status = "DELETED"
      BY <1>1, Typed
    <3> QED
      BY <2>4, <2>5, <3>1, <3>2, TypedNext
  <2>7. CodesOwned' /\ LiveUnique' /\ SharedOnlyByOverlap'
    BY <1>1 DEF IInv, CodesOwned, LiveUnique, SharedOnlyByOverlap, Live, Registered
  <2>8. FoundTogether' /\ FoundBefore' /\ FailsOnlyByOverlap'
    BY <1>1, <2>2, <2>3
    DEF IInv, FoundTogether, FoundBefore, FailsOnlyByOverlap, At, Finding, Registered
  <2>9. ChangesLate'
    BY <1>1, <1>4, <2>2, <2>3 DEF IInv, ChangesLate
  <2> QED
    BY <2>5, <2>6, <2>7, <2>8, <2>9 DEF IInv
<1> QED
  BY <1>2, <1>3, <1>4

LEMMA ChangeTakenIInv == ASSUME IInv, NEW p \in Requests, ChangeTaken(p) PROVE IInv'
<1>1. CASE findByEmail(req[p].email) # {}
  BY <1>1, EndCalm, CalmIInv DEF ChangeTaken
<1>2. CASE findByEmail(req[p].email) = {}
  <2> DEFINE r == [req[p] EXCEPT !.at = "changeEmail"]
  <2>1. /\ req' = [req EXCEPT ![p] = r] /\ UNCHANGED row /\ NoteOverlap(p, req[p].email)
        /\ req[p].at = "changeTaken"
    BY <1>2 DEF ChangeTaken, Goto, At
  <2>2. req[p] \in Requested /\ Carries(req[p])
    BY Typed
  <2>3. /\ r \in Requested /\ r.at = "changeEmail" /\ r.email = req[p].email
        /\ r.user = req[p].user /\ r.late = req[p].late
    BY <2>2 DEF Requested, Steps
  <2> HIDE DEF r
  <2>4. Carries(r)
    BY <2>1, <2>2, <2>3 DEF Carries, OfUser, OfEmail
  <2> QED
    BY <1>2, <2>1, <2>3, <2>4, FindIInv DEF Finding
<1> QED
  BY <1>1, <1>2

Moved(u, e) == [row[u] EXCEPT !.email = e]

LEMMA MovedTyped ==
  ASSUME IInv, NEW u \in Registered, NEW e \in Emails
  PROVE  /\ u \in Users /\ row[u] \in Rows /\ Moved(u, e) \in Rows /\ Moved(u, e).email = e
         /\ Moved(u, e).status = row[u].status /\ row[u].status # "absent"
         /\ Moved(u, e).verified = row[u].verified
         /\ Moved(u, e).grace => Moved(u, e).status = "DELETED"
<1>1. u \in Users /\ row[u] \in Rows /\ row[u].status # "absent" /\ (row[u].grace => row[u].status = "DELETED")
  BY Typed DEF Registered
<1> QED
  BY <1>1 DEF Moved, Rows

(* The update of an address: done, or refused by the index. *)
LEMMA ChangeEmailCases ==
  ASSUME IInv, NEW p \in Requests, ChangeEmail(p)
  PROVE  \/ Calm
         \/ /\ row' = [row EXCEPT ![req[p].user] = Moved(req[p].user, req[p].email)]
            /\ Done(p) /\ UNCHANGED overlapped
            /\ Deleted(req[p].user) \/ IndexAllows(req[p].user, req[p].email)
<1>1. CASE Deleted(req[p].user) \/ IndexAllows(req[p].user, req[p].email)
  BY <1>1 DEF ChangeEmail, Moved
<1>2. CASE ~(Deleted(req[p].user) \/ IndexAllows(req[p].user, req[p].email))
  <2>1. req[p].email \in Emails /\ req[p].at \in Finding
    BY Typed DEF ChangeEmail, At, Carries, OfEmail, Finding
  <2>2. req[p].email \in overlapped
    BY <1>2, <2>1 DEF IInv, FoundBefore, IndexAllows, findActiveByEmail, findByEmail
  <2> QED
    BY <1>2, <2>1, <2>2, ErrorCalm DEF ChangeEmail
<1> QED
  BY <1>1, <1>2

LEMMA ChangeEmailIInv == ASSUME IInv, NEW p \in Requests, ChangeEmail(p) PROVE IInv'
<1> DEFINE u == req[p].user
           e == req[p].email
<1>1. e \in Emails /\ req[p].at \in Finding /\ u \in Registered
  BY Typed DEF ChangeEmail, At, Carries, OfEmail, OfUser, Finding
<1>2. CASE /\ row' = [row EXCEPT ![u] = Moved(u, e)] /\ Done(p) /\ UNCHANGED overlapped
           /\ Deleted(u) \/ IndexAllows(u, e)
  <2>1. /\ u \in Users /\ row[u] \in Rows /\ Moved(u, e) \in Rows /\ Moved(u, e).email = e
        /\ Moved(u, e).status = row[u].status /\ row[u].status # "absent"
        /\ Moved(u, e).verified = row[u].verified
        /\ Moved(u, e).grace => Moved(u, e).status = "DELETED"
    BY <1>1, MovedTyped
  <2>2. Moved(u, e).status = "ACTIVE" => IndexAllows(u, e)
    BY <1>2, <2>1 DEF Deleted
  <2> HIDE DEF u, e
  <2>3. e = req[p].email
    BY DEF e
  <2> QED
    BY <1>1, <1>2, <2>1, <2>2, <2>3, GiveIInv
<1> QED
  BY <1>2, ChangeEmailCases, CalmIInv

LEMMA VerifyMarkIInv == ASSUME IInv, NEW p \in Requests, VerifyMark(p) PROVE IInv'
<1> DEFINE u == req[p].user
<1>1. /\ row \in [Users -> Rows] /\ req \in [Requests -> Requested] /\ overlapped \in SUBSET Emails
      /\ \A v \in Users : /\ row[v].email = None <=> row[v].status = "absent"
                          /\ row[v].grace => row[v].status = "DELETED"
                          /\ row[v].code => row[v].status # "absent"
      /\ \A q \in Requests : Carries(req[q])
      /\ u \in Users
  BY Typed, HasUser DEF VerifyMark, At, OfUser
<1>2. /\ row' \in [Users -> Rows]
      /\ \A v \in Users : /\ row'[v].email = row[v].email /\ row'[v].status = row[v].status
                          /\ row'[v].grace = row[v].grace /\ row'[v].code = row[v].code
                          /\ v # u => row'[v] = row[v]
  <2>1. row' = [row EXCEPT ![u] = [row[u] EXCEPT !.verified = TRUE]]
    BY DEF VerifyMark
  <2> HIDE DEF u
  <2> DEFINE r == [row[u] EXCEPT !.verified = TRUE]
  <2>2. /\ r \in Rows /\ r.email = row[u].email /\ r.status = row[u].status
        /\ r.grace = row[u].grace /\ r.code = row[u].code
    BY <1>1 DEF Rows
  <2>3. row' = [row EXCEPT ![u] = r]
    BY <2>1
  <2> HIDE DEF r
  <2> QED
    BY <1>1, <2>2, <2>3
<1>3. Registered' = Registered /\ Live' = Live
  BY <1>2 DEF Registered, Live
<1>4. ASSUME NEW q \in Requests
      PROVE  \/ req'[q] = IdleRequest
             \/ /\ req'[q] \in Requested /\ req'[q].at = req[q].at /\ req'[q].user = req[q].user
                /\ req'[q].email = req[q].email
                /\ req[q].late => req'[q].late
                /\ req[q].at \in {"changeTaken", "changeEmail"} /\ req[q].user = u => req'[q].late
  <2>1. req'[q] = IF q = p THEN IdleRequest
                  ELSE IF q \in Changing(u) THEN [req[q] EXCEPT !.late = TRUE] ELSE req[q]
    BY DEF VerifyMark
  <2>2. req[q] \in Requested
    BY <1>1
  <2>3. CASE q \in Changing(u)
    <3> DEFINE r == [req[q] EXCEPT !.late = TRUE]
    <3>1. /\ r \in Requested /\ r.at = req[q].at /\ r.user = req[q].user
          /\ r.email = req[q].email /\ r.late
      BY <2>2 DEF Requested
    <3>2. req'[q] = IdleRequest \/ req'[q] = r
      BY <2>1, <2>3
    <3> HIDE DEF r
    <3> QED
      BY <3>1, <3>2
  <2>4. CASE q \notin Changing(u)
    BY <2>1, <2>2, <2>4 DEF Changing
  <2> QED
    BY <2>3, <2>4
<1>5. IdleRequest \in Requested /\ IdleRequest.at = "idle"
  BY CalmDone DEF CalmRequest, IdleRequest, Request
<1>6. req' \in [Requests -> Requested]
  <2>1. DOMAIN req' = Requests /\ req' = [q \in Requests |-> req'[q]]
    BY DEF VerifyMark
  <2> QED
    BY <1>4, <1>5, <2>1
<1>7. \A q \in Requests : Carries(req[q])'
  BY <1>1, <1>3, <1>4, <1>5 DEF Carries, Ends, OfUser, OfEmail
<1>8. overlapped' = overlapped
  BY DEF VerifyMark
<1>9. TypeOK'
  BY <1>1, <1>2, <1>6, <1>7, <1>8, TypedNext
<1>10. CodesOwned' /\ LiveUnique' /\ SharedOnlyByOverlap'
  BY <1>2, <1>3, <1>8 DEF IInv, CodesOwned, LiveUnique, SharedOnlyByOverlap, Live, Registered
<1>11. FoundTogether' /\ FoundBefore' /\ FailsOnlyByOverlap'
  BY <1>2, <1>3, <1>4, <1>5, <1>8
  DEF IInv, FoundTogether, FoundBefore, FailsOnlyByOverlap, At, Finding, Registered
<1>12. ChangesLate'
  <2> SUFFICES ASSUME NEW q \in Requests, req'[q].at \in {"changeTaken", "changeEmail"},
                      row'[req'[q].user].verified
               PROVE  req'[q].late
    BY DEF ChangesLate
  <2>1. /\ req'[q].at = req[q].at /\ req'[q].user = req[q].user /\ req[q].user \in Users
        /\ req[q].late => req'[q].late
        /\ req[q].user = u => req'[q].late
    BY <1>1, <1>4, <1>5 DEF Carries, OfUser, Registered
  <2> QED
    BY <1>2, <2>1 DEF IInv, ChangesLate
<1> QED
  BY <1>7, <1>9, <1>10, <1>11, <1>12 DEF IInv

LEMMA NextIInv == IInv /\ [Next]_vars => IInv'
<1> SUFFICES ASSUME IInv, [Next]_vars PROVE IInv'
  OBVIOUS
<1>1. CASE UNCHANGED vars
  BY <1>1, CalmIInv DEF Calm, vars
<1>2. ASSUME NEW u \in Users, DeleteMe(u) \/ GraceEnds(u) \/ CodeExpires(u) PROVE IInv'
  BY <1>2, DeleteMeCalm, GraceEndsCalm, CodeExpiresCalm, CalmIInv
<1>3. ASSUME NEW p \in Requests, Step(p) PROVE IInv'
  BY <1>3, RegisterInsertIInv, AbortCalm, ChangeTakenIInv, ChangeEmailIInv, VerifyMarkIInv, VerifyCalm,
     LoginCalm, RequestRestoreCalm, ConfirmRestoreCalm, CalmIInv DEF Step
<1>4. ASSUME NEW p \in Requests, Arrival(p) PROVE IInv'
  BY <1>4, RegisterFindIInv, LoginCalm, RequestRestoreCalm, ConfirmRestoreCalm, ChangeFindIInv, VerifyCalm,
     CalmIInv DEF Arrival
<1>5. ASSUME NEW p \in Requests, Abort(p) PROVE IInv'
  BY <1>5, AbortCalm, CalmIInv
<1> QED
  BY <1>1, <1>2, <1>3, <1>4, <1>5 DEF Next

THEOREM Invariance == Spec => []IInv
BY InitIInv, NextIInv, PTL DEF Spec

-----------------------------------------------------------------------------

(* What a step may do to the table. *)
Inserted(p, u) ==
  /\ u \notin Registered /\ req[p].email \in Emails
  /\ row' = [row EXCEPT ![u] = NewRow(req[p].email)] /\ IndexAllows(u, req[p].email)
Changed(p) ==
  /\ At(p, "changeEmail") /\ req[p].user \in Registered /\ req[p].email \in Emails
  /\ row' = [row EXCEPT ![req[p].user] = Moved(req[p].user, req[p].email)]
  /\ Deleted(req[p].user) \/ IndexAllows(req[p].user, req[p].email)

RowChange ==
  \/ row' = row
  \/ \E u \in Users : CalmRow(u)
  \/ \E p \in Requests : VerifyMark(p)
  \/ \E p \in Requests, u \in Users : Inserted(p, u)
  \/ \E p \in Requests : Changed(p)

LEMMA RowSteps == ASSUME IInv, [Next]_vars PROVE RowChange
<1>1. Calm \/ row' = row => RowChange
  BY DEF Calm, RowChange
<1>2. ASSUME NEW p \in Requests, VerifyMark(p) PROVE RowChange
  BY <1>2 DEF RowChange
<1>3. ASSUME NEW p \in Requests, NEW u \in Users, Inserted(p, u) PROVE RowChange
  BY <1>3 DEF RowChange
<1>4. ASSUME NEW p \in Requests, Changed(p) PROVE RowChange
  BY <1>4 DEF RowChange
<1>5. ASSUME NEW p \in Requests, NEW u \in Users, RegisterInsert(p, u) PROVE RowChange
  <2>1. req[p].email \in Emails /\ u \notin Registered
    BY <1>5, Typed DEF RegisterInsert, At, Carries, OfEmail
  <2> QED
    BY <1>1, <1>3, <1>5, <2>1, RegisterInsertCases DEF Inserted
<1>6. ASSUME NEW p \in Requests, ChangeEmail(p) PROVE RowChange
  <2>1. req[p].email \in Emails /\ req[p].user \in Registered /\ At(p, "changeEmail")
    BY <1>6, Typed DEF ChangeEmail, At, Carries, OfEmail, OfUser
  <2> QED
    BY <1>1, <1>4, <1>6, <2>1, ChangeEmailCases DEF Changed
<1>7. ASSUME NEW p \in Requests, ChangeTaken(p) PROVE row' = row
  BY <1>7 DEF ChangeTaken
<1>8. ASSUME NEW p \in Requests, NEW e \in Emails, RegisterFind(p, e) PROVE row' = row
  BY <1>8 DEF RegisterFind
<1>9. ASSUME NEW p \in Requests, NEW u \in Users, NEW e \in Emails, ChangeFind(p, u, e) PROVE row' = row
  BY <1>9 DEF ChangeFind
<1>10. ASSUME NEW u \in Users, DeleteMe(u) \/ GraceEnds(u) \/ CodeExpires(u) PROVE RowChange
  BY <1>1, <1>10, DeleteMeCalm, GraceEndsCalm, CodeExpiresCalm
<1>11. ASSUME NEW p \in Requests, Step(p) PROVE RowChange
  BY <1>1, <1>2, <1>5, <1>6, <1>7, <1>11, AbortCalm, VerifyCalm, LoginCalm, RequestRestoreCalm,
     ConfirmRestoreCalm DEF Step
<1>12. ASSUME NEW p \in Requests, Arrival(p) \/ Abort(p) PROVE RowChange
  BY <1>1, <1>8, <1>9, <1>12, AbortCalm, VerifyCalm, LoginCalm, RequestRestoreCalm,
     ConfirmRestoreCalm DEF Arrival
<1>13. CASE UNCHANGED vars
  BY <1>1, <1>13 DEF vars
<1>14. CASE Next
  BY <1>10, <1>11, <1>12, <1>14 DEF Next
<1> QED
  BY <1>13, <1>14

(* Rows, requests and marks stay within their types (user.repository.ts):  *)
(* a row has an address from its insertion on, and a grace period only     *)
(* while it is deleted.                                                    *)
THEOREM TypeCorrect == Spec => []TypeOK
BY Invariance, PTL DEF IInv

(* Two rows share an address only if two requests found it free at once    *)
(* (register and updateUnverifiedEmail of auth.service.ts).                *)
THEOREM SharingNeedsOverlap == Spec => []SharedOnlyByOverlap
BY Invariance, PTL DEF IInv

(* The unique index refuses an insert, an update or a restoration only over*)
(* such an address (auth.service.ts).                                      *)
THEOREM FailuresNeedOverlap == Spec => []FailsOnlyByOverlap
BY Invariance, PTL DEF IInv

(* A verified account changes its address only by a request that was in    *)
(* flight when it was verified (updateUnverifiedEmail of auth.service.ts). *)
THEOREM VerifiedAddressKept == Spec => VerifiedKeepsAddress
<1>1. ASSUME IInv, [Next]_vars, NEW u \in Registered, row'[u].email # row[u].email, row[u].verified
      PROVE  \E p \in Requests : At(p, "changeEmail") /\ req[p].user = u /\ req[p].late
  <2>1. u \in Users /\ row \in [Users -> Rows]
    BY <1>1, Typed DEF Registered
  <2>2. ASSUME NEW v \in Users, CalmRow(v) PROVE FALSE
    <3>1. row'[u] = row[u] \/ u = v
      BY <2>1, <2>2 DEF CalmRow
    <3> QED
      BY <1>1, <2>2, <3>1 DEF CalmRow, SameAddress
  <2>3. ASSUME NEW p \in Requests, VerifyMark(p) PROVE FALSE
    <3> DEFINE r == [row[req[p].user] EXCEPT !.verified = TRUE]
    <3>1. row' = [row EXCEPT ![req[p].user] = r]
      BY <2>3 DEF VerifyMark
    <3>2. u = req[p].user => r.email = row[u].email
      BY <2>1 DEF Rows
    <3> HIDE DEF r
    <3> QED
      BY <1>1, <2>1, <3>1, <3>2
  <2>4. ASSUME NEW p \in Requests, NEW v \in Users, Inserted(p, v) PROVE FALSE
    <3>1. row' = [row EXCEPT ![v] = NewRow(req[p].email)] /\ u # v
      BY <2>4 DEF Inserted
    <3> QED
      BY <1>1, <2>1, <3>1
  <2>5. ASSUME NEW p \in Requests, Changed(p)
        PROVE  At(p, "changeEmail") /\ req[p].user = u /\ req[p].late
    <3>1. req[p].user = u
      BY <1>1, <2>1, <2>5 DEF Changed
    <3> QED
      BY <1>1, <2>5, <3>1 DEF Changed, At, IInv, ChangesLate
  <2> QED
    BY <1>1, <2>1, <2>2, <2>3, <2>4, <2>5, RowSteps DEF RowChange
<1>2. IInv /\ [Next]_vars =>
        [\A u \in Registered :
           row'[u].email # row[u].email /\ row[u].verified =>
             \E p \in Requests : At(p, "changeEmail") /\ req[p].user = u /\ req[p].late]_vars
  BY <1>1
<1> QED
  BY <1>2, Invariance, PTL DEF Spec, VerifiedKeepsAddress

-----------------------------------------------------------------------------
(* The refinement.  A row is listed while it is in use.                    *)
holders == [e \in Emails |-> findActiveByEmail(e)]

LEMMA Listed ==
  /\ holders \in [Emails -> SUBSET Users]
  /\ \A e \in Emails, v \in Users : v \in holders[e] <=> row[v].status = "ACTIVE" /\ row[v].email = e
BY DEF holders, findActiveByEmail, findByEmail, Registered, Live

LEMMA ListedNext ==
  /\ holders' \in [Emails -> SUBSET Users]
  /\ \A e \in Emails, v \in Users : v \in holders'[e] <=> row'[v].status = "ACTIVE" /\ row'[v].email = e
BY DEF holders, findActiveByEmail, findByEmail, Registered, Live

(* Two sets of rows are equal if they have the same rows. *)
LEMMA SameRows ==
  ASSUME NEW f \in Emails, NEW S \in SUBSET Users,
         \A v \in Users : v \in S <=> row'[v].status = "ACTIVE" /\ row'[v].email = f
  PROVE  holders'[f] = S
<1>1. holders'[f] \in SUBSET Users
  BY ListedNext
<1>2. \A v \in Users : v \in holders'[f] <=> v \in S
  BY ListedNext
<1> QED
  BY <1>1, <1>2

(* A row comes into use under an address that the index allows. *)
LEMMA TakeRefines ==
  ASSUME NEW u \in Users, NEW e \in Emails, NEW r, row \in [Users -> Rows], row' = [row EXCEPT ![u] = r],
         row[u].status # "ACTIVE", r.status = "ACTIVE", r.email = e, IndexAllows(u, e)
  PROVE  Book!Next
<1>1. \A v \in Users : row'[v] = IF v = u THEN r ELSE row[v]
  OBVIOUS
<1>2. \A f \in Emails : u \notin holders[f]
  BY Listed
<1>3. holders[e] = {}
  BY <1>2, Listed DEF IndexAllows, holders
<1>4. holders' = [holders EXCEPT ![e] = {u}]
  <2>1. \A f \in Emails : holders'[f] = IF f = e THEN {u} ELSE holders[f]
    <3> SUFFICES ASSUME NEW f \in Emails PROVE holders'[f] = IF f = e THEN {u} ELSE holders[f]
      OBVIOUS
    <3>1. \A v \in Users : v \in holders[f] <=> row[v].status = "ACTIVE" /\ row[v].email = f
      BY Listed
    <3>2. CASE f = e
      <4>1. \A v \in Users : v \in {u} <=> row'[v].status = "ACTIVE" /\ row'[v].email = f
        BY <1>1, <1>3, <3>1, <3>2
      <4>2. {u} \in SUBSET Users
        OBVIOUS
      <4> QED
        BY <3>2, <4>1, <4>2, SameRows
    <3>3. CASE f # e
      <4>1. holders[f] \in SUBSET Users
        BY Listed
      <4> QED
        BY <1>1, <1>2, <3>1, <3>3, <4>1, SameRows
    <3> QED
      BY <3>2, <3>3
  <2> QED
    BY <2>1, Listed, ListedNext
<1>5. Book!Take(u, e)
  BY <1>2, <1>3, <1>4 DEF Book!Take, Book!Unlisted, Book!Vacant, holders
<1> QED
  BY <1>5 DEF Book!Next

(* A row in use gets another address that the index allows. *)
LEMMA MoveRefines ==
  ASSUME NEW u \in Users, NEW e \in Emails, NEW r, row \in [Users -> Rows], row' = [row EXCEPT ![u] = r],
         row[u].status = "ACTIVE", row[u].email \in Emails, row[u].email # e,
         r.status = "ACTIVE", r.email = e, IndexAllows(u, e)
  PROVE  Book!Next
<1>1. \A v \in Users : row'[v] = IF v = u THEN r ELSE row[v]
  OBVIOUS
<1>2. u \in holders[row[u].email] /\ u \notin holders[e]
  BY Listed
<1>3. holders[e] = {}
  BY <1>2, Listed DEF IndexAllows, holders
<1>4. holders' = [f \in Emails |-> IF f = e THEN {u} ELSE holders[f] \ {u}]
  <2>1. \A f \in Emails : holders'[f] = IF f = e THEN {u} ELSE holders[f] \ {u}
    BY <1>1, <1>2, <1>3, Listed, ListedNext
  <2> QED
    BY <2>1, Listed, ListedNext
<1>5. Book!Move(u, e)
  BY <1>2, <1>3, <1>4 DEF Book!Move, Book!Unlisted, Book!Vacant, holders
<1> QED
  BY <1>5 DEF Book!Next

(* A row in use is deleted. *)
LEMMA GiveUpRefines ==
  ASSUME NEW u \in Users, NEW r, row \in [Users -> Rows], row' = [row EXCEPT ![u] = r],
         row[u].status = "ACTIVE", row[u].email \in Emails, r.status # "ACTIVE"
  PROVE  Book!Next
<1>1. \A v \in Users : row'[v] = IF v = u THEN r ELSE row[v]
  OBVIOUS
<1>2. u \in holders[row[u].email]
  BY Listed
<1>3. holders' = [f \in Emails |-> holders[f] \ {u}]
  <2>1. \A f \in Emails : holders'[f] = holders[f] \ {u}
    BY <1>1, Listed, ListedNext
  <2> QED
    BY <2>1, Listed, ListedNext
<1>4. Book!GiveUp(u)
  BY <1>2, <1>3 DEF Book!GiveUp, Book!Unlisted, holders
<1> QED
  BY <1>4 DEF Book!Next

(* What is listed stays so where status and address do. *)
LEMMA StutterRefines ==
  ASSUME \A v \in Users : (row'[v].status = "ACTIVE" <=> row[v].status = "ACTIVE")
                          /\ (row[v].status = "ACTIVE" => row'[v].email = row[v].email)
  PROVE  holders' = holders
<1>1. ASSUME NEW f \in Emails PROVE holders'[f] = holders[f]
  <2>1. \A v \in Users : v \in holders[f] <=> row'[v].status = "ACTIVE" /\ row'[v].email = f
    BY Listed
  <2>2. holders[f] \in SUBSET Users
    BY Listed
  <2> QED
    BY <2>1, <2>2, SameRows
<1> QED
  BY <1>1, Listed, ListedNext

LEMMA StepRefines == IInv /\ [Next]_vars => [Book!Next]_holders
<1> SUFFICES ASSUME IInv, [Next]_vars PROVE Book!Next \/ holders' = holders
  OBVIOUS
<1>1. /\ row \in [Users -> Rows]
      /\ \A v \in Users : row[v].status # "absent" => row[v].email \in Emails
  BY Typed DEF Rows
<1>2. CASE row' = row
  BY <1>2, StutterRefines
<1>3. ASSUME NEW u \in Users, CalmRow(u) PROVE Book!Next \/ holders' = holders
  <2>1. row' = [row EXCEPT ![u] = row'[u]] /\ row'[u].email = row[u].email
    BY <1>3 DEF CalmRow, SameAddress
  <2>2. CASE row'[u].status = "ACTIVE" /\ row[u].status # "ACTIVE"
    <3>1. row[u].email \in Emails /\ IndexAllows(u, row[u].email)
      BY <1>1, <1>3, <2>2 DEF CalmRow, SameAddress
    <3> QED
      BY <1>1, <2>1, <2>2, <3>1, TakeRefines
  <2>3. CASE row'[u].status # "ACTIVE" /\ row[u].status = "ACTIVE"
    BY <1>1, <2>1, <2>3, GiveUpRefines
  <2>4. CASE row'[u].status = "ACTIVE" <=> row[u].status = "ACTIVE"
    <3>1. \A v \in Users : v # u => row'[v] = row[v]
      BY <1>1, <2>1
    <3> QED
      BY <2>1, <2>4, <3>1, StutterRefines
  <2> QED
    BY <2>2, <2>3, <2>4
<1>4. ASSUME NEW p \in Requests, VerifyMark(p) PROVE holders' = holders
  <2> DEFINE u == req[p].user
             r == [row[u] EXCEPT !.verified = TRUE]
  <2>1. row' = [row EXCEPT ![u] = r] /\ u \in Users
    BY <1>4, HasUser DEF VerifyMark, At, OfUser
  <2>2. r.status = row[u].status /\ r.email = row[u].email
    BY <1>1, <2>1 DEF Rows
  <2> HIDE DEF u, r
  <2>3. \A v \in Users : row'[v].status = row[v].status /\ row'[v].email = row[v].email
    BY <1>1, <2>1, <2>2
  <2> QED
    BY <2>3, StutterRefines
<1>5. ASSUME NEW p \in Requests, NEW u \in Users, Inserted(p, u) PROVE Book!Next
  <2>1. row[u].status # "ACTIVE"
    BY <1>5 DEF Inserted, Registered
  <2> QED
    BY <1>1, <1>5, <2>1, NewRowTyped, TakeRefines DEF Inserted
<1>6. ASSUME NEW p \in Requests, Changed(p) PROVE Book!Next \/ holders' = holders
  <2> DEFINE u == req[p].user
             e == req[p].email
             r == Moved(u, e)
  <2>1. /\ row' = [row EXCEPT ![u] = r] /\ e \in Emails /\ u \in Users
        /\ row[u].status = "DELETED" \/ IndexAllows(u, e)
        /\ r.email = e /\ r.status = row[u].status /\ row[u].status # "absent"
    BY <1>6, MovedTyped DEF Changed, Deleted
  <2> HIDE DEF u, e, r
  <2>2. \A v \in Users : v # u => row'[v] = row[v]
    BY <1>1, <2>1
  <2>3. row'[u] = r
    BY <1>1, <2>1
  <2>4. CASE row[u].status = "ACTIVE" /\ row[u].email # e
    BY <1>1, <2>1, <2>4, MoveRefines
  <2>5. CASE row[u].status # "ACTIVE" \/ row[u].email = e
    BY <2>1, <2>2, <2>3, <2>5, StutterRefines
  <2> QED
    BY <2>4, <2>5
<1> QED
  BY <1>2, <1>3, <1>4, <1>5, <1>6, RowSteps DEF RowChange

(* The users table, with lookups that other requests overtake, implements  *)
(* the address book: no two accounts in use ever have one address          *)
(* (the partial unique index over auth.service.ts and user.repository.ts). *)
THEOREM Refinement == Spec => ImplementsAddressBook
<1>1. Init => Book!Init
  BY DEF Init, Book!Init, findActiveByEmail, findByEmail, Registered, Live, Absent
<1>2. IInv /\ [Next]_vars => [Book!Next]_([e \in Emails |-> findActiveByEmail(e)])
  BY StepRefines DEF holders
<1> QED
  BY <1>1, <1>2, Invariance, PTL DEF Spec, ImplementsAddressBook, Book!Spec
=============================================================================
