------------------------------ MODULE Accounts ------------------------------
(***************************************************************************)
(* The users table as the requests of several people see it: who has which *)
(* address, and which row a lookup by address finds.  The handlers are     *)
(* register, updateUnverifiedEmail, verifyEmail, login, requestRestore and *)
(* confirmRestore (services/auth.service.ts) and deleteMe (services/       *)
(* user.service.ts), over repositories/user.repository.ts and the partial  *)
(* unique index of the migration 20260419020055: an address is unique      *)
(* among the rows that are not deleted, and only among those.              *)
(*                                                                         *)
(* Every query is a step, and between two steps of a request any other may *)
(* run, or the request may end with the process.  findFirst has no order,  *)
(* so it gives any row that matches.  Sessions and versions (AuthSessions) *)
(* and one-time codes (EmailVerification) are left out: whether a code or  *)
(* a password is the right one is a choice.                                *)
(***************************************************************************)
EXTENDS FiniteSets

CONSTANTS
  Users,     \* the rows there may be
  Emails,    \* the addresses, as the schemas normalise them
  None,      \* no address, no row
  Requests   \* slots for HTTP requests in flight

ASSUME NoneAssumption == None \notin Emails /\ None \notin Users

VARIABLES
  row,         \* the users table
  req,         \* the requests in flight
  overlapped   \* addresses that two requests found free at once (history only)

vars == <<row, req, overlapped>>

(* status is "absent" for a row that was not inserted; deletedAt is set if *)
(* and only if it is "DELETED".  grace is whether gracePeriodEnd is set    *)
(* and still ahead, and code whether an unused restore code is stored that *)
(* has not expired.                                                        *)
Absent == [status |-> "absent", email |-> None, verified |-> FALSE, grace |-> FALSE, code |-> FALSE]
Rows == [status : {"absent", "ACTIVE", "DELETED"}, email : Emails \cup {None},
         verified : BOOLEAN, grace : BOOLEAN, code : BOOLEAN]

Registered == {u \in Users : row[u].status # "absent"}
Live == {u \in Users : row[u].status = "ACTIVE"}
Deleted(u) == row[u].status = "DELETED"

findByEmail(e) == {u \in Registered : row[u].email = e}
findActiveByEmail(e) == findByEmail(e) \cap Live
findDeletedByEmail(e) == {u \in findByEmail(e) : Deleted(u)}
canRestore(u) == Deleted(u) /\ row[u].grace

(* The partial unique index lets a row that is not deleted have address e. *)
IndexAllows(u, e) == findActiveByEmail(e) \subseteq {u}

(* Where a request stands: the query it sends next, or how it ended, as    *)
(* far as a property is about the answer: EMAIL_ALREADY_VERIFIED, an error *)
(* of the unique index, or anything else.  late is whether the account was *)
(* verified since the request that changes its address began (history).    *)
Steps == {"insert", "changeTaken", "changeEmail", "verifyMark", "loginDeleted", "loginGrace",
          "restoreGrace", "restoreSet", "confirmGrace", "confirmMatch", "confirmConsume", "confirmWrite"}
Ends == {"idle", "toldVerified", "indexError"}

Request(at, u, e, deleted) == [at |-> at, user |-> u, email |-> e, deleted |-> deleted, late |-> FALSE]
IdleRequest == Request("idle", None, None, FALSE)

Idle(p) == req[p].at \in Ends
At(p, step) == req[p].at = step
Begin(p, at, u, e, deleted) == Idle(p) /\ req' = [req EXCEPT ![p] = Request(at, u, e, deleted)]
Goto(p, step) == req' = [req EXCEPT ![p].at = step]
Done(p) == req' = [req EXCEPT ![p] = IdleRequest]
Answer(p, answer, u, e) == req' = [req EXCEPT ![p] = Request(answer, u, e, FALSE)]

Init ==
  /\ row = [u \in Users |-> Absent]
  /\ req = [p \in Requests |-> IdleRequest]
  /\ overlapped = {}

(* The requests about to give e to a row, having found that no row has it. *)
FoundFree(e) == {p \in Requests : req[p].at \in {"insert", "changeEmail"} /\ req[p].email = e}
NoteOverlap(p, e) ==
  overlapped' = IF FoundFree(e) \subseteq {p} THEN overlapped ELSE overlapped \cup {e}

-----------------------------------------------------------------------------
(* register: the lookup, then the insert, which throws if the index does   *)
(* not allow it.                                                           *)

(* Mutant: a lookup that sees accounts in use only. *)
RegisterFindLive(p, e) ==
  /\ IF findActiveByEmail(e) # {} THEN Idle(p) /\ Done(p) /\ UNCHANGED overlapped
     ELSE Begin(p, "insert", None, e, FALSE) /\ NoteOverlap(p, e)
  /\ UNCHANGED row

RegisterFind(p, e) ==
  /\ IF findByEmail(e) # {} THEN Idle(p) /\ Done(p) /\ UNCHANGED overlapped
     ELSE Begin(p, "insert", None, e, FALSE) /\ NoteOverlap(p, e)
  /\ UNCHANGED row

NewRow(e) == [Absent EXCEPT !.status = "ACTIVE", !.email = e]

(* Mutant: no index, only the lookup. *)
RegisterInsertAnyway(p, u) ==
  /\ At(p, "insert") /\ u \notin Registered
  /\ row' = [row EXCEPT ![u] = NewRow(req[p].email)]
  /\ Done(p)
  /\ UNCHANGED overlapped

RegisterInsert(p, u) ==
  /\ At(p, "insert") /\ u \notin Registered
  /\ IF IndexAllows(u, req[p].email)
       THEN row' = [row EXCEPT ![u] = NewRow(req[p].email)] /\ Done(p)
       ELSE UNCHANGED row /\ Answer(p, "indexError", None, req[p].email)
  /\ UNCHANGED overlapped

(* deleteMe.  A second deletion in flight changes nothing that is modelled.*)
DeleteMe(u) ==
  /\ u \in Live
  /\ row' = [row EXCEPT ![u].status = "DELETED", ![u].grace = TRUE]
  /\ UNCHANGED <<req, overlapped>>

-----------------------------------------------------------------------------
(* updateUnverifiedEmail.  Whether the limit on changes refuses it between *)
(* the two lookups is EmailVerification's matter, and a choice here.       *)

(* Mutant: verified accounts may change their address. *)
ChangeFindAnyone(p, u, new) ==
  /\ u \in Registered
  /\ Begin(p, "changeTaken", u, new, FALSE)
  /\ UNCHANGED <<row, overlapped>>

ChangeFind(p, u, new) ==
  /\ u \in Registered
  /\ IF row[u].verified THEN Begin(p, "toldVerified", u, None, FALSE)
     ELSE IF row[u].email = new THEN Idle(p) /\ Done(p)
     ELSE Begin(p, "changeTaken", u, new, FALSE)
  /\ UNCHANGED <<row, overlapped>>

ChangeLimitReached(p) ==
  /\ At(p, "changeTaken")
  /\ Done(p)
  /\ UNCHANGED <<row, overlapped>>

ChangeTaken(p) ==
  /\ At(p, "changeTaken")
  /\ IF findByEmail(req[p].email) # {} THEN Done(p) /\ UNCHANGED overlapped
     ELSE Goto(p, "changeEmail") /\ NoteOverlap(p, req[p].email)
  /\ UNCHANGED row

ChangeEmail(p) ==
  /\ At(p, "changeEmail")
  /\ LET u == req[p].user IN
       IF Deleted(u) \/ IndexAllows(u, req[p].email)
         THEN row' = [row EXCEPT ![u].email = req[p].email] /\ Done(p)
         ELSE UNCHANGED row /\ Answer(p, "indexError", None, req[p].email)
  /\ UNCHANGED overlapped

-----------------------------------------------------------------------------
(* verifyEmail.  The body has no email once it is validated, and Prisma    *)
(* ignores a filter that is undefined: the first row of the table decides  *)
(* whether the account of the request is taken for verified.               *)
VerifyFind(p, u, first) ==
  /\ {u, first} \subseteq Registered
  /\ Begin(p, IF row[first].verified THEN "toldVerified" ELSE "verifyMark", u, None, FALSE)
  /\ UNCHANGED <<row, overlapped>>

Changing(u) == {p \in Requests : req[p].at \in {"changeTaken", "changeEmail"} /\ req[p].user = u}

VerifyMark(p) ==
  /\ At(p, "verifyMark")
  /\ row' = [row EXCEPT ![req[p].user].verified = TRUE]
  /\ req' = [q \in Requests |-> IF q = p THEN IdleRequest
                             ELSE IF q \in Changing(req[p].user) THEN [req[q] EXCEPT !.late = TRUE]
                             ELSE req[q]]
  /\ UNCHANGED overlapped

VerifyWrong(p) ==
  /\ At(p, "verifyMark")
  /\ Done(p)
  /\ UNCHANGED <<row, overlapped>>

-----------------------------------------------------------------------------
(* login, for the rows its three lookups find: an account in use, whose    *)
(* password is compared; else one that is deleted, and whether it can be   *)
(* restored.  Whatever it answers, nothing of the table changes.           *)
LoginFind(p, e) ==
  /\ IF findActiveByEmail(e) = {} THEN Begin(p, "loginDeleted", None, e, FALSE)
     ELSE Idle(p) /\ Done(p)
  /\ UNCHANGED <<row, overlapped>>

LoginDeleted(p) ==
  /\ At(p, "loginDeleted")
  /\ IF findDeletedByEmail(req[p].email) = {} THEN Done(p)
     ELSE \E u \in findDeletedByEmail(req[p].email) :
            req' = [req EXCEPT ![p].at = "loginGrace", ![p].user = u]
  /\ UNCHANGED <<row, overlapped>>

LoginGrace(p) ==
  /\ At(p, "loginGrace")
  /\ Done(p)
  /\ UNCHANGED <<row, overlapped>>

-----------------------------------------------------------------------------
(* requestRestore and confirmRestore: both go by the status of the row     *)
(* that their first lookup found.                                          *)
RestoreFind(p, e) ==
  /\ \/ findByEmail(e) = {} /\ Idle(p) /\ Done(p)
     \/ \E u \in findByEmail(e) :
          Begin(p, IF Deleted(u) THEN "restoreGrace" ELSE "restoreSet", u, e, Deleted(u))
  /\ UNCHANGED <<row, overlapped>>

RestoreGrace(p) ==
  /\ At(p, "restoreGrace")
  /\ IF canRestore(req[p].user) THEN Goto(p, "restoreSet") ELSE Done(p)
  /\ UNCHANGED <<row, overlapped>>

RestoreSet(p) ==
  /\ At(p, "restoreSet")
  /\ row' = [row EXCEPT ![req[p].user].code = TRUE]
  /\ Done(p)
  /\ UNCHANGED overlapped

ConfirmFind(p, e) ==
  /\ \/ findByEmail(e) = {} /\ Idle(p) /\ Done(p)
     \/ \E u \in findByEmail(e) :
          Begin(p, IF Deleted(u) THEN "confirmGrace" ELSE "confirmMatch", u, e, Deleted(u))
  /\ UNCHANGED <<row, overlapped>>

ConfirmGrace(p) ==
  /\ At(p, "confirmGrace")
  /\ IF canRestore(req[p].user) THEN Goto(p, "confirmMatch") ELSE Done(p)
  /\ UNCHANGED <<row, overlapped>>

ConfirmMatch(p) ==
  /\ At(p, "confirmMatch")
  /\ \/ Done(p)
     \/ row[req[p].user].code /\ Goto(p, "confirmConsume")
  /\ UNCHANGED <<row, overlapped>>

ConfirmConsume(p) ==
  /\ At(p, "confirmConsume")
  /\ row' = [row EXCEPT ![req[p].user].code = FALSE]
  /\ Goto(p, "confirmWrite")
  /\ UNCHANGED overlapped

(* Mutant: the end of the grace period is kept. *)
restoreAccountKeepsGrace(u) == [row[u] EXCEPT !.status = "ACTIVE", !.code = FALSE]

restoreAccount(u) == [row[u] EXCEPT !.status = "ACTIVE", !.grace = FALSE, !.code = FALSE]

(* The restoration throws if the index does not allow it, and the code is  *)
(* spent all the same.                                                     *)
ConfirmWrite(p) ==
  /\ At(p, "confirmWrite")
  /\ LET u == req[p].user
         back == IF req[p].deleted THEN restoreAccount(u) ELSE [row[u] EXCEPT !.code = FALSE]
     IN IF back.status = "ACTIVE" /\ ~IndexAllows(u, back.email)
          THEN UNCHANGED row /\ Answer(p, "indexError", None, back.email)
          ELSE row' = [row EXCEPT ![u] = back] /\ Done(p)
  /\ UNCHANGED overlapped

-----------------------------------------------------------------------------
(* Thirty days after a deletion, ten minutes after a restore code was made,*)
(* and a process that dies or a query that throws.                         *)
GraceEnds(u) ==
  /\ row[u].grace
  /\ row' = [row EXCEPT ![u].grace = FALSE]
  /\ UNCHANGED <<req, overlapped>>

CodeExpires(u) ==
  /\ row[u].code
  /\ row' = [row EXCEPT ![u].code = FALSE]
  /\ UNCHANGED <<req, overlapped>>

Abort(p) ==
  /\ ~Idle(p)
  /\ req' = [req EXCEPT ![p] = IdleRequest]
  /\ UNCHANGED <<row, overlapped>>

Step(p) ==
  \/ \E u \in Users : RegisterInsert(p, u)
  \/ ChangeLimitReached(p) \/ ChangeTaken(p) \/ ChangeEmail(p)
  \/ VerifyMark(p) \/ VerifyWrong(p)
  \/ LoginDeleted(p) \/ LoginGrace(p)
  \/ RestoreGrace(p) \/ RestoreSet(p)
  \/ ConfirmGrace(p) \/ ConfirmMatch(p) \/ ConfirmConsume(p) \/ ConfirmWrite(p)

Arrival(p) ==
  \/ \E e \in Emails : RegisterFind(p, e) \/ LoginFind(p, e) \/ RestoreFind(p, e) \/ ConfirmFind(p, e)
  \/ \E u \in Users, e \in Emails : ChangeFind(p, u, e)
  \/ \E u, first \in Users : VerifyFind(p, u, first)

Next ==
  \/ \E u \in Users : DeleteMe(u) \/ GraceEnds(u) \/ CodeExpires(u)
  \/ \E p \in Requests : Step(p) \/ Arrival(p) \/ Abort(p)

Spec == Init /\ [][Next]_vars

-----------------------------------------------------------------------------

TypeOK ==
  /\ row \in [Users -> Rows]
  /\ \A u \in Users : /\ row[u].email = None <=> u \notin Registered
                      /\ row[u].grace => Deleted(u)
  /\ req \in [Requests -> [at : Steps \cup Ends, user : Users \cup {None},
                           email : Emails \cup {None}, deleted : BOOLEAN, late : BOOLEAN]]
  /\ \A p \in Requests : ~Idle(p) /\ req[p].user # None => req[p].user \in Registered
  /\ overlapped \in SUBSET Emails

(* No two accounts in use have one address, whatever the lookups saw: the  *)
(* table implements an address book (repositories/user.repository.ts).     *)
Book == INSTANCE AddressBook WITH holders <- [e \in Emails |-> findActiveByEmail(e)]
ImplementsAddressBook == Book!Spec

(* register and updateUnverifiedEmail look for deleted rows too, so two    *)
(* rows share an address only if two requests found it free at once; no    *)
(* address of a deleted account can be had any other way, though login     *)
(* answers "permanently deleted, create a new account".                    *)
SharedOnlyByOverlap ==
  \A u, v \in Registered : u # v /\ row[u].email = row[v].email => row[u].email \in overlapped

(* The index refuses an insert, an update or a restoration (a 500, and the *)
(* restore code is gone) only where two requests found an address free at  *)
(* once: no sequence of requests one after the other leads there.          *)
FailsOnlyByOverlap ==
  \A p \in Requests : At(p, "indexError") => req[p].email \in overlapped

(* The address of a verified account changes only by a request that was in *)
(* flight when the account was verified.                                   *)
VerifiedKeepsAddress ==
  [][\A u \in Registered :
       row'[u].email # row[u].email /\ row[u].verified =>
         \E p \in Requests : At(p, "changeEmail") /\ req[p].user = u /\ req[p].late]_vars

(* "Email is already verified" is told only of accounts that are: what     *)
(* verifyEmail says it checks, and not what its lookup checks.             *)
ToldVerified ==
  \A p \in Requests : At(p, "toldVerified") => row[req[p].user].verified
=============================================================================
