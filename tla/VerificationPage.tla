-------------------------- MODULE VerificationPage --------------------------
(***************************************************************************)
(* The page on which an address is verified (pages/auth/verify-email.tsx)  *)
(* with its mutations (hooks/use-auth.ts), the hydration of the store      *)
(* (App.tsx) and the guards it leaves through (components/route-guard.tsx),*)
(* and the handlers it calls (services/auth.service.ts) as far as the page *)
(* can tell: EmailVerification has every command of theirs.                *)
(*                                                                         *)
(* It starts where useRegister navigates to the page.  One tab, and one    *)
(* request of a kind at a time.  Whatever stops a request (a limit, an     *)
(* exception, Redis or the process gone, an answer lost) is a fault of it; *)
(* what it did so far stays done.                                          *)
(***************************************************************************)
EXTENDS Integers, FiniteSets

CONSTANTS
  Emails,       \* the addresses of the person
  Codes,        \* the codes
  None,         \* no code, no address, nobody
  Short, Long,  \* the shortest and the longest cooldown of requestOtp
  MaxSends,     \* bound on the codes requested from the page,
  MaxReloads,   \* on reloads,
  MaxFaults     \* and on faults

Users == [email : Emails, verified : BOOLEAN]

ASSUME NoneAssumption == None \notin Emails /\ None \notin Codes /\ None \notin Users
ASSUME BoundsAssumption ==
  Short \in Nat /\ Long \in Nat /\ Short <= Long /\ MaxSends \in Nat /\ MaxReloads \in Nat /\ MaxFaults \in Nat

VARIABLES
  account,   \* the users row
  otp,       \* the code Redis has for it,
  cooldown,  \* and the cooldown
  store,     \* the user of the auth store
  hydrated,  \* isHydrated
  page,      \* the route and the state of the page
  call,      \* the requests of the tab
  history,   \* what the properties tell apart (history only)
  spent      \* codes requested, reloads and faults so far

serverVars == <<account, otp, cooldown>>
tabVars == <<store, hydrated, page>>
vars == <<serverVars, tabVars, call, history, spent>>

Kinds == {"verify", "resend", "update", "me"}

(* ears is what still listens to the answer: the page and the hooks, the   *)
(* hooks alone once the page is unmounted, or nothing after a reload or a  *)
(* timeout.                                                                *)
Ears == {"page", "hooks", "none"}
Call(at, e, c) == [at |-> at, email |-> e, code |-> c, cooldown |-> 0, verified |-> FALSE, ears |-> "page"]
NoCall == Call("idle", None, None)
AtServer == {"sent", "moved", "changed", "taken", "coded"}

Sent(k) == call[k].at \in AtServer
Send(k, e, c) == call[k].at = "idle" /\ call' = [call EXCEPT ![k] = Call("sent", e, c)]

(* The page as it is mounted; the effect on the email of the store has run.*)
(* closure is the user that the hooks of the last page saw.                *)
Mounted(from, u) == [route |-> "verify", from |-> from, shown |-> IF u = None THEN from ELSE u.email,
                     digits |-> None, countdown |-> Short, closure |-> page.closure]
Elsewhere(route, closure) == [route |-> route, from |-> None, shown |-> None,
                              digits |-> None, countdown |-> 0, closure |-> closure]

(* Mutant: the page takes the address from the route only. *)
GuardedKeepsShown(pg, u, h) ==
  IF pg.route = "verify" \/ ~h THEN pg
  ELSE IF u = None THEN IF pg.route = "dashboard" THEN Elsewhere("login", pg.closure) ELSE pg
  ELSE IF u.verified THEN Elsewhere("dashboard", pg.closure)
  ELSE Mounted(u.email, u)

(* What the guards make of route and page pg once the store has user u:    *)
(* ProtectedRoute around the dashboard, PublicRoute around login and       *)
(* register, and none around the page, where an effect copies the email.   *)
Guarded(pg, u, h) ==
  IF pg.route = "verify"
    THEN IF u # None /\ (store = None \/ u.email # store.email) THEN [pg EXCEPT !.shown = u.email] ELSE pg
  ELSE IF ~h THEN pg
  ELSE IF u = None THEN IF pg.route = "dashboard" THEN Elsewhere("login", pg.closure) ELSE pg
  ELSE IF u.verified THEN Elsewhere("dashboard", pg.closure)
  ELSE Mounted(u.email, u)

(* useRegister has just navigated to the page.  requestOtp may have failed.*)
Init ==
  /\ \E e \in Emails, c \in Codes, coded \in BOOLEAN :
       /\ account = [email |-> e, verified |-> FALSE] /\ store = account
       /\ page = [route |-> "verify", from |-> e, shown |-> e, digits |-> None, countdown |-> Short, closure |-> None]
       /\ otp = IF coded THEN c ELSE None
       /\ cooldown = IF coded THEN Short ELSE 0
  /\ hydrated = TRUE
  /\ call = [k \in Kinds |-> NoCall]
  /\ history = [unseen |-> {}, stale |-> FALSE, returned |-> FALSE, counted |-> TRUE, setter |-> None]
  /\ spent = [sends |-> 0, reloads |-> 0, faults |-> 0]

-----------------------------------------------------------------------------
(* The page *)

(* The six digits, typed or pasted, the right ones or not. *)
Enter(c) ==
  /\ page.route = "verify"
  /\ page' = [page EXCEPT !.digits = c]
  /\ UNCHANGED <<serverVars, store, hydrated, call, history, spent>>

handleSubmit ==
  /\ page.route = "verify" /\ page.digits # None
  /\ Send("verify", None, page.digits)
  /\ UNCHANGED <<serverVars, tabVars, history, spent>>

RoomForCode ==
  spent.sends + Cardinality({k \in {"resend", "update"} : call[k].at \in {"sent", "moved", "changed"}}) < MaxSends

handleResend ==
  /\ page.route = "verify" /\ page.countdown = 0 /\ RoomForCode
  /\ Send("resend", None, None)
  /\ UNCHANGED <<serverVars, tabVars, history, spent>>

handleSaveEmail(new) ==
  /\ page.route = "verify" /\ new # page.shown /\ RoomForCode
  /\ Send("update", new, None)
  /\ UNCHANGED <<serverVars, tabVars, history, spent>>

(* The browser keeps the state of the route, unless the path was typed; the*)
(* store starts anew, and nothing hears the answers of the old document.   *)
Reload(from) ==
  /\ spent.reloads < MaxReloads /\ call["me"].at = "idle"
  /\ page.route \in {"verify", "dashboard"} /\ from \in {page.from, None}
  /\ spent' = [spent EXCEPT !.reloads = @ + 1]
  /\ store' = None /\ hydrated' = FALSE
  /\ page' = IF page.route = "dashboard" THEN Elsewhere("dashboard", None)
             ELSE IF from = None THEN Elsewhere("register", None)
             ELSE [Mounted(from, None) EXCEPT !.closure = None]
  /\ call' = [k \in Kinds |-> IF k = "me" THEN Call("sent", None, None)
                              ELSE IF Sent(k) THEN [call[k] EXCEPT !.ears = "none"] ELSE NoCall]
  /\ history' = [history EXCEPT !.counted = FALSE, !.unseen = @ \cup {k \in Kinds : call[k].at # "idle"}]
  /\ UNCHANGED serverVars

-----------------------------------------------------------------------------
(* The handlers *)
Answered(k) == IF call[k].ears = "none" THEN NoCall ELSE [call[k] EXCEPT !.at = "answered"]
Failed(k) == IF call[k].ears = "none" THEN NoCall ELSE [Call("failed", None, None) EXCEPT !.ears = call[k].ears]
Unseen(kinds) == [history EXCEPT !.unseen = @ \cup {k \in kinds : call[k].at \notin {"idle", "sent"}}]

(* A verified account, a cooldown, an address or a code that will not do. *)
Refused(k) ==
  call[k].at = "sent" /\ \/ k # "me" /\ account.verified
                         \/ k = "resend" /\ cooldown > 0
                         \/ k = "update" /\ call[k].email = account.email
                         \/ k = "verify" /\ otp # call[k].code

Refuse(k) ==
  /\ Sent(k)
  /\ \/ Refused(k) /\ UNCHANGED spent
     \/ spent.faults < MaxFaults /\ spent' = [spent EXCEPT !.faults = @ + 1]
  /\ call' = [call EXCEPT ![k] = Failed(k)]
  /\ history' = Unseen({k})
  /\ UNCHANGED <<serverVars, tabVars>>

(* The page is told of an error while the handler goes on. *)
Timeout(k) ==
  /\ Sent(k) /\ call[k].ears # "none" /\ k # "me" /\ spent.faults < MaxFaults
  /\ spent' = [spent EXCEPT !.faults = @ + 1]
  /\ call' = [call EXCEPT ![k].ears = "none"]
  /\ history' = [history EXCEPT !.unseen = @ \cup {k}]
  /\ UNCHANGED <<serverVars, tabVars>>

(* verifyOtp takes the code and the cooldown; then comes the update. *)
TakeCode ==
  /\ call["verify"].at = "sent" /\ otp = call["verify"].code
  /\ otp' = None /\ cooldown' = 0
  /\ call' = [call EXCEPT !["verify"].at = "taken"]
  /\ UNCHANGED <<account, tabVars, history, spent>>

MarkVerified ==
  /\ call["verify"].at = "taken"
  /\ account' = [account EXCEPT !.verified = TRUE]
  /\ call' = [call EXCEPT !["verify"] = Answered("verify")]
  /\ UNCHANGED <<otp, cooldown, tabVars, history, spent>>

(* updateUnverifiedEmail: the address, what the old one had, and requestOtp*)
ChangeEmail ==
  /\ call["update"].at = "sent" /\ ~account.verified /\ call["update"].email # account.email
  /\ account' = [account EXCEPT !.email = call["update"].email]
  /\ call' = [call EXCEPT !["update"].at = "moved"]
  /\ UNCHANGED <<otp, cooldown, tabVars, history, spent>>

DeleteAll ==
  /\ call["update"].at = "moved"
  /\ otp' = None /\ cooldown' = 0
  /\ call' = [call EXCEPT !["update"].at = "changed"]
  /\ UNCHANGED <<account, tabVars, history, spent>>

(* OTP_COOLDOWN_ACTIVE is no error here. *)
ChangeWithoutCode ==
  /\ call["update"].at = "changed" /\ cooldown > 0
  /\ call' = [call EXCEPT !["update"] = Answered("update")]
  /\ UNCHANGED <<serverVars, tabVars, history, spent>>

(* requestOtp up to the cooldown, for the address of the row or the new one*)
StoreCode(k, c, d) ==
  /\ \/ k = "resend" /\ call[k].at = "sent" /\ ~account.verified
     \/ k = "update" /\ call[k].at = "changed"
  /\ cooldown = 0
  /\ otp' = c /\ cooldown' = d
  /\ call' = [call EXCEPT ![k] = [@ EXCEPT !.at = "coded", !.code = c, !.cooldown = d,
                                           !.email = IF k = "resend" THEN account.email ELSE call[k].email]]
  /\ history' = [history EXCEPT !.setter = k, !.counted = FALSE]
  /\ spent' = [spent EXCEPT !.sends = @ + 1]
  /\ UNCHANGED <<account, tabVars>>

(* The rest of requestOtp: the job is added, EmailJobs has it from there. *)
Enqueue(k) ==
  /\ call[k].at = "coded"
  /\ call' = [call EXCEPT ![k] = Answered(k)]
  /\ UNCHANGED <<serverVars, tabVars, history, spent>>

(* getMe *)
Profile ==
  /\ call["me"].at = "sent"
  /\ call' = [call EXCEPT !["me"] = [Answered("me") EXCEPT !.email = account.email, !.verified = account.verified]]
  /\ UNCHANGED <<serverVars, tabVars, history, spent>>

(* The code runs out, or too many guesses destroy it. *)
CodeEnds ==
  /\ otp # None
  /\ otp' = None
  /\ UNCHANGED <<account, cooldown, tabVars, call, history, spent>>

-----------------------------------------------------------------------------
(* The answers *)
Heard(k) == [call EXCEPT ![k] = NoCall]

OnError(k) ==
  /\ call[k].at = "failed"
  /\ call' = Heard(k)
  /\ hydrated' = (hydrated \/ k = "me")
  /\ page' = Guarded(page, store, hydrated')
  /\ UNCHANGED <<serverVars, store, history, spent>>

(* Mutant: the store is not told. *)
OnVerifiedUntold ==
  /\ call["verify"].at = "answered"
  /\ page' = Guarded(Elsewhere("dashboard", store), store, hydrated)
  /\ call' = Heard("verify")
  /\ history' = [history EXCEPT !.counted = FALSE]
  /\ UNCHANGED <<serverVars, store, hydrated, spent>>

(* useVerifyEmail: the page goes, and the other mutations lose it. *)
OnVerified ==
  /\ call["verify"].at = "answered"
  /\ store' = IF store = None THEN None ELSE [store EXCEPT !.verified = TRUE]
  /\ page' = Guarded(Elsewhere("dashboard", store'), store', hydrated)
  /\ call' = [k \in Kinds |-> IF k = "verify" THEN NoCall
                              ELSE IF call[k].at # "idle" /\ call[k].ears = "page"
                                THEN [call[k] EXCEPT !.ears = "hooks"] ELSE call[k]]
  /\ history' = [history EXCEPT !.counted = FALSE]
  /\ UNCHANGED <<serverVars, hydrated, spent>>

(* Mutant: the countdown starts again at a minute. *)
OnResentMinute ==
  /\ call["resend"].at = "answered"
  /\ call' = Heard("resend")
  /\ IF call["resend"].ears = "page"
       THEN /\ page' = [page EXCEPT !.countdown = Short]
            /\ history' = [history EXCEPT !.counted = history.setter = "resend"]
       ELSE UNCHANGED <<page, history>>
  /\ UNCHANGED <<serverVars, store, hydrated, spent>>

(* useResendOtp, and what handleResend does with the answer *)
OnResent ==
  /\ call["resend"].at = "answered"
  /\ call' = Heard("resend")
  /\ IF call["resend"].ears = "page"
       THEN /\ page' = [page EXCEPT !.countdown = call["resend"].cooldown]
            /\ history' = [history EXCEPT !.counted = history.setter = "resend"]
       ELSE UNCHANGED <<page, history>>
  /\ UNCHANGED <<serverVars, store, hydrated, spent>>

(* useUpdateEmail, and what handleSaveEmail does with the answer *)
OnUpdated ==
  /\ call["update"].at = "answered"
  /\ call' = Heard("update")
  /\ LET a == call["update"]
         open == a.ears = "page"
         user == IF open THEN store ELSE page.closure
         counts == open /\ a.cooldown > 0
         told == IF open THEN [page EXCEPT !.shown = a.email, !.digits = None,
                                           !.countdown = IF counts THEN a.cooldown ELSE @] ELSE page
     IN /\ store' = IF user = None THEN store ELSE [user EXCEPT !.email = a.email]
        /\ hydrated' = (hydrated \/ user # None)
        /\ page' = Guarded(told, store', hydrated')
        /\ history' = IF counts THEN [history EXCEPT !.counted = history.setter = "update"] ELSE history
  /\ UNCHANGED <<serverVars, spent>>

(* hydrate *)
OnProfile ==
  /\ call["me"].at = "answered"
  /\ call' = Heard("me")
  /\ store' = [email |-> call["me"].email, verified |-> call["me"].verified]
  /\ hydrated' = TRUE
  /\ page' = Guarded(page, store', TRUE)
  /\ history' = [history EXCEPT !.stale = store' # account,
                                 !.returned = @ \/ (account.verified /\ ~store'.verified)]
  /\ UNCHANGED <<serverVars, spent>>

(* Mutant: nothing stops the interval at zero. *)
Minus1Below(n) == n - 1

(* Time passes.  A timer that the browser throttles falls behind. *)
Minus1(n) == IF n > 0 THEN n - 1 ELSE 0
Tick ==
  /\ cooldown > 0 \/ page.countdown > 0
  /\ cooldown' = Minus1(cooldown)
  /\ page' \in {page, [page EXCEPT !.countdown = Minus1(@)]}
  /\ UNCHANGED <<account, otp, store, hydrated, call, history, spent>>

-----------------------------------------------------------------------------
User ==
  \/ \E c \in Codes : Enter(c)
  \/ handleSubmit \/ handleResend \/ \E e \in Emails : handleSaveEmail(e)
  \/ \E from \in Emails \cup {None} : Reload(from)

Server(k) ==
  \/ Refuse(k) \/ Enqueue(k)
  \/ \E c \in Codes, d \in Short..Long : StoreCode(k, c, d)
  \/ k = "verify" /\ (TakeCode \/ MarkVerified)
  \/ k = "update" /\ (ChangeEmail \/ DeleteAll \/ ChangeWithoutCode)
  \/ k = "me" /\ Profile

Answer(k) ==
  \/ OnError(k)
  \/ k = "verify" /\ OnVerified
  \/ k = "resend" /\ OnResent
  \/ k = "update" /\ OnUpdated
  \/ k = "me" /\ OnProfile

Next ==
  \/ User
  \/ \E k \in Kinds : Server(k) \/ Answer(k) \/ Timeout(k)
  \/ Tick \/ CodeEnds

Spec == Init /\ [][Next]_vars

-----------------------------------------------------------------------------

TypeOK ==
  /\ account \in Users /\ otp \in Codes \cup {None} /\ cooldown \in 0..Long
  /\ store \in Users \cup {None} /\ hydrated \in BOOLEAN /\ (store # None => hydrated)
  /\ page.route \in {"verify", "dashboard", "login", "register"}
  /\ page.countdown \in 0..Long
  /\ call \in [Kinds -> [at : {"idle", "sent", "moved", "changed", "taken", "coded", "answered", "failed"},
                         email : Emails \cup {None}, code : Codes \cup {None}, cooldown : 0..Long,
                         verified : BOOLEAN, ears : {"page", "hooks", "none"}]]

(* While the page counts down the cooldown that was set last, it does not  *)
(* offer a resend that requestOtp would refuse; a reload, or the answers of*)
(* a resend and a change in the other order, may leave it with less.       *)
CountdownCovers ==
  page.route = "verify" /\ history.counted => page.countdown >= cooldown

(* The page shows the address the codes go to.  It is wrong only while a   *)
(* change is in flight, after one whose answer was lost or an error (the   *)
(* address was changed all the same), with a profile read before a change, *)
(* or before the hydration after a reload that brought an old state back.  *)
ShownIsAccount ==
  page.route = "verify" /\ page.shown # account.email =>
    \/ call["update"].at # "idle" \/ "update" \in history.unseen
    \/ history.stale
    \/ store = None /\ page.shown = page.from

(* Whoever verified the address leaves the page for good, unless the answer*)
(* was lost, or a profile read before the verification arrived after it.   *)
VerifiedLeaves ==
  page.route = "verify" /\ account.verified =>
    call["verify"].at # "idle" \/ "verify" \in history.unseen \/ history.returned
=============================================================================
