----------------------- MODULE VerificationPageProofs -----------------------
(***************************************************************************)
(* For any addresses, codes, cooldowns and numbers of requests, reloads and*)
(* faults: the countdown covers the cooldown, the page shows the address   *)
(* the codes go to, and who verified it leaves the page, but for the cases *)
(* the properties name.                                                    *)
(*                                                                         *)
(* The store and the page learn of the row by answers, and an answer may   *)
(* be late, lost, or reach hooks that outlived their page.  The invariant  *)
(* follows each answer from the step of the handler that made it true to   *)
(* the callback that applies it: an update that got as far as the row has  *)
(* its address (UpdateCurrent), the hooks of a page that is gone exist only*)
(* once the address was verified (HooksLate), and whatever nobody hears is *)
(* on record (DeafUnseen).                                                 *)
(***************************************************************************)
EXTENDS VerificationPage, TLAPS

CallType == [at : {"idle", "sent", "moved", "changed", "taken", "coded", "answered", "failed"},
             email : Emails \cup {None}, code : Codes \cup {None}, cooldown : 0..Long,
             verified : BOOLEAN, ears : Ears]

PageType == [route : {"verify", "dashboard", "login", "register"}, from : Emails \cup {None},
             shown : Emails \cup {None}, digits : Codes \cup {None}, countdown : 0..Long,
             closure : Users \cup {None}]

HistoryType == [unseen : SUBSET Kinds, stale : BOOLEAN, returned : BOOLEAN, counted : BOOLEAN,
                setter : Kinds \cup {None}]

OfPage == {"verify", "resend", "update"}
InRow == {"moved", "changed", "coded", "answered"}

Typed ==
  /\ account \in Users /\ otp \in Codes \cup {None} /\ cooldown \in 0..Long
  /\ store \in Users \cup {None} /\ hydrated \in BOOLEAN /\ (store # None => hydrated)
  /\ page \in PageType /\ history \in HistoryType /\ call \in [Kinds -> CallType]
  /\ page.closure # None => page.closure.verified
  /\ call["update"].at \notin {"idle", "failed"} => call["update"].email \in Emails
  /\ call["me"].at = "answered" => call["me"].email \in Emails

(* Who listens. *)
DeafUnseen == \A k \in Kinds : call[k].at # "idle" /\ call[k].ears = "none" => k \in history.unseen
PageListens == \A k \in OfPage : call[k].at # "idle" /\ call[k].ears = "page" => page.route = "verify"
HooksLate == \A k \in OfPage : call[k].at # "idle" /\ call[k].ears = "hooks" => account.verified
AnsweredHeard == \A k \in Kinds : call[k].at \in {"answered", "failed"} => call[k].ears # "none"

(* The countdown. *)
Counted ==
  /\ history.counted => page.route = "verify" /\ page.countdown >= cooldown
  /\ call["update"].at \in {"sent", "moved", "changed"} => call["update"].cooldown = 0
  /\ call["verify"].at # "coded" /\ call["me"].at # "coded"
  /\ \A k \in {"resend", "update"} :
       history.setter = k /\ call[k].at \in {"coded", "answered"} /\ (k = "resend" \/ call[k].cooldown > 0)
         => cooldown <= call[k].cooldown

(* The address. *)
UpdateCurrent == call["update"].at \in InRow => call["update"].email = account.email

Excused == call["update"].at \in InRow \/ "update" \in history.unseen \/ history.stale

HooksIdle == call["update"].at # "idle" /\ call["update"].ears = "hooks"

Shown ==
  /\ store # None => store.email = account.email \/ Excused
  /\ page.route = "verify" /\ store # None => page.shown = store.email
  /\ page.route = "verify" /\ store = None => page.shown = account.email \/ page.shown = page.from \/ Excused
  /\ HooksIdle /\ page.route = "verify" => store # None
  /\ HooksIdle /\ page.closure = None /\ store # None =>
       store.email = account.email \/ "update" \in history.unseen \/ history.stale

(* The verification. *)
Left ==
  /\ page.route # "verify" /\ store # None => store.verified
  /\ page.route = "verify" /\ account.verified =>
       call["verify"].at = "answered" \/ "verify" \in history.unseen \/ history.returned
  /\ call["verify"].at = "answered" => account.verified

IInv ==
  /\ Typed
  /\ DeafUnseen /\ PageListens /\ HooksLate /\ AnsweredHeard
  /\ Counted /\ UpdateCurrent /\ Shown /\ Left

-----------------------------------------------------------------------------
(* A step that writes one request, and of the rest at most takes the code, *)
(* lowers the cooldown, or puts the request on record.                     *)
Remembered == \E s \in SUBSET Kinds : history' = [history EXCEPT !.unseen = @ \cup s]

CalmCall(k, r) ==
  /\ r \in CallType
  /\ r.at # "idle" /\ r.ears = "none" => k \in history'.unseen
  /\ r.at # "idle" /\ r.ears = "page" /\ k \in OfPage => page.route = "verify"
  /\ r.at # "idle" /\ r.ears = "hooks" => call[k].at # "idle" /\ call[k].ears = "hooks"
  /\ r.at \in {"answered", "failed"} => r.ears # "none"
  /\ k \in {"resend", "update"} /\ r.at \in {"coded", "answered"} /\ (k = "resend" \/ r.cooldown > 0) =>
       call[k].at \in {"coded", "answered"} /\ r.cooldown = call[k].cooldown
  /\ k = "update" =>
       /\ r.at \notin {"idle", "failed"} => r.email \in Emails
       /\ r.at \in {"sent", "moved", "changed"} => r.cooldown = 0
       /\ r.at \in InRow => call[k].at \in InRow /\ r.email = call[k].email
       /\ call[k].at \in InRow => r.at \in InRow \/ k \in history'.unseen
  /\ k \in {"verify", "me"} => r.at # "coded"
  /\ k = "me" /\ r.at = "answered" => r.email \in Emails
  /\ k = "verify" => (r.at = "answered" <=> call[k].at = "answered")

CalmStep(k) ==
  /\ UNCHANGED <<account, tabVars>>
  /\ otp' \in Codes \cup {None} /\ cooldown' \in 0..Long /\ cooldown' <= cooldown
  /\ Remembered
  /\ \E r : CalmCall(k, r) /\ call' = [call EXCEPT ![k] = r]

-----------------------------------------------------------------------------

LEMMA RememberedFields ==
  ASSUME Typed, Remembered
  PROVE  /\ history' \in HistoryType /\ history.unseen \subseteq history'.unseen
         /\ history'.stale = history.stale /\ history'.returned = history.returned
         /\ history'.counted = history.counted /\ history'.setter = history.setter
BY DEF Typed, Remembered, HistoryType

LEMMA CalmInvariant ==
  ASSUME IInv, NEW k \in Kinds, CalmStep(k)
  PROVE  IInv'
<1>1. PICK r : CalmCall(k, r) /\ call' = [call EXCEPT ![k] = r]
  BY DEF CalmStep
<1>0. Typed
  BY DEF IInv
<1>2. /\ r \in CallType /\ call' \in [Kinds -> CallType]
      /\ call'[k] = r /\ \A j \in Kinds : j # k => call'[j] = call[j]
  BY <1>0, <1>1 DEF CalmCall, Typed
<1>3. /\ history' \in HistoryType /\ history.unseen \subseteq history'.unseen
      /\ history'.stale = history.stale /\ history'.returned = history.returned
      /\ history'.counted = history.counted /\ history'.setter = history.setter
  BY <1>0, RememberedFields DEF CalmStep
<1>4. /\ account' = account /\ store' = store /\ page' = page /\ hydrated' = hydrated
      /\ otp' \in Codes \cup {None} /\ cooldown' \in 0..Long /\ cooldown' <= cooldown
  BY DEF CalmStep, tabVars
<1>5. {"verify", "resend", "update", "me"} = Kinds
  BY DEF Kinds
<1> USE DEF OfPage, InRow
<1>6. Typed'
  BY <1>0, <1>1, <1>2, <1>3, <1>4, <1>5 DEF Typed, CalmCall
<1>7. DeafUnseen' /\ AnsweredHeard'
  BY <1>1, <1>2, <1>3 DEF IInv, DeafUnseen, AnsweredHeard, CalmCall
<1>8. PageListens' /\ HooksLate'
  BY <1>1, <1>2, <1>4, <1>5 DEF IInv, PageListens, HooksLate, CalmCall
<1>9. Counted'
  <2>1. (history.counted => page.route = "verify" /\ page.countdown >= cooldown')
    <3>1. page.countdown \in Int /\ cooldown \in Int /\ cooldown' \in Int
      BY <1>0, <1>4, BoundsAssumption DEF Typed, PageType
    <3> QED
      BY <1>4, <3>1 DEF IInv, Counted
  <2>2. ASSUME NEW j \in {"resend", "update"}, history.setter = j, call'[j].at \in {"coded", "answered"},
               j = "resend" \/ call'[j].cooldown > 0
        PROVE  cooldown' <= call'[j].cooldown
    <3>1. call[j].at \in {"coded", "answered"} /\ call'[j].cooldown = call[j].cooldown
      BY <1>1, <1>2, <1>5, <2>2 DEF CalmCall
    <3>2. cooldown <= call[j].cooldown
      BY <2>2, <3>1 DEF IInv, Counted
    <3>3. call[j].cooldown \in Int /\ cooldown \in Int /\ cooldown' \in Int
      BY <1>0, <1>4, <1>5, BoundsAssumption DEF Typed, CallType
    <3> QED
      BY <1>4, <3>1, <3>2, <3>3
  <2>3. call'["update"].at \in {"sent", "moved", "changed"} => call'["update"].cooldown = 0
    BY <1>1, <1>2, <1>5 DEF IInv, Counted, CalmCall
  <2>4. call'["verify"].at # "coded" /\ call'["me"].at # "coded"
    BY <1>1, <1>2, <1>5 DEF IInv, Counted, CalmCall
  <2> QED
    BY <1>3, <1>4, <2>1, <2>2, <2>3, <2>4 DEF Counted
<1>10. UpdateCurrent'
  BY <1>1, <1>2, <1>4, <1>5 DEF IInv, UpdateCurrent, CalmCall
<1>11. Excused => Excused'
  BY <1>1, <1>2, <1>3, <1>5 DEF Excused, CalmCall
<1>12. HooksIdle' => HooksIdle
  BY <1>1, <1>2, <1>5 DEF HooksIdle, CalmCall
<1>13. Shown'
  BY <1>3, <1>4, <1>11, <1>12 DEF IInv, Shown
<1>14. Left'
  BY <1>1, <1>2, <1>3, <1>4, <1>5 DEF IInv, Left, CalmCall
<1> QED
  BY <1>6, <1>7, <1>8, <1>9, <1>10, <1>13, <1>14 DEF IInv

-----------------------------------------------------------------------------
(* Which steps are calm. *)

LEMMA CallFields ==
  ASSUME NEW at \in {"idle", "sent", "failed"}, NEW e \in Emails \cup {None}, NEW c \in Codes \cup {None}
  PROVE  /\ Call(at, e, c) \in CallType /\ Call(at, e, c).at = at /\ Call(at, e, c).email = e
         /\ Call(at, e, c).cooldown = 0 /\ Call(at, e, c).ears = "page"
BY BoundsAssumption DEF Call, CallType, Ears

LEMMA NoCallFields == NoCall \in CallType /\ NoCall.at = "idle" /\ NoCall.ears = "page"
<1>1. Call("idle", None, None) \in CallType /\ Call("idle", None, None).at = "idle"
      /\ Call("idle", None, None).ears = "page"
  BY CallFields
<1> QED
  BY <1>1 DEF NoCall

LEMMA FailedFields ==
  ASSUME Typed, NEW k \in Kinds
  PROVE  /\ Failed(k) \in CallType
         /\ Failed(k).at = "idle" \/ (Failed(k).at = "failed" /\ Failed(k).ears = call[k].ears
                                      /\ call[k].ears # "none")
<1> DEFINE a == Call("failed", None, None)
           r == [a EXCEPT !.ears = call[k].ears]
<1>1. call[k] \in CallType /\ a \in CallType /\ a.at = "failed"
  BY CallFields DEF Typed
<1> HIDE DEF a
<1>2. r \in CallType /\ r.at = "failed" /\ r.ears = call[k].ears
  BY <1>1 DEF CallType
<1> QED
  BY <1>2, NoCallFields DEF Failed, a

LEMMA AnsweredFields ==
  ASSUME Typed, NEW k \in Kinds
  PROVE  /\ Answered(k) \in CallType
         /\ call[k].ears = "none" => Answered(k).at = "idle"
         /\ call[k].ears # "none" =>
              /\ Answered(k).at = "answered" /\ Answered(k).ears = call[k].ears
              /\ Answered(k).email = call[k].email /\ Answered(k).cooldown = call[k].cooldown
<1>1. call[k] \in CallType
  BY DEF Typed
<1> DEFINE r == [call[k] EXCEPT !.at = "answered"]
<1>2. /\ r \in CallType /\ r.at = "answered" /\ r.ears = call[k].ears
      /\ r.email = call[k].email /\ r.cooldown = call[k].cooldown
  BY <1>1 DEF CallType
<1> QED
  BY <1>2, NoCallFields DEF Answered

(* A request whose stage or listeners alone change. *)
LEMMA StageFields ==
  ASSUME Typed, NEW k \in Kinds, NEW at \in {"taken", "moved", "changed"}
  PROVE  /\ [call[k] EXCEPT !.at = at] \in CallType
         /\ [call[k] EXCEPT !.at = at].at = at /\ [call[k] EXCEPT !.at = at].ears = call[k].ears
         /\ [call[k] EXCEPT !.at = at].email = call[k].email
         /\ [call[k] EXCEPT !.at = at].cooldown = call[k].cooldown
<1>1. call[k] \in CallType
  BY DEF Typed
<1> QED
  BY <1>1 DEF CallType

LEMMA EarsFields ==
  ASSUME Typed, NEW k \in Kinds, NEW ears \in Ears
  PROVE  /\ [call[k] EXCEPT !.ears = ears] \in CallType
         /\ [call[k] EXCEPT !.ears = ears].at = call[k].at /\ [call[k] EXCEPT !.ears = ears].ears = ears
         /\ [call[k] EXCEPT !.ears = ears].email = call[k].email
         /\ [call[k] EXCEPT !.ears = ears].cooldown = call[k].cooldown
<1>1. call[k] \in CallType
  BY DEF Typed
<1> QED
  BY <1>1 DEF CallType

LEMMA CalmIf ==
  ASSUME UNCHANGED <<account, tabVars>>, otp' \in Codes \cup {None}, cooldown' \in 0..Long,
         cooldown' <= cooldown, Remembered, NEW k \in Kinds, NEW r, CalmCall(k, r),
         call' = [call EXCEPT ![k] = r]
  PROVE  CalmStep(k)
BY DEF CalmStep

LEMMA SameRemembered ==
  ASSUME Typed, UNCHANGED history
  PROVE  Remembered
<1>1. history' = [history EXCEPT !.unseen = @ \cup {}]
  BY DEF Typed, HistoryType
<1> QED
  BY <1>1 DEF Remembered

LEMMA SameServer ==
  ASSUME Typed, UNCHANGED serverVars
  PROVE  otp' \in Codes \cup {None} /\ cooldown' \in 0..Long /\ cooldown' <= cooldown /\ account' = account
BY BoundsAssumption DEF Typed, serverVars

LEMMA SendCalm ==
  ASSUME IInv, NEW k \in OfPage, NEW e \in Emails \cup {None}, NEW c \in Codes \cup {None}, Send(k, e, c),
         k = "update" => e \in Emails, page.route = "verify", UNCHANGED <<serverVars, tabVars, history>>
  PROVE  CalmStep(k)
<1>0. Typed /\ k \in Kinds
  BY DEF IInv, OfPage, Kinds
<1> DEFINE r == Call("sent", e, c)
<1>1. r \in CallType /\ r.at = "sent" /\ r.email = e /\ r.cooldown = 0 /\ r.ears = "page"
  BY CallFields
<1>2. call[k].at = "idle" /\ call' = [call EXCEPT ![k] = r]
  BY DEF Send
<1> HIDE DEF r
<1>3. CalmCall(k, r)
  BY <1>1, <1>2 DEF CalmCall, InRow, OfPage
<1> QED
  BY <1>0, <1>2, <1>3, CalmIf, SameServer, SameRemembered

LEMMA UserCalm ==
  ASSUME IInv, handleSubmit \/ handleResend \/ \E e \in Emails : handleSaveEmail(e)
  PROVE  \E k \in Kinds : CalmStep(k)
<1>1. "verify" \in OfPage /\ "resend" \in OfPage /\ "update" \in OfPage /\ OfPage \subseteq Kinds
  BY DEF OfPage, Kinds
<1>2. page.digits \in Codes \cup {None}
  BY DEF IInv, Typed, PageType
<1>3. CASE handleSubmit
  BY <1>1, <1>2, <1>3, SendCalm DEF handleSubmit
<1>4. CASE handleResend
  BY <1>1, <1>4, SendCalm DEF handleResend
<1>5. ASSUME NEW e \in Emails, handleSaveEmail(e) PROVE CalmStep("update")
  BY <1>1, <1>5, SendCalm DEF handleSaveEmail
<1> QED
  BY <1>1, <1>3, <1>4, <1>5

LEMMA RefuseCalm ==
  ASSUME IInv, NEW k \in Kinds, Refuse(k)
  PROVE  CalmStep(k)
<1>0. Typed /\ call[k].at \in AtServer /\ (call[k].at # "idle" /\ call[k].ears = "none" => k \in history.unseen)
      /\ UNCHANGED <<serverVars, tabVars>> /\ call[k] \in CallType
      /\ (call[k].at # "idle" /\ call[k].ears = "page" /\ k \in OfPage => page.route = "verify")
  BY DEF IInv, Refuse, Sent, DeafUnseen, PageListens, Typed
<1>1. Remembered
  <2>1. {j \in {k} : call[j].at \notin {"idle", "sent"}} \in SUBSET Kinds
    OBVIOUS
  <2> QED
    BY <2>1 DEF Refuse, Unseen, Remembered
<1>2. k \in history'.unseen \/ call[k].at = "sent"
  <2>1. history \in HistoryType
    BY <1>0 DEF Typed
  <2> QED
    BY <1>0, <2>1 DEF Refuse, Unseen, HistoryType, AtServer
<1> DEFINE r == Failed(k)
<1>3. /\ r \in CallType
      /\ r.at = "idle" \/ (r.at = "failed" /\ r.ears = call[k].ears /\ call[k].ears # "none")
  BY <1>0, FailedFields
<1>4. call' = [call EXCEPT ![k] = r]
  BY DEF Refuse
<1> HIDE DEF r
<1>5. CalmCall(k, r)
  BY <1>0, <1>2, <1>3 DEF CalmCall, InRow, AtServer
<1> QED
  BY <1>0, <1>1, <1>4, <1>5, CalmIf, SameServer

LEMMA TimeoutCalm ==
  ASSUME IInv, NEW k \in Kinds, Timeout(k)
  PROVE  CalmStep(k)
<1>0. Typed /\ call[k].at \in AtServer /\ k # "me" /\ UNCHANGED <<serverVars, tabVars>> /\ call[k] \in CallType
  BY DEF IInv, Timeout, Sent, Typed
<1>1. Remembered
  BY DEF Timeout, Remembered
<1>2. k \in history'.unseen
  BY <1>0 DEF Timeout, Typed, HistoryType
<1> DEFINE r == [call[k] EXCEPT !.ears = "none"]
<1>3. /\ r \in CallType /\ r.at = call[k].at /\ r.ears = "none"
      /\ r.email = call[k].email /\ r.cooldown = call[k].cooldown
  BY <1>0, EarsFields DEF Ears
<1>4. call' = [call EXCEPT ![k] = r]
  BY DEF Timeout
<1> HIDE DEF r
<1>5. CalmCall(k, r)
  <2>1. k = "update" => /\ call[k].at \notin {"idle", "failed"} => call[k].email \in Emails
                        /\ call[k].at \in {"sent", "moved", "changed"} => call[k].cooldown = 0
    BY DEF IInv, Typed, Counted
  <2>2. k \in {"verify", "me"} => call[k].at # "coded"
    BY DEF IInv, Counted
  <2> QED
    BY <1>0, <1>2, <1>3, <2>1, <2>2 DEF CalmCall, AtServer
<1> QED
  BY <1>0, <1>1, <1>4, <1>5, CalmIf, SameServer

(* The handlers that answer. *)
LEMMA AnswerCalm ==
  ASSUME IInv, NEW k \in Kinds, call' = [call EXCEPT ![k] = Answered(k)], k # "me",
         UNCHANGED <<serverVars, tabVars, history>>,
         call[k].at = "coded" \/ (k = "update" /\ call[k].at = "changed")
  PROVE  CalmStep(k)
<1>0. Typed /\ call[k] \in CallType
      /\ (call[k].at # "idle" /\ call[k].ears = "none" => k \in history.unseen)
      /\ (call[k].at # "idle" /\ call[k].ears = "page" /\ k \in OfPage => page.route = "verify")
      /\ (k = "verify" => call[k].at # "coded")
  BY DEF IInv, Typed, DeafUnseen, PageListens, Counted
<1>1. /\ Answered(k) \in CallType
      /\ call[k].ears = "none" => Answered(k).at = "idle"
      /\ call[k].ears # "none" =>
           /\ Answered(k).at = "answered" /\ Answered(k).ears = call[k].ears
           /\ Answered(k).email = call[k].email /\ Answered(k).cooldown = call[k].cooldown
  BY <1>0, AnsweredFields
<1>2. k = "update" => /\ call[k].at \notin {"idle", "failed"} => call[k].email \in Emails
                      /\ call[k].at \in {"sent", "moved", "changed"} => call[k].cooldown = 0
  BY DEF IInv, Typed, Counted
<1>3. history' = history
  OBVIOUS
<1>4. CalmCall(k, Answered(k))
  BY <1>0, <1>1, <1>2, <1>3 DEF CalmCall, InRow
<1> QED
  BY <1>0, <1>4, CalmIf, SameServer, SameRemembered

LEMMA EnqueueCalm ==
  ASSUME IInv, NEW k \in Kinds, Enqueue(k)
  PROVE  CalmStep(k)
BY AnswerCalm DEF Enqueue, IInv, Counted

LEMMA UpdateHandlerCalm ==
  ASSUME IInv, DeleteAll \/ ChangeWithoutCode
  PROVE  CalmStep("update")
<1>0. Typed /\ "update" \in Kinds /\ call["update"] \in CallType
      /\ (call["update"].at # "idle" /\ call["update"].ears = "none" => "update" \in history.unseen)
      /\ (call["update"].at # "idle" /\ call["update"].ears = "page" => page.route = "verify")
      /\ (call["update"].at \notin {"idle", "failed"} => call["update"].email \in Emails)
      /\ (call["update"].at \in {"sent", "moved", "changed"} => call["update"].cooldown = 0)
  BY DEF IInv, Typed, DeafUnseen, PageListens, Counted, Kinds, OfPage
<1>1. CASE ChangeWithoutCode
  BY <1>0, <1>1, AnswerCalm DEF ChangeWithoutCode
<1>2. CASE DeleteAll
  <2> DEFINE r == [call["update"] EXCEPT !.at = "changed"]
  <2>1. /\ r \in CallType /\ r.at = "changed" /\ r.ears = call["update"].ears
        /\ r.email = call["update"].email /\ r.cooldown = call["update"].cooldown
    BY <1>0, StageFields
  <2>2. call' = [call EXCEPT !["update"] = r] /\ call["update"].at = "moved" /\ history' = history
    BY <1>2 DEF DeleteAll
  <2> HIDE DEF r
  <2>3. CalmCall("update", r)
    BY <1>0, <2>1, <2>2 DEF CalmCall, InRow
  <2>4. otp' \in Codes \cup {None} /\ cooldown' \in 0..Long /\ cooldown' <= cooldown
    BY <1>0, <1>2, BoundsAssumption DEF DeleteAll, Typed
  <2> QED
    BY <1>0, <1>2, <2>2, <2>3, <2>4, CalmIf, SameRemembered DEF DeleteAll
<1> QED
  BY <1>1, <1>2

LEMMA TakeCodeCalm ==
  ASSUME IInv, TakeCode
  PROVE  CalmStep("verify")
<1>0. Typed /\ "verify" \in Kinds /\ call["verify"] \in CallType
      /\ (call["verify"].at # "idle" /\ call["verify"].ears = "none" => "verify" \in history.unseen)
      /\ (call["verify"].at # "idle" /\ call["verify"].ears = "page" => page.route = "verify")
  BY DEF IInv, Typed, DeafUnseen, PageListens, Kinds, OfPage
<1> DEFINE r == [call["verify"] EXCEPT !.at = "taken"]
<1>1. r \in CallType /\ r.at = "taken" /\ r.ears = call["verify"].ears
  BY <1>0, StageFields
<1>2. call' = [call EXCEPT !["verify"] = r] /\ call["verify"].at = "sent" /\ history' = history
  BY DEF TakeCode
<1> HIDE DEF r
<1>3. CalmCall("verify", r)
  BY <1>0, <1>1, <1>2 DEF CalmCall
<1>4. otp' \in Codes \cup {None} /\ cooldown' \in 0..Long /\ cooldown' <= cooldown
  BY <1>0, BoundsAssumption DEF TakeCode, Typed
<1> QED
  BY <1>0, <1>2, <1>3, <1>4, CalmIf, SameRemembered DEF TakeCode

LEMMA ProfileCalm ==
  ASSUME IInv, Profile
  PROVE  CalmStep("me")
<1>0. Typed /\ "me" \in Kinds /\ call["me"] \in CallType /\ account \in Users
      /\ (call["me"].at # "idle" /\ call["me"].ears = "none" => "me" \in history.unseen)
  BY DEF IInv, Typed, DeafUnseen, Kinds
<1> DEFINE a == Answered("me")
           r == [a EXCEPT !.email = account.email, !.verified = account.verified]
<1>1. /\ a \in CallType
      /\ call["me"].ears = "none" => a.at = "idle"
      /\ call["me"].ears # "none" => a.at = "answered" /\ a.ears = call["me"].ears
  BY <1>0, AnsweredFields
<1>2. call' = [call EXCEPT !["me"] = r] /\ call["me"].at = "sent" /\ history' = history
  BY DEF Profile
<1>3. account.email \in Emails /\ account.verified \in BOOLEAN
  BY <1>0 DEF Users
<1> HIDE DEF a
<1>4. r \in CallType /\ r.at = a.at /\ r.ears = a.ears /\ r.email \in Emails
  BY <1>1, <1>3 DEF CallType
<1> HIDE DEF r
<1>5. CalmCall("me", r)
  BY <1>0, <1>1, <1>2, <1>4 DEF CalmCall, OfPage
<1> QED
  BY <1>0, <1>2, <1>5, CalmIf, SameServer, SameRemembered DEF Profile

-----------------------------------------------------------------------------
(* The steps that are not calm.  First those that leave every request.     *)
LEMMA QuietInvariant ==
  ASSUME IInv, UNCHANGED <<account, store, hydrated, call, history>>,
         otp' \in Codes \cup {None}, cooldown' \in 0..Long, cooldown' <= cooldown,
         page' \in PageType, page'.route = page.route, page'.from = page.from, page'.shown = page.shown,
         page'.closure = page.closure, history.counted => page'.countdown >= cooldown'
  PROVE  IInv'
<1>0. Typed
  BY DEF IInv
<1>1. Typed'
  BY <1>0 DEF Typed
<1>2. DeafUnseen' /\ AnsweredHeard' /\ PageListens' /\ HooksLate'
  BY DEF IInv, DeafUnseen, AnsweredHeard, PageListens, HooksLate
<1>3. Counted'
  <2>1. ASSUME NEW j \in {"resend", "update"}, history.setter = j, call[j].at \in {"coded", "answered"},
               j = "resend" \/ call[j].cooldown > 0
        PROVE  cooldown' <= call[j].cooldown
    <3>1. cooldown <= call[j].cooldown
      BY <2>1 DEF IInv, Counted
    <3>2. call[j].cooldown \in Int /\ cooldown \in Int /\ cooldown' \in Int
      BY <1>0, BoundsAssumption DEF Typed, CallType, Kinds
    <3> QED
      BY <3>1, <3>2
  <2> QED
    BY <2>1 DEF IInv, Counted
<1>4. UpdateCurrent'
  BY DEF IInv, UpdateCurrent
<1>5. Shown'
  BY DEF IInv, Shown, Excused, HooksIdle
<1>6. Left'
  BY DEF IInv, Left
<1> QED
  BY <1>1, <1>2, <1>3, <1>4, <1>5, <1>6 DEF IInv

LEMMA QuietSteps ==
  ASSUME IInv, (\E c \in Codes : Enter(c)) \/ CodeEnds \/ Tick
  PROVE  IInv'
<1>0. Typed /\ page \in PageType /\ cooldown \in 0..Long /\ page.countdown \in 0..Long
      /\ (history.counted => page.countdown >= cooldown)
  BY DEF IInv, Typed, PageType, Counted
<1>1. ASSUME NEW c \in Codes, Enter(c) PROVE IInv'
  <2>1. /\ page' \in PageType /\ page'.route = page.route /\ page'.from = page.from
        /\ page'.shown = page.shown /\ page'.closure = page.closure /\ page'.countdown = page.countdown
    BY <1>0, <1>1 DEF Enter, PageType
  <2>2. UNCHANGED <<account, store, hydrated, call, history, serverVars>>
    BY <1>1 DEF Enter, serverVars
  <2>3. cooldown' = cooldown
    BY <2>2 DEF serverVars
  <2> QED
    BY <1>0, <2>1, <2>2, <2>3, SameServer, QuietInvariant
<1>2. CASE CodeEnds
  <2>1. UNCHANGED <<account, store, hydrated, call, history, page, cooldown>> /\ otp' = None
    BY <1>2 DEF CodeEnds, tabVars
  <2>2. cooldown' <= cooldown
    BY <1>0, <2>1, BoundsAssumption
  <2> QED
    BY <1>0, <2>1, <2>2, QuietInvariant
<1>3. CASE Tick
  <2>1. cooldown' \in 0..Long /\ cooldown' <= cooldown
    BY <1>0, <1>3, BoundsAssumption DEF Tick, Minus1
  <2>2. Minus1(page.countdown) \in 0..Long
        /\ (page.countdown >= cooldown => page.countdown >= Minus1(cooldown)
                                          /\ Minus1(page.countdown) >= Minus1(cooldown))
    BY <1>0, BoundsAssumption DEF Minus1
  <2>3. /\ page' \in PageType /\ page'.route = page.route /\ page'.from = page.from
        /\ page'.shown = page.shown /\ page'.closure = page.closure
        /\ page'.countdown \in {page.countdown, Minus1(page.countdown)}
    BY <1>0, <1>3, <2>2 DEF Tick, PageType
  <2>4. UNCHANGED <<account, store, hydrated, call, history, otp>> /\ cooldown' = Minus1(cooldown)
    BY <1>3 DEF Tick
  <2>5. otp' \in Codes \cup {None}
    BY <1>0, <2>4 DEF Typed
  <2> QED
    BY <1>0, <2>1, <2>2, <2>3, <2>4, <2>5, QuietInvariant
<1> QED
  BY <1>1, <1>2, <1>3

(* The code of the handlers that a request is not calm about. *)
LEMMA MarkVerifiedInvariant ==
  ASSUME IInv, MarkVerified
  PROVE  IInv'
<1> DEFINE r == Answered("verify")
<1>0. Typed /\ "verify" \in Kinds /\ call \in [Kinds -> CallType]
  BY DEF IInv, Typed, Kinds
<1>1. /\ r \in CallType /\ (call["verify"].ears = "none" => r.at = "idle")
      /\ call["verify"].ears # "none" => r.at = "answered" /\ r.ears = call["verify"].ears
  BY <1>0, AnsweredFields
<1>2. call' = [call EXCEPT !["verify"] = r] /\ call["verify"].at = "taken"
      /\ UNCHANGED <<otp, cooldown, store, hydrated, page, history>>
  BY DEF MarkVerified, tabVars
<1>3. account' \in Users /\ account'.verified = TRUE /\ account'.email = account.email
  BY <1>0 DEF MarkVerified, Users, Typed
<1> HIDE DEF r
<1>4. call' \in [Kinds -> CallType] /\ call'["verify"] = r /\ \A j \in Kinds : j # "verify" => call'[j] = call[j]
  BY <1>0, <1>1, <1>2
<1>5. Kinds = {"verify", "resend", "update", "me"}
  BY DEF Kinds
<1>6. Typed'
  BY <1>0, <1>2, <1>3, <1>4, <1>5 DEF Typed
<1>7. DeafUnseen' /\ AnsweredHeard'
  BY <1>1, <1>2, <1>4 DEF IInv, DeafUnseen, AnsweredHeard
<1>8. PageListens' /\ HooksLate'
  BY <1>1, <1>2, <1>3, <1>4, <1>5 DEF IInv, PageListens, HooksLate, OfPage
<1>9. Counted'
  BY <1>1, <1>2, <1>4, <1>5 DEF IInv, Counted
<1>10. UpdateCurrent'
  BY <1>3, <1>4, <1>5 DEF IInv, UpdateCurrent
<1>11. Shown'
  BY <1>2, <1>3, <1>4, <1>5 DEF IInv, Shown, Excused, HooksIdle
<1>12. Left'
  BY <1>0, <1>1, <1>2, <1>3, <1>4 DEF IInv, Left, DeafUnseen
<1> QED
  BY <1>6, <1>7, <1>8, <1>9, <1>10, <1>11, <1>12 DEF IInv

LEMMA ChangeEmailInvariant ==
  ASSUME IInv, ChangeEmail
  PROVE  IInv'
<1> DEFINE r == [call["update"] EXCEPT !.at = "moved"]
<1>0. Typed /\ "update" \in Kinds /\ call \in [Kinds -> CallType] /\ call["update"].email \in Emails
      /\ call["update"].cooldown = 0
  BY DEF IInv, Typed, Kinds, Counted, ChangeEmail
<1>1. /\ r \in CallType /\ r.at = "moved" /\ r.ears = call["update"].ears
      /\ r.email = call["update"].email /\ r.cooldown = 0
  BY <1>0, StageFields
<1>2. call' = [call EXCEPT !["update"] = r] /\ call["update"].at = "sent" /\ ~account.verified
      /\ UNCHANGED <<otp, cooldown, store, hydrated, page, history>>
  BY DEF ChangeEmail, tabVars
<1>3. account' \in Users /\ ~account'.verified /\ account'.email = call["update"].email
  BY <1>0 DEF ChangeEmail, Users, Typed
<1> HIDE DEF r
<1>4. call' \in [Kinds -> CallType] /\ call'["update"] = r /\ \A j \in Kinds : j # "update" => call'[j] = call[j]
  BY <1>0, <1>1, <1>2
<1>5. Kinds = {"verify", "resend", "update", "me"}
  BY DEF Kinds
<1>6. Typed'
  BY <1>0, <1>1, <1>2, <1>3, <1>4, <1>5 DEF Typed
<1>7. DeafUnseen' /\ AnsweredHeard'
  BY <1>1, <1>2, <1>4 DEF IInv, DeafUnseen, AnsweredHeard
<1>8. PageListens' /\ HooksLate'
  BY <1>1, <1>2, <1>3, <1>4, <1>5 DEF IInv, PageListens, HooksLate, OfPage
<1>9. Counted'
  BY <1>1, <1>2, <1>4, <1>5 DEF IInv, Counted
<1>10. UpdateCurrent'
  BY <1>1, <1>3, <1>4 DEF UpdateCurrent
<1>11. Excused' /\ ~HooksIdle'
  BY <1>1, <1>2, <1>4 DEF Excused, InRow, HooksIdle, IInv, HooksLate, OfPage
<1>12. Shown'
  BY <1>2, <1>11 DEF IInv, Shown
<1>13. Left'
  BY <1>2, <1>3, <1>4, <1>5 DEF IInv, Left
<1> QED
  BY <1>6, <1>7, <1>8, <1>9, <1>10, <1>12, <1>13 DEF IInv

LEMMA StoreCodeInvariant ==
  ASSUME IInv, NEW k \in Kinds, NEW c \in Codes, NEW d \in Short..Long, StoreCode(k, c, d)
  PROVE  IInv'
<1>0. Typed /\ call \in [Kinds -> CallType] /\ k \in {"resend", "update"} /\ d \in 0..Long /\ account.email \in Emails
      /\ call[k].at \in {"sent", "changed"} /\ (k = "update" => call[k].at = "changed" /\ call[k].email \in Emails)
  BY BoundsAssumption DEF IInv, Typed, StoreCode, Users
<1> DEFINE e == IF k = "resend" THEN account.email ELSE call[k].email
           r == [call[k] EXCEPT !.at = "coded", !.code = c, !.cooldown = d, !.email = e]
<1>1. e \in Emails /\ (k = "update" => e = call[k].email)
  BY <1>0
<1>2. call' = [call EXCEPT ![k] = r]
  BY <1>0 DEF StoreCode
<1> HIDE DEF e
<1>3. /\ r \in CallType /\ r.at = "coded" /\ r.ears = call[k].ears /\ r.email = e /\ r.cooldown = d
  BY <1>0, <1>1 DEF CallType
<1> HIDE DEF r
<1>4. UNCHANGED <<account, store, hydrated, page>> /\ otp' = c /\ cooldown' = d
  BY DEF StoreCode, tabVars
<1>5. history' \in HistoryType /\ history'.setter = k /\ ~history'.counted /\ history'.unseen = history.unseen
      /\ history'.stale = history.stale /\ history'.returned = history.returned
  BY <1>0 DEF StoreCode, Typed, HistoryType
<1>6. call' \in [Kinds -> CallType] /\ call'[k] = r /\ \A j \in Kinds : j # k => call'[j] = call[j]
  BY <1>0, <1>2, <1>3
<1>7. Kinds = {"verify", "resend", "update", "me"}
  BY DEF Kinds
<1>8. Typed'
  BY <1>0, <1>1, <1>3, <1>4, <1>5, <1>6, <1>7 DEF Typed
<1>9. DeafUnseen' /\ AnsweredHeard'
  BY <1>0, <1>3, <1>5, <1>6 DEF IInv, DeafUnseen, AnsweredHeard
<1>10. PageListens' /\ HooksLate'
  BY <1>0, <1>3, <1>4, <1>6, <1>7 DEF IInv, PageListens, HooksLate, OfPage
<1>11. Counted'
  <2>1. d <= d
    BY <1>0, BoundsAssumption
  <2> QED
    BY <1>0, <1>3, <1>4, <1>5, <1>6, <1>7, <2>1 DEF IInv, Counted
<1>12. UpdateCurrent'
  BY <1>0, <1>1, <1>3, <1>4, <1>6, <1>7 DEF IInv, UpdateCurrent, InRow
<1>13. (Excused => Excused') /\ (HooksIdle' => HooksIdle)
  BY <1>0, <1>3, <1>5, <1>6, <1>7 DEF Excused, InRow, HooksIdle
<1>14. Shown'
  BY <1>4, <1>5, <1>13 DEF IInv, Shown
<1>15. Left'
  BY <1>0, <1>4, <1>5, <1>6, <1>7 DEF IInv, Left
<1> QED
  BY <1>8, <1>9, <1>10, <1>11, <1>12, <1>14, <1>15 DEF IInv

-----------------------------------------------------------------------------
(* Where the guards lead.                                                  *)
LEMMA ElsewhereFields ==
  ASSUME NEW route \in {"dashboard", "login", "register"}, NEW closure \in Users \cup {None}
  PROVE  Elsewhere(route, closure) \in PageType /\ Elsewhere(route, closure).route = route
         /\ Elsewhere(route, closure).closure = closure
BY BoundsAssumption DEF Elsewhere, PageType

LEMMA MountedFields ==
  ASSUME Typed, NEW from \in Emails \cup {None}, NEW u \in Users \cup {None}
  PROVE  /\ Mounted(from, u) \in PageType /\ Mounted(from, u).route = "verify" /\ Mounted(from, u).from = from
         /\ Mounted(from, u).shown = (IF u = None THEN from ELSE u.email)
         /\ Mounted(from, u).closure = page.closure
<1> DEFINE shown == IF u = None THEN from ELSE u.email
<1>1. shown \in Emails \cup {None} /\ page.closure \in Users \cup {None} /\ Short \in 0..Long
  BY BoundsAssumption DEF Typed, PageType, Users
<1> HIDE DEF shown
<1>2. Mounted(from, u) = [route |-> "verify", from |-> from, shown |-> shown, digits |-> None,
                          countdown |-> Short, closure |-> page.closure]
  BY DEF Mounted, shown
<1> QED
  BY <1>1, <1>2 DEF PageType, shown

(* On the page, the guards at most copy the address of the store. *)
LEMMA GuardedHere ==
  ASSUME NEW pg \in PageType, pg.route = "verify", NEW u \in Users \cup {None}, NEW h \in BOOLEAN
  PROVE  /\ Guarded(pg, u, h) \in PageType /\ Guarded(pg, u, h).route = "verify"
         /\ Guarded(pg, u, h).from = pg.from /\ Guarded(pg, u, h).closure = pg.closure
         /\ Guarded(pg, u, h).countdown = pg.countdown
         /\ Guarded(pg, u, h).shown = (IF u # None /\ (store = None \/ u.email # store.email) THEN u.email ELSE pg.shown)
<1>1. CASE u # None /\ (store = None \/ u.email # store.email)
  <2>1. Guarded(pg, u, h) = [pg EXCEPT !.shown = u.email] /\ u.email \in Emails
    BY <1>1 DEF Guarded, Users
  <2> QED
    BY <1>1, <2>1 DEF PageType
<1>2. CASE ~(u # None /\ (store = None \/ u.email # store.email))
  BY <1>2 DEF Guarded
<1> QED
  BY <1>1, <1>2

(* Elsewhere, a verified user, or none, is not led to it. *)
LEMMA GuardedAway ==
  ASSUME NEW pg \in PageType, pg.route # "verify", NEW u \in Users \cup {None}, NEW h \in BOOLEAN,
         u # None => u.verified
  PROVE  Guarded(pg, u, h) \in PageType /\ Guarded(pg, u, h).route # "verify"
         /\ Guarded(pg, u, h).closure = pg.closure
<1>1. pg.closure \in Users \cup {None}
  BY DEF PageType
<1>2. /\ Elsewhere("login", pg.closure) \in PageType /\ Elsewhere("login", pg.closure).route = "login"
      /\ Elsewhere("login", pg.closure).closure = pg.closure
      /\ Elsewhere("dashboard", pg.closure) \in PageType /\ Elsewhere("dashboard", pg.closure).route = "dashboard"
      /\ Elsewhere("dashboard", pg.closure).closure = pg.closure
  BY <1>1, ElsewhereFields
<1> QED
  BY <1>2 DEF Guarded

-----------------------------------------------------------------------------
(* The tab.                                                                *)
LEMMA ReloadInvariant ==
  ASSUME IInv, NEW from \in Emails \cup {None}, Reload(from)
  PROVE  IInv'
<1>0. Typed /\ call \in [Kinds -> CallType] /\ page \in PageType /\ history \in HistoryType
  BY DEF IInv, Typed
<1>1. UNCHANGED <<account, otp, cooldown>> /\ store' = None /\ hydrated' = FALSE
  BY DEF Reload, serverVars
<1>2. /\ page' \in PageType /\ page'.closure = None /\ (page'.route = "verify" => page.route = "verify")
      /\ (page'.route = "verify" => page'.shown = page'.from)
  <2>1. CASE page.route = "dashboard"
    BY <2>1, ElsewhereFields DEF Reload
  <2>2. CASE page.route # "dashboard" /\ from = None
    BY <2>2, ElsewhereFields DEF Reload
  <2>3. CASE page.route # "dashboard" /\ from # None
    <3> DEFINE m == Mounted(from, None)
    <3>1. m \in PageType /\ m.route = "verify" /\ m.from = from /\ m.shown = from
      BY <1>0, MountedFields
    <3>2. page' = [m EXCEPT !.closure = None] /\ page.route = "verify"
      BY <2>3 DEF Reload
    <3> HIDE DEF m
    <3> QED
      BY <3>1, <3>2 DEF PageType
  <2> QED
    BY <2>1, <2>2, <2>3
<1>3. /\ history' \in HistoryType /\ ~history'.counted /\ history'.stale = history.stale
      /\ history'.returned = history.returned /\ history'.setter = history.setter
      /\ history.unseen \subseteq history'.unseen /\ \A k \in Kinds : call[k].at # "idle" => k \in history'.unseen
  BY <1>0 DEF Reload, HistoryType
<1>4. Kinds = {"verify", "resend", "update", "me"}
  BY DEF Kinds
<1>5. ASSUME NEW k \in Kinds
      PROVE  /\ call'[k] \in CallType
             /\ k = "me" => call'[k].at = "sent" /\ call'[k].ears = "page"
             /\ k # "me" /\ ~Sent(k) => call'[k].at = "idle"
             /\ k # "me" /\ Sent(k) => /\ call'[k].at = call[k].at /\ call'[k].ears = "none"
                                       /\ call'[k].email = call[k].email /\ call'[k].cooldown = call[k].cooldown
  <2>1. call'[k] = IF k = "me" THEN Call("sent", None, None)
                   ELSE IF Sent(k) THEN [call[k] EXCEPT !.ears = "none"] ELSE NoCall
    BY DEF Reload
  <2>2. CASE k = "me"
    BY <2>1, <2>2, CallFields
  <2>3. CASE k # "me" /\ Sent(k)
    BY <1>0, <2>1, <2>3, EarsFields DEF Ears
  <2>4. CASE k # "me" /\ ~Sent(k)
    BY <2>1, <2>4, NoCallFields
  <2> QED
    BY <2>2, <2>3, <2>4
<1>6. call' \in [Kinds -> CallType]
  <2>1. \A k \in Kinds : call'[k] \in CallType
    BY <1>5
  <2>2. call' = [k \in Kinds |-> call'[k]]
    BY DEF Reload
  <2> QED
    BY <2>1, <2>2
<1>7. Typed'
  BY <1>0, <1>1, <1>2, <1>3, <1>4, <1>5, <1>6 DEF Typed, Sent, AtServer
<1>8. DeafUnseen' /\ AnsweredHeard'
  BY <1>3, <1>4, <1>5 DEF DeafUnseen, AnsweredHeard, Sent, AtServer
<1>9. PageListens' /\ HooksLate'
  BY <1>4, <1>5 DEF PageListens, HooksLate, OfPage
<1>10. Counted'
  BY <1>0, <1>1, <1>3, <1>4, <1>5 DEF IInv, Counted, Sent, AtServer
<1>11. UpdateCurrent'
  BY <1>1, <1>4, <1>5 DEF IInv, UpdateCurrent, InRow
<1>12. ~HooksIdle'
  BY <1>4, <1>5 DEF HooksIdle
<1>13. Shown'
  BY <1>1, <1>2, <1>12 DEF Shown
<1>14. Left'
  BY <1>1, <1>2, <1>3, <1>4, <1>5 DEF IInv, Left, Sent, AtServer
<1> QED
  BY <1>7, <1>8, <1>9, <1>10, <1>11, <1>13, <1>14 DEF IInv

(* Once an answer was heard, the request is forgotten. *)
LEMMA HeardFields ==
  ASSUME Typed, NEW k \in Kinds, call' = Heard(k)
  PROVE  /\ call' \in [Kinds -> CallType] /\ call'[k].at = "idle"
         /\ \A j \in Kinds : j # k => call'[j] = call[j]
BY NoCallFields DEF Heard, Typed

(* What a heard answer leaves as it was, if the page stays what it was: on *)
(* the screen, or away.                                                    *)
LEMMA HeardListeners ==
  ASSUME IInv, NEW k \in Kinds, call' = Heard(k), account' = account,
         history.unseen \subseteq history'.unseen, page.route = "verify" => page'.route = "verify"
  PROVE  DeafUnseen' /\ AnsweredHeard' /\ PageListens' /\ HooksLate' /\ UpdateCurrent'
<1>1. /\ call'[k].at = "idle" /\ \A j \in Kinds : j # k => call'[j] = call[j]
  BY HeardFields DEF IInv
<1>2. OfPage \subseteq Kinds /\ "update" \in Kinds
  BY DEF OfPage, Kinds
<1>3. DeafUnseen' /\ AnsweredHeard'
  BY <1>1 DEF IInv, DeafUnseen, AnsweredHeard
<1>4. PageListens' /\ HooksLate'
  BY <1>1, <1>2 DEF IInv, PageListens, HooksLate
<1>5. UpdateCurrent'
  BY <1>1, <1>2 DEF IInv, UpdateCurrent, InRow
<1> QED
  BY <1>3, <1>4, <1>5

LEMMA HeardCounted ==
  ASSUME IInv, NEW k \in Kinds, call' = Heard(k), cooldown' = cooldown, history'.setter = history.setter,
         history'.counted => page'.route = "verify" /\ page'.countdown >= cooldown
  PROVE  Counted'
<1>1. /\ call'[k].at = "idle" /\ \A j \in Kinds : j # k => call'[j] = call[j]
  BY HeardFields DEF IInv
<1>2. Kinds = {"verify", "resend", "update", "me"}
  BY DEF Kinds
<1> QED
  BY <1>1, <1>2 DEF IInv, Counted

LEMMA OnErrorInvariant ==
  ASSUME IInv, NEW k \in Kinds, OnError(k)
  PROVE  IInv'
<1>0. Typed /\ page \in PageType /\ store \in Users \cup {None} /\ hydrated \in BOOLEAN
      /\ (page.route # "verify" /\ store # None => store.verified)
  BY DEF IInv, Typed, Left
<1>1. /\ call[k].at = "failed" /\ call' = Heard(k) /\ hydrated' = (hydrated \/ k = "me")
      /\ page' = Guarded(page, store, hydrated') /\ UNCHANGED <<account, otp, cooldown, store, history>>
  BY DEF OnError, serverVars
<1>2. hydrated' \in BOOLEAN /\ (hydrated => hydrated')
  BY <1>0, <1>1
<1>3. page' \in PageType /\ page'.closure = page.closure /\ (page'.route = "verify" <=> page.route = "verify")
      /\ (page.route = "verify" => page'.shown = page.shown /\ page'.from = page.from
                                   /\ page'.countdown = page.countdown)
  <2>1. CASE page.route = "verify"
    <3>1. ~(store # None /\ (store = None \/ store.email # store.email))
      OBVIOUS
    <3> QED
      BY <1>0, <1>1, <1>2, <2>1, <3>1, GuardedHere
  <2>2. CASE page.route # "verify"
    BY <1>0, <1>1, <1>2, <2>2, GuardedAway
  <2> QED
    BY <2>1, <2>2
<1>4. /\ call' \in [Kinds -> CallType] /\ call'[k].at = "idle" /\ \A j \in Kinds : j # k => call'[j] = call[j]
  BY <1>0, <1>1, HeardFields
<1>5. Kinds = {"verify", "resend", "update", "me"}
  BY DEF Kinds
<1>6. Typed'
  BY <1>0, <1>1, <1>2, <1>3, <1>4, <1>5 DEF Typed
<1>7. DeafUnseen' /\ AnsweredHeard' /\ PageListens' /\ HooksLate' /\ UpdateCurrent'
  BY <1>1, <1>3, HeardListeners
<1>8. Counted'
  BY <1>1, <1>3, HeardCounted DEF IInv, Counted
<1>9. (Excused => Excused') /\ (HooksIdle' => HooksIdle)
  BY <1>1, <1>4, <1>5 DEF Excused, HooksIdle, InRow
<1>10. Shown'
  BY <1>1, <1>3, <1>9 DEF IInv, Shown
<1>11. Left'
  BY <1>1, <1>3, <1>4, <1>5 DEF IInv, Left
<1> QED
  BY <1>6, <1>7, <1>8, <1>10, <1>11 DEF IInv

LEMMA OnVerifiedInvariant ==
  ASSUME IInv, OnVerified
  PROVE  IInv'
<1>0. Typed /\ call \in [Kinds -> CallType] /\ store \in Users \cup {None} /\ hydrated \in BOOLEAN
      /\ history \in HistoryType /\ account.verified /\ (store # None => hydrated)
  BY DEF IInv, Typed, Left, OnVerified
<1>1. UNCHANGED <<account, otp, cooldown, hydrated>>
  BY DEF OnVerified, serverVars
<1>2. store' \in Users \cup {None} /\ (store' = None <=> store = None)
      /\ (store # None => store'.verified /\ store'.email = store.email)
  <2>1. CASE store = None
    BY <2>1 DEF OnVerified
  <2>2. CASE store # None
    <3>1. store \in Users /\ store' = [store EXCEPT !.verified = TRUE]
      BY <1>0, <2>2 DEF OnVerified
    <3>2. store' \in Users /\ store'.verified /\ store'.email = store.email
      BY <3>1 DEF Users
    <3> QED
      BY <2>2, <3>2, NoneAssumption
  <2> QED
    BY <2>1, <2>2
<1>3. page' \in PageType /\ page'.route # "verify" /\ page'.closure = store'
  <2> DEFINE pg == Elsewhere("dashboard", store')
  <2>1. pg \in PageType /\ pg.route = "dashboard" /\ pg.closure = store'
    BY <1>2, ElsewhereFields
  <2>2. PICK u : u = store'
    OBVIOUS
  <2>3. PICK q : q = pg
    OBVIOUS
  <2>4. page' = Guarded(q, u, hydrated)
    BY <2>2, <2>3 DEF OnVerified
  <2>5. Guarded(q, u, hydrated).route # "verify" /\ Guarded(q, u, hydrated).closure = q.closure
        /\ Guarded(q, u, hydrated) \in PageType
    BY <1>0, <1>2, <2>1, <2>2, <2>3, GuardedAway
  <2> QED
    BY <2>1, <2>2, <2>3, <2>4, <2>5
<1>4. /\ history' \in HistoryType /\ ~history'.counted /\ history'.stale = history.stale
      /\ history'.returned = history.returned /\ history'.setter = history.setter
      /\ history'.unseen = history.unseen
  BY <1>0 DEF OnVerified, HistoryType
<1>5. Kinds = {"verify", "resend", "update", "me"}
  BY DEF Kinds
<1>6. ASSUME NEW k \in Kinds
      PROVE  /\ call'[k] \in CallType
             /\ k = "verify" => call'[k].at = "idle"
             /\ k # "verify" => /\ call'[k].at = call[k].at /\ call'[k].email = call[k].email
                                /\ call'[k].cooldown = call[k].cooldown
                                /\ call[k].at # "idle" => call'[k].ears # "page"
                                                          /\ (call'[k].ears = "none" <=> call[k].ears = "none")
  <2>1. call'[k] = IF k = "verify" THEN NoCall
                   ELSE IF call[k].at # "idle" /\ call[k].ears = "page"
                          THEN [call[k] EXCEPT !.ears = "hooks"] ELSE call[k]
    BY DEF OnVerified
  <2>2. CASE k = "verify"
    BY <2>1, <2>2, NoCallFields
  <2>3. CASE k # "verify" /\ call[k].at # "idle" /\ call[k].ears = "page"
    BY <1>0, <2>1, <2>3, EarsFields DEF Ears
  <2>4. CASE k # "verify" /\ ~(call[k].at # "idle" /\ call[k].ears = "page")
    BY <1>0, <2>1, <2>4
  <2> QED
    BY <2>2, <2>3, <2>4
<1>7. call' \in [Kinds -> CallType]
  <2>1. \A k \in Kinds : call'[k] \in CallType
    BY <1>6
  <2>2. call' = [k \in Kinds |-> call'[k]]
    BY DEF OnVerified
  <2> QED
    BY <2>1, <2>2
<1>8. Typed'
  BY <1>0, <1>1, <1>2, <1>3, <1>4, <1>5, <1>6, <1>7 DEF Typed
<1>9. DeafUnseen' /\ AnsweredHeard'
  BY <1>4, <1>5, <1>6 DEF IInv, DeafUnseen, AnsweredHeard
<1>10. PageListens' /\ HooksLate'
  BY <1>0, <1>1, <1>5, <1>6 DEF PageListens, HooksLate, OfPage
<1>11. Counted'
  BY <1>1, <1>4, <1>5, <1>6 DEF IInv, Counted
<1>12. UpdateCurrent'
  BY <1>1, <1>5, <1>6 DEF IInv, UpdateCurrent
<1>13. Excused => Excused'
  BY <1>4, <1>5, <1>6 DEF Excused
<1>14. Shown'
  BY <1>1, <1>2, <1>3, <1>13 DEF IInv, Shown
<1>15. Left'
  BY <1>2, <1>3, <1>5, <1>6 DEF Left
<1> QED
  BY <1>8, <1>9, <1>10, <1>11, <1>12, <1>14, <1>15 DEF IInv

LEMMA OnResentInvariant ==
  ASSUME IInv, OnResent
  PROVE  IInv'
<1> DEFINE a == call["resend"]
<1>0. Typed /\ page \in PageType /\ history \in HistoryType /\ a \in CallType /\ "resend" \in Kinds
      /\ (a.ears = "page" => page.route = "verify")
      /\ (history.setter = "resend" => cooldown <= a.cooldown)
  BY DEF IInv, Typed, Kinds, OnResent, PageListens, OfPage, Counted
<1>1. /\ a.at = "answered" /\ call' = Heard("resend") /\ UNCHANGED <<account, otp, cooldown, store, hydrated>>
  BY DEF OnResent, serverVars
<1>2. /\ page' \in PageType /\ page'.closure = page.closure /\ page'.route = page.route
      /\ page'.shown = page.shown /\ page'.from = page.from
      /\ history' \in HistoryType /\ history'.setter = history.setter /\ history'.unseen = history.unseen
      /\ history'.stale = history.stale /\ history'.returned = history.returned
      /\ history'.counted => page'.route = "verify" /\ page'.countdown >= cooldown
  <2>1. CASE a.ears = "page"
    <3>1. page' = [page EXCEPT !.countdown = a.cooldown]
          /\ history' = [history EXCEPT !.counted = history.setter = "resend"]
      BY <2>1 DEF OnResent
    <3>2. /\ page' \in PageType /\ page'.closure = page.closure /\ page'.route = page.route
          /\ page'.shown = page.shown /\ page'.from = page.from /\ page'.countdown = a.cooldown
      BY <1>0, <3>1 DEF PageType, CallType
    <3>3. /\ history' \in HistoryType /\ history'.setter = history.setter /\ history'.unseen = history.unseen
          /\ history'.stale = history.stale /\ history'.returned = history.returned
          /\ history'.counted = (history.setter = "resend")
      BY <1>0, <3>1 DEF HistoryType
    <3>4. a.cooldown \in Int /\ cooldown \in Int
      BY <1>0, BoundsAssumption DEF CallType, Typed
    <3> QED
      BY <1>0, <2>1, <3>2, <3>3, <3>4
  <2>2. CASE a.ears # "page"
    BY <1>0, <2>2 DEF OnResent, IInv, Counted
  <2> QED
    BY <2>1, <2>2
<1>3. /\ call' \in [Kinds -> CallType] /\ call'["resend"].at = "idle"
      /\ \A j \in Kinds : j # "resend" => call'[j] = call[j]
  BY <1>0, <1>1, HeardFields
<1>4. Kinds = {"verify", "resend", "update", "me"}
  BY DEF Kinds
<1>5. Typed'
  BY <1>0, <1>1, <1>2, <1>3, <1>4 DEF Typed
<1>6. DeafUnseen' /\ AnsweredHeard' /\ PageListens' /\ HooksLate' /\ UpdateCurrent'
  BY <1>0, <1>1, <1>2, HeardListeners
<1>7. Counted'
  BY <1>0, <1>1, <1>2, HeardCounted
<1>8. (Excused => Excused') /\ (HooksIdle' => HooksIdle)
  BY <1>2, <1>3, <1>4 DEF Excused, HooksIdle, InRow
<1>9. Shown'
  BY <1>1, <1>2, <1>8 DEF IInv, Shown
<1>10. Left'
  BY <1>1, <1>2, <1>3, <1>4 DEF IInv, Left
<1> QED
  BY <1>5, <1>6, <1>7, <1>9, <1>10 DEF IInv

(* An answer to the change of the address carries the address of the row.  *)
LEMMA UpdateAnswer ==
  ASSUME IInv, OnUpdated
  PROVE  /\ Typed /\ call["update"] \in CallType /\ "update" \in Kinds /\ call["update"].at = "answered"
         /\ call["update"].email = account.email /\ account.email \in Emails
         /\ call["update"].ears \in {"page", "hooks"}
         /\ (call["update"].ears = "page" => page.route = "verify") /\ (call["update"].ears = "hooks" => HooksIdle)
         /\ call' = Heard("update") /\ UNCHANGED <<account, otp, cooldown>>
         /\ call' \in [Kinds -> CallType] /\ call'["update"].at = "idle"
         /\ \A j \in Kinds : j # "update" => call'[j] = call[j]
<1>1. Typed /\ call["update"] \in CallType /\ "update" \in Kinds /\ call["update"].at = "answered"
      /\ call["update"].email = account.email /\ account.email \in Emails
  BY DEF IInv, Typed, OnUpdated, UpdateCurrent, InRow, Kinds, Users
<1>2. call["update"].ears \in {"page", "hooks"} /\ (call["update"].ears = "hooks" => HooksIdle)
  BY <1>1 DEF IInv, AnsweredHeard, CallType, Ears, HooksIdle
<1>3. call["update"].ears = "page" => page.route = "verify"
  BY <1>1 DEF IInv, PageListens, OfPage
<1>4. call' = Heard("update") /\ UNCHANGED <<account, otp, cooldown>>
  BY DEF OnUpdated, serverVars
<1> QED
  BY <1>1, <1>2, <1>3, <1>4, HeardFields

LEMMA OnUpdatedOpenInvariant ==
  ASSUME IInv, OnUpdated, call["update"].ears = "page"
  PROVE  IInv'
<1> DEFINE a == call["update"]
           counts == a.cooldown > 0
           told == [page EXCEPT !.shown = a.email, !.digits = None,
                                !.countdown = IF counts THEN a.cooldown ELSE @]
<1>0. /\ Typed /\ a \in CallType /\ "update" \in Kinds /\ a.at = "answered"
      /\ a.email = account.email /\ account.email \in Emails /\ page.route = "verify"
      /\ call' = Heard("update") /\ UNCHANGED <<account, otp, cooldown>>
      /\ call' \in [Kinds -> CallType] /\ call'["update"].at = "idle"
      /\ \A j \in Kinds : j # "update" => call'[j] = call[j]
  BY UpdateAnswer
<1>1. /\ page \in PageType /\ history \in HistoryType /\ store \in Users \cup {None} /\ hydrated \in BOOLEAN
      /\ a.cooldown \in 0..Long /\ a.email \in Emails
  BY <1>0 DEF Typed, CallType
<1>2. /\ told \in PageType /\ told.route = "verify" /\ told.shown = a.email /\ told.from = page.from
      /\ told.closure = page.closure
      /\ told.countdown = (IF counts THEN a.cooldown ELSE page.countdown)
  <2> DEFINE n == IF counts THEN a.cooldown ELSE page.countdown
  <2>1. n \in 0..Long
    BY <1>1 DEF PageType
  <2>2. told = [page EXCEPT !.shown = a.email, !.digits = None, !.countdown = n]
    OBVIOUS
  <2> HIDE DEF n
  <2>3. /\ told \in PageType /\ told.route = "verify" /\ told.shown = a.email /\ told.from = page.from
        /\ told.closure = page.closure /\ told.countdown = n
    BY <1>0, <1>1, <2>1, <2>2 DEF PageType
  <2> QED
    BY <2>3 DEF n
<1>3. /\ store' = (IF store = None THEN store ELSE [store EXCEPT !.email = a.email])
      /\ hydrated' = (hydrated \/ store # None)
      /\ page' = Guarded(told, store', hydrated')
      /\ history' = (IF counts THEN [history EXCEPT !.counted = history.setter = "update"] ELSE history)
  BY DEF OnUpdated
<1>4. /\ store' \in Users \cup {None} /\ (store = None <=> store' = None)
      /\ store # None => store'.email = a.email /\ store'.verified = store.verified
  <2>1. CASE store = None
    BY <1>3, <2>1
  <2>2. CASE store # None
    <3>1. store \in Users /\ store' = [store EXCEPT !.email = a.email]
      BY <1>1, <1>3, <2>2
    <3>2. store' \in Users /\ store'.email = a.email /\ store'.verified = store.verified
      BY <1>1, <3>1 DEF Users
    <3> QED
      BY <2>2, <3>2, NoneAssumption
  <2> QED
    BY <2>1, <2>2
<1>5. hydrated' \in BOOLEAN /\ (store' # None => hydrated')
  BY <1>1, <1>3, <1>4
<1>6. /\ page' \in PageType /\ page'.route = "verify" /\ page'.from = page.from /\ page'.closure = page.closure
      /\ page'.countdown = told.countdown /\ page'.shown = a.email
  <2>1. PICK t : t = told
    OBVIOUS
  <2>2. PICK u : u = store'
    OBVIOUS
  <2>3. PICK h : h = hydrated'
    OBVIOUS
  <2>4. page' = Guarded(t, u, h)
    BY <1>3, <2>1, <2>2, <2>3
  <2>5. t \in PageType /\ t.route = "verify" /\ u \in Users \cup {None} /\ h \in BOOLEAN
    BY <1>2, <1>4, <1>5, <2>1, <2>2, <2>3
  <2>6. /\ Guarded(t, u, h) \in PageType /\ Guarded(t, u, h).route = "verify"
        /\ Guarded(t, u, h).from = t.from /\ Guarded(t, u, h).closure = t.closure
        /\ Guarded(t, u, h).countdown = t.countdown
        /\ Guarded(t, u, h).shown = (IF u # None /\ (store = None \/ u.email # store.email) THEN u.email ELSE t.shown)
    BY <2>5, GuardedHere
  <2>7. u # None => u.email = a.email
    BY <1>4, <2>2
  <2> HIDE DEF told
  <2> QED
    BY <1>2, <2>1, <2>4, <2>6, <2>7
<1>7. /\ history' \in HistoryType /\ history'.setter = history.setter /\ history'.unseen = history.unseen
      /\ history'.stale = history.stale /\ history'.returned = history.returned
      /\ history'.counted = (IF counts THEN history.setter = "update" ELSE history.counted)
  BY <1>1, <1>3 DEF HistoryType
<1>8. history'.counted => page'.route = "verify" /\ page'.countdown >= cooldown
  <2>1. CASE counts
    <3>1. history.setter = "update" => cooldown <= a.cooldown
      BY <1>0, <2>1 DEF IInv, Counted
    <3>2. page'.countdown = a.cooldown /\ cooldown \in Int /\ a.cooldown \in Int
      BY <1>0, <1>1, <1>2, <1>6, <2>1, BoundsAssumption DEF Typed
    <3> QED
      BY <1>6, <1>7, <2>1, <3>1, <3>2
  <2>2. CASE ~counts
    BY <1>2, <1>6, <1>7, <2>2 DEF IInv, Counted
  <2> QED
    BY <2>1, <2>2
<1> HIDE DEF told, counts
<1>9. Kinds = {"verify", "resend", "update", "me"}
  BY DEF Kinds
<1>10. Typed'
  BY <1>0, <1>4, <1>5, <1>6, <1>7, <1>9 DEF Typed
<1>11. DeafUnseen' /\ AnsweredHeard' /\ PageListens' /\ HooksLate' /\ UpdateCurrent'
  BY <1>0, <1>6, <1>7, HeardListeners
<1>12. Counted'
  BY <1>0, <1>7, <1>8, HeardCounted
<1>13. Shown'
  BY <1>0, <1>4, <1>6 DEF Shown, HooksIdle
<1>14. Left'
  BY <1>0, <1>6, <1>7, <1>9 DEF IInv, Left
<1> QED
  BY <1>10, <1>11, <1>12, <1>13, <1>14 DEF IInv

(* The hooks of a page that is gone restore the user of that page. *)
LEMMA OnUpdatedHooksInvariant ==
  ASSUME IInv, OnUpdated, call["update"].ears = "hooks"
  PROVE  IInv'
<1> DEFINE a == call["update"]
<1>0. /\ Typed /\ a \in CallType /\ "update" \in Kinds /\ a.at = "answered"
      /\ a.email = account.email /\ account.email \in Emails /\ HooksIdle
      /\ call' = Heard("update") /\ UNCHANGED <<account, otp, cooldown>>
      /\ call' \in [Kinds -> CallType] /\ call'["update"].at = "idle"
      /\ \A j \in Kinds : j # "update" => call'[j] = call[j]
  BY UpdateAnswer
<1>1. /\ page \in PageType /\ store \in Users \cup {None} /\ hydrated \in BOOLEAN
      /\ page.closure \in Users \cup {None} /\ (page.closure # None => page.closure.verified)
      /\ (page.route # "verify" /\ store # None => store.verified)
      /\ (page.route = "verify" => store # None /\ page.shown = store.email)
      /\ (page.closure = None /\ store # None =>
            store.email = account.email \/ "update" \in history.unseen \/ history.stale)
  BY <1>0 DEF IInv, Typed, PageType, Left, Shown
<1>2. /\ store' = (IF page.closure = None THEN store ELSE [page.closure EXCEPT !.email = a.email])
      /\ hydrated' = (hydrated \/ page.closure # None)
      /\ page' = Guarded(page, store', hydrated') /\ history' = history
  BY DEF OnUpdated
<1>3. /\ store' \in Users \cup {None} /\ (page.closure = None => store' = store)
      /\ page.closure # None => store' # None /\ store'.email = a.email /\ store'.verified
  <2>1. CASE page.closure = None
    BY <1>1, <1>2, <2>1
  <2>2. CASE page.closure # None
    <3>1. page.closure \in Users /\ store' = [page.closure EXCEPT !.email = a.email]
      BY <1>1, <1>2, <2>2
    <3>2. store' \in Users /\ store'.email = a.email /\ store'.verified
      BY <1>0, <1>1, <2>2, <3>1 DEF Users
    <3> QED
      BY <2>2, <3>2, NoneAssumption
  <2> QED
    BY <2>1, <2>2
<1>4. hydrated' \in BOOLEAN /\ (store' # None => hydrated')
  BY <1>0, <1>1, <1>2, <1>3 DEF Typed
<1>5. PICK u : u = store'
  OBVIOUS
<1>6. PICK h : h = hydrated'
  OBVIOUS
<1>7. page' = Guarded(page, u, h) /\ u \in Users \cup {None} /\ h \in BOOLEAN
      /\ (page.route # "verify" /\ u # None => u.verified)
  BY <1>1, <1>2, <1>3, <1>4, <1>5, <1>6
<1>8. page' \in PageType /\ page'.closure = page.closure /\ (page'.route = "verify" <=> page.route = "verify")
      /\ (page.route = "verify" => page'.countdown = page.countdown /\ page'.from = page.from
                                   /\ store' # None /\ page'.shown = store'.email)
  <2>1. CASE page.route = "verify"
    <3>1. /\ Guarded(page, u, h) \in PageType /\ Guarded(page, u, h).route = "verify"
          /\ Guarded(page, u, h).from = page.from /\ Guarded(page, u, h).closure = page.closure
          /\ Guarded(page, u, h).countdown = page.countdown
          /\ Guarded(page, u, h).shown = (IF u # None /\ (store = None \/ u.email # store.email) THEN u.email ELSE page.shown)
      BY <1>1, <1>7, <2>1, GuardedHere
    <3>2. u # None
      BY <1>1, <1>3, <1>5, <2>1
    <3> QED
      BY <1>1, <1>5, <1>7, <2>1, <3>1, <3>2
  <2>2. CASE page.route # "verify"
    BY <1>1, <1>7, <2>2, GuardedAway
  <2> QED
    BY <2>1, <2>2
<1>9. Kinds = {"verify", "resend", "update", "me"}
  BY DEF Kinds
<1>10. Typed'
  BY <1>0, <1>1, <1>2, <1>3, <1>4, <1>8, <1>9 DEF Typed
<1>11. DeafUnseen' /\ AnsweredHeard' /\ PageListens' /\ HooksLate' /\ UpdateCurrent'
  BY <1>0, <1>2, <1>8, HeardListeners
<1>12. Counted'
  BY <1>0, <1>2, <1>8, HeardCounted DEF IInv, Counted
<1>13. Shown'
  <2>1. store' # None => store'.email = account'.email \/ Excused'
    BY <1>0, <1>1, <1>2, <1>3 DEF Excused
  <2>2. ~HooksIdle'
    BY <1>0 DEF HooksIdle
  <2> QED
    BY <1>8, <2>1, <2>2 DEF Shown
<1>14. Left'
  <2>1. page'.route # "verify" /\ store' # None => store'.verified
    BY <1>1, <1>3, <1>8
  <2> QED
    BY <1>0, <1>2, <1>8, <1>9, <2>1 DEF IInv, Left
<1> QED
  BY <1>10, <1>11, <1>12, <1>13, <1>14 DEF IInv

LEMMA OnProfileInvariant ==
  ASSUME IInv, OnProfile
  PROVE  IInv'
<1> DEFINE a == call["me"]
           w == [email |-> a.email, verified |-> a.verified]
<1>0. /\ Typed /\ a \in CallType /\ "me" \in Kinds /\ a.at = "answered" /\ a.email \in Emails
      /\ page \in PageType /\ history \in HistoryType /\ store \in Users \cup {None}
      /\ page.closure \in Users \cup {None} /\ account \in Users
      /\ (page.route = "verify" /\ store # None => page.shown = store.email)
  BY DEF IInv, Typed, Kinds, OnProfile, PageType, Shown
<1>1. w \in Users /\ w # None /\ w.email = a.email /\ w.verified = a.verified
  BY <1>0, NoneAssumption DEF Users, CallType
<1>2. /\ call' = Heard("me") /\ store' = w /\ hydrated' = TRUE /\ page' = Guarded(page, store', TRUE)
      /\ history' = [history EXCEPT !.stale = store' # account,
                                    !.returned = @ \/ (account.verified /\ ~store'.verified)]
      /\ UNCHANGED <<account, otp, cooldown>>
  BY DEF OnProfile, serverVars
<1> HIDE DEF w
<1>3. PICK u : u = w
  OBVIOUS
<1>4. page' = Guarded(page, u, TRUE) /\ u \in Users \cup {None} /\ u # None /\ store' = u
  BY <1>1, <1>2, <1>3
<1>5. /\ history' \in HistoryType /\ history'.setter = history.setter /\ history'.unseen = history.unseen
      /\ history'.counted = history.counted /\ history'.stale = (u # account)
      /\ history'.returned = (history.returned \/ (account.verified /\ ~u.verified))
  <2> DEFINE st == u # account
             re == history.returned \/ (account.verified /\ ~u.verified)
  <2>1. st \in BOOLEAN /\ re \in BOOLEAN
    OBVIOUS
  <2>2. history' = [history EXCEPT !.stale = st, !.returned = re]
    BY <1>2, <1>4
  <2> HIDE DEF st, re
  <2>3. /\ history' \in HistoryType /\ history'.setter = history.setter /\ history'.unseen = history.unseen
        /\ history'.counted = history.counted /\ history'.stale = st /\ history'.returned = re
    BY <1>0, <2>1, <2>2 DEF HistoryType
  <2> QED
    BY <2>3 DEF st, re
<1>6. /\ page' \in PageType /\ page'.closure = page.closure
      /\ page.route = "verify" => page'.route = "verify" /\ page'.countdown = page.countdown
      /\ page.route # "verify" /\ page'.route = "verify" => ~u.verified
      /\ page'.route # "verify" => u.verified
      /\ page'.route = "verify" => page'.shown = u.email
  <2>1. CASE page.route = "verify"
    <3>1. /\ Guarded(page, u, TRUE) \in PageType /\ Guarded(page, u, TRUE).route = "verify"
          /\ Guarded(page, u, TRUE).closure = page.closure
          /\ Guarded(page, u, TRUE).countdown = page.countdown
          /\ Guarded(page, u, TRUE).shown = (IF u # None /\ (store = None \/ u.email # store.email) THEN u.email ELSE page.shown)
      BY <1>0, <1>4, <2>1, GuardedHere
    <3> QED
      BY <1>0, <1>4, <2>1, <3>1
  <2>2. CASE page.route # "verify" /\ u.verified
    BY <1>0, <1>4, <2>2, GuardedAway
  <2>3. CASE page.route # "verify" /\ ~u.verified
    <3>1. u.email \in Emails
      BY <1>4 DEF Users
    <3>2. Guarded(page, u, TRUE) = Mounted(u.email, u)
      BY <1>4, <2>3 DEF Guarded
    <3>3. /\ Mounted(u.email, u) \in PageType /\ Mounted(u.email, u).route = "verify"
          /\ Mounted(u.email, u).shown = (IF u = None THEN u.email ELSE u.email)
          /\ Mounted(u.email, u).closure = page.closure
      BY <1>0, <1>4, <3>1, MountedFields
    <3> QED
      BY <1>4, <2>3, <3>2, <3>3
  <2> QED
    BY <2>1, <2>2, <2>3
<1>7. /\ call' \in [Kinds -> CallType] /\ call'["me"].at = "idle"
      /\ \A j \in Kinds : j # "me" => call'[j] = call[j]
  BY <1>0, <1>2, HeardFields
<1>8. Kinds = {"verify", "resend", "update", "me"}
  BY DEF Kinds
<1>9. Typed'
  BY <1>0, <1>2, <1>4, <1>5, <1>6, <1>7, <1>8 DEF Typed
<1>10. DeafUnseen' /\ AnsweredHeard' /\ PageListens' /\ HooksLate' /\ UpdateCurrent'
  BY <1>0, <1>2, <1>5, <1>6, HeardListeners
<1>11. Counted'
  BY <1>0, <1>2, <1>5, <1>6, HeardCounted DEF IInv, Counted
<1>12. Shown'
  <2>1. u.email = account.email \/ history'.stale
    BY <1>5
  <2> QED
    BY <1>2, <1>4, <1>6, <2>1 DEF Shown, Excused
<1>13. Left'
  BY <1>2, <1>4, <1>5, <1>6, <1>7, <1>8 DEF IInv, Left
<1> QED
  BY <1>9, <1>10, <1>11, <1>12, <1>13 DEF IInv

-----------------------------------------------------------------------------

LEMMA InitInvariant ==
  ASSUME Init
  PROVE  IInv
<1>1. PICK e \in Emails, c \in Codes, coded \in BOOLEAN :
        /\ account = [email |-> e, verified |-> FALSE] /\ store = account
        /\ page = [route |-> "verify", from |-> e, shown |-> e, digits |-> None, countdown |-> Short, closure |-> None]
        /\ otp = (IF coded THEN c ELSE None)
        /\ cooldown = (IF coded THEN Short ELSE 0)
  BY DEF Init
<1>2. /\ hydrated = TRUE /\ call = [k \in Kinds |-> NoCall]
      /\ history = [unseen |-> {}, stale |-> FALSE, returned |-> FALSE, counted |-> TRUE, setter |-> None]
  BY DEF Init
<1>3. account \in Users /\ store # None /\ store \in Users /\ ~account.verified /\ account.email = e
  <2>1. [email |-> e, verified |-> FALSE] \in Users
    BY DEF Users
  <2>2. store \in Users /\ account \in Users /\ ~account.verified /\ account.email = e
    BY <1>1, <2>1
  <2> QED
    BY <2>2, NoneAssumption
<1>4. /\ page \in PageType /\ page.route = "verify" /\ page.shown = e /\ page.closure = None
      /\ page.countdown = Short
  BY <1>1, BoundsAssumption DEF PageType
<1>5. call \in [Kinds -> CallType] /\ \A k \in Kinds : call[k].at = "idle"
  BY <1>2, NoCallFields
<1>6. "update" \in Kinds /\ "verify" \in Kinds /\ "resend" \in Kinds /\ "me" \in Kinds /\ OfPage \subseteq Kinds
  BY DEF Kinds, OfPage
<1>7. cooldown \in 0..Long /\ Short >= cooldown /\ otp \in Codes \cup {None}
  BY <1>1, BoundsAssumption
<1>8. history \in HistoryType
  BY <1>2 DEF HistoryType
<1>9. Typed
  BY <1>2, <1>3, <1>4, <1>5, <1>6, <1>7, <1>8 DEF Typed
<1>10. DeafUnseen /\ PageListens /\ HooksLate /\ AnsweredHeard
  BY <1>5, <1>6 DEF DeafUnseen, PageListens, HooksLate, AnsweredHeard
<1>11. Counted
  BY <1>4, <1>5, <1>6, <1>7 DEF Counted
<1>12. UpdateCurrent
  BY <1>5, <1>6 DEF UpdateCurrent, InRow
<1>13. Shown
  BY <1>1, <1>3, <1>4, <1>5, <1>6 DEF Shown, HooksIdle
<1>14. Left
  BY <1>3, <1>4, <1>5, <1>6 DEF Left
<1> QED
  BY <1>9, <1>10, <1>11, <1>12, <1>13, <1>14 DEF IInv

LEMMA NextInvariant ==
  ASSUME IInv, [Next]_vars
  PROVE  IInv'
<1>1. CASE User
  BY <1>1, QuietSteps, UserCalm, CalmInvariant, ReloadInvariant DEF User
<1>2. ASSUME NEW k \in Kinds, Server(k) PROVE IInv'
  <2>0. "verify" \in Kinds /\ "update" \in Kinds /\ "me" \in Kinds
    BY DEF Kinds
  <2>1. CASE Refuse(k) \/ Enqueue(k)
    BY <2>1, RefuseCalm, EnqueueCalm, CalmInvariant
  <2>2. CASE \E c \in Codes, d \in Short..Long : StoreCode(k, c, d)
    BY <2>2, StoreCodeInvariant
  <2>3. CASE TakeCode \/ MarkVerified
    BY <2>0, <2>3, TakeCodeCalm, CalmInvariant, MarkVerifiedInvariant
  <2>4. CASE ChangeEmail \/ DeleteAll \/ ChangeWithoutCode
    BY <2>0, <2>4, ChangeEmailInvariant, UpdateHandlerCalm, CalmInvariant
  <2>5. CASE Profile
    BY <2>0, <2>5, ProfileCalm, CalmInvariant
  <2> QED
    BY <1>2, <2>1, <2>2, <2>3, <2>4, <2>5 DEF Server
<1>3. ASSUME NEW k \in Kinds, Answer(k) PROVE IInv'
  <2>1. CASE OnError(k)
    BY <2>1, OnErrorInvariant
  <2>2. CASE OnUpdated
    BY <2>2, UpdateAnswer, OnUpdatedOpenInvariant, OnUpdatedHooksInvariant
  <2> QED
    BY <1>3, <2>1, <2>2, OnVerifiedInvariant, OnResentInvariant, OnProfileInvariant DEF Answer
<1>4. ASSUME NEW k \in Kinds, Timeout(k) PROVE IInv'
  BY <1>4, TimeoutCalm, CalmInvariant
<1>5. CASE Tick \/ CodeEnds
  BY <1>5, QuietSteps
<1>6. CASE UNCHANGED vars
  BY <1>6 DEF vars, serverVars, tabVars, IInv, Typed, DeafUnseen, PageListens, HooksLate, AnsweredHeard,
                 Counted, UpdateCurrent, Shown, Left, Excused, HooksIdle
<1> QED
  BY <1>1, <1>2, <1>3, <1>4, <1>5, <1>6 DEF Next

(* The invariant holds of every behaviour of the page. *)
THEOREM Invariance == Spec => []IInv
<1>1. Init => IInv
  BY InitInvariant
<1>2. IInv /\ [Next]_vars => IInv'
  BY NextInvariant
<1> QED
  BY <1>1, <1>2, PTL DEF Spec

(* The store, the page and the requests keep their types, and whoever is   *)
(* in the store was put there by the hydration, or was there before it.    *)
THEOREM TypeCorrect == Spec => []TypeOK
<1>1. IInv => TypeOK
  BY DEF IInv, Typed, TypeOK, PageType, CallType, Ears
<1> QED
  BY <1>1, Invariance, PTL

(* While the page counts the cooldown down, requestOtp takes the resend it *)
(* offers at zero, for any cooldowns and any number of codes and reloads.  *)
THEOREM NoEarlyResend == Spec => []CountdownCovers
<1>1. IInv => CountdownCovers
  BY DEF IInv, Counted, CountdownCovers
<1> QED
  BY <1>1, Invariance, PTL

(* The page names the address the codes go to, but for a change in flight  *)
(* or unheard, an old profile, or the state a reload brought back.         *)
THEOREM PageNamesAddress == Spec => []ShownIsAccount
<1>1. IInv => ShownIsAccount
  BY DEF IInv, Shown, Excused, InRow, ShownIsAccount
<1> QED
  BY <1>1, Invariance, PTL

(* Nobody who verified the address stays on the page, or comes back to it, *)
(* but by a lost answer or a profile read before the verification.         *)
THEOREM VerifiedGone == Spec => []VerifiedLeaves
<1>1. IInv => VerifiedLeaves
  BY DEF IInv, Left, VerifiedLeaves
<1> QED
  BY <1>1, Invariance, PTL

=============================================================================
