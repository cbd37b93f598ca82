---------------------- MODULE EmailVerificationProofs ----------------------
(***************************************************************************)
(* For any addresses, any number of requests in flight and any limits: a   *)
(* code verifies at most once, the address changes in a window no oftener  *)
(* than the limit but for one change for every other request and for every *)
(* one that died before counting, and while nothing dies a locked code is  *)
(* about to be unlocked and a counter without expiry about to get one.     *)
(*                                                                         *)
(* The first two are not inductive.  That a code is accepted once rests on *)
(* codes being stored only fresh and never stored again (CodesFresh), and  *)
(* on there being a number left for each (RoomLeft).  The limit on changes *)
(* has to count the requests that passed it and have not counted           *)
(* themselves yet (ChangesCounted), and the changes made are those the     *)
(* counter knows, those about to be counted and those that died (Tallied). *)
(***************************************************************************)
EXTENDS EmailVerification, FiniteSetTheorems, TLAPS

ReqType == [at : Stages, address : Emails \cup {None}, code : 0..MaxCode, count : Nat]

Pending == {p \in Requests : req[p].at \in BeforeTheCode}

RoomLeft == codes + Cardinality(Pending) <= MaxCode

CodesFresh ==
  /\ otp.ttl > 0 => otp.code \in 1..codes /\ accepted[otp.code] = 0
  /\ \A c \in Codes : accepted[c] <= 1 /\ (c > codes => accepted[c] = 0)

ChangesCounted ==
  changes >= MaxChanges =>
    changes + Cardinality(Changing) <= MaxChanges - 1 + Cardinality(Requests)

Tallied == changed = changes + uncounted + Cardinality(Uncounted)

Addressed ==
  \A p \in Requests : req[p].at \in {"changeLimit", "changeEmail"} => req[p].address \in Emails

IInv == TypeOK /\ Addressed /\ RoomLeft /\ CodesFresh /\ ChangesCounted /\ Tallied
        /\ LockIsTransient /\ EndlessIsTransient

Moves(p) == Step(p) \/ Arrival(p) \/ Abort(p)

-----------------------------------------------------------------------------

(* One request entering or leaving a set of requests changes its size by   *)
(* one.                                                                    *)
LEMMA OneMoved ==
  ASSUME NEW S \in SUBSET Requests, NEW T \in SUBSET Requests, NEW p \in Requests,
         \A q \in Requests : q # p => (q \in S <=> q \in T)
  PROVE  /\ Cardinality(S) \in Nat /\ Cardinality(T) \in Nat
         /\ (p \in S <=> p \in T) => Cardinality(T) = Cardinality(S)
         /\ p \notin S /\ p \in T => Cardinality(T) = Cardinality(S) + 1
         /\ p \in S /\ p \notin T => Cardinality(T) = Cardinality(S) - 1
<1>1. IsFiniteSet(S) /\ IsFiniteSet(T)
  BY RequestsAssumption, FS_Subset
<1>2. Cardinality(S) \in Nat /\ Cardinality(T) \in Nat
  BY <1>1, FS_CardinalityType
<1>3. ASSUME p \in S <=> p \in T PROVE Cardinality(T) = Cardinality(S)
  <2>1. S = T
    BY <1>3
  <2> QED BY <2>1
<1>4. ASSUME p \notin S, p \in T PROVE Cardinality(T) = Cardinality(S) + 1
  <2>1. T = S \cup {p}
    BY <1>4
  <2> QED BY <2>1, <1>1, <1>4, FS_AddElement
<1>5. ASSUME p \in S, p \notin T PROVE Cardinality(T) = Cardinality(S) - 1
  <2>1. T = S \ {p}
    BY <1>5
  <2> QED BY <2>1, <1>1, <1>5, FS_RemoveElement
<1> QED BY <1>2, <1>3, <1>4, <1>5

(* The requests a record is written for, and those it leaves alone.        *)
LEMMA Written ==
  ASSUME req \in [Requests -> ReqType], NEW p \in Requests, NEW r \in ReqType,
         req' = [req EXCEPT ![p] = r]
  PROVE  /\ req' \in [Requests -> ReqType]
         /\ req'[p] = r
         /\ \A q \in Requests : q # p => req'[q] = req[q]
  OBVIOUS

(* Goto moves one request to another stage and changes nothing else of it. *)
LEMMA GotoWrites ==
  ASSUME req \in [Requests -> ReqType], NEW p \in Requests, NEW stage \in Stages,
         Goto(p, stage)
  PROVE  /\ req' \in [Requests -> ReqType]
         /\ req'[p] = [req[p] EXCEPT !.at = stage]
         /\ req'[p].at = stage
         /\ \A q \in Requests : q # p => req'[q] = req[q]
<1>1. req[p] \in ReqType
  OBVIOUS
<1>2. [req[p] EXCEPT !.at = stage] \in ReqType /\ [req[p] EXCEPT !.at = stage].at = stage
  BY <1>1 DEF ReqType
<1>3. req' = [req EXCEPT ![p] = [req[p] EXCEPT !.at = stage]]
  BY DEF Goto
<1> QED BY <1>2, <1>3, Written

(* Done frees the slot.                                                    *)
LEMMA DoneWrites ==
  ASSUME req \in [Requests -> ReqType], NEW p \in Requests, Done(p)
  PROVE  /\ req' \in [Requests -> ReqType]
         /\ req'[p].at = "idle"
         /\ \A q \in Requests : q # p => req'[q] = req[q]
<1>1. IdleRequest \in ReqType /\ IdleRequest.at = "idle"
  BY LimitsAssumption DEF IdleRequest, Request, ReqType, Stages
<1> QED BY <1>1, Written DEF Done

(* Begin takes an idle slot.                                               *)
LEMMA BeginWrites ==
  ASSUME req \in [Requests -> ReqType], NEW p \in Requests, NEW stage \in Stages,
         NEW a \in Emails \cup {None}, NEW c \in 0..MaxCode,
         Begin(p, Request(stage, a, c))
  PROVE  /\ req' \in [Requests -> ReqType]
         /\ req[p].at = "idle" /\ req'[p].at = stage /\ req'[p].address = a
         /\ \A q \in Requests : q # p => req'[q] = req[q]
<1>1. /\ Request(stage, a, c) \in ReqType
      /\ Request(stage, a, c).at = stage /\ Request(stage, a, c).address = a
  BY DEF Request, ReqType
<1> QED BY <1>1, Written DEF Begin, Idle

(* The stages a request goes through, and what it does to the two counters *)
(* that are bounded: codes and changes.                                    *)
Arrives(p) ==
  req[p].at = "idle" /\ req'[p].at \in {"otpCheck", "changeLimit"} /\ RoomForCode
Stores(p) == req[p].at = "otpSet" /\ req'[p].at = "otpReset"
PassesLimit(p) == req[p].at = "changeLimit" /\ req'[p].at = "changeEmail" /\ changes < MaxChanges
Counts(p) == req[p].at = "changeCount" /\ req'[p].at = "changeExpire"
GoesOn(p) ==
  /\ req'[p].at \in BeforeTheCode => req[p].at \in BeforeTheCode
  /\ req'[p].at \in {"changeEmail", "changeDelete", "changeCount"} =>
       req[p].at \in {"changeEmail", "changeDelete", "changeCount"}

(* How a request that goes on tells on the changes made and not counted.   *)
Tells(p) ==
  \/ /\ UNCHANGED tally
     /\ req'[p].at \in {"changeDelete", "changeCount"} <=> req[p].at \in {"changeDelete", "changeCount"}
  \/ /\ changed' = changed + 1 /\ uncounted' = uncounted
     /\ req[p].at = "changeEmail" /\ req'[p].at = "changeDelete"
  \/ /\ changed' = changed /\ uncounted' = uncounted + 1
     /\ req[p].at \in {"changeDelete", "changeCount"} /\ req'[p].at = "idle"

KnowsAddress(p) ==
  req'[p].at \in {"changeLimit", "changeEmail"} => req'[p].address \in Emails

Others(p) == \A q \in Requests : q # p => req'[q] = req[q]

Moved(p) ==
  /\ req' \in [Requests -> ReqType] /\ Others(p) /\ KnowsAddress(p)
  /\ \/ Arrives(p) /\ codes' = codes /\ changes' = changes /\ UNCHANGED tally
     \/ Stores(p) /\ codes' = codes + 1 /\ changes' = changes /\ UNCHANGED tally
     \/ PassesLimit(p) /\ codes' = codes /\ changes' = changes /\ UNCHANGED tally
     \/ Counts(p) /\ codes' = codes /\ changes' = changes + 1 /\ UNCHANGED tally
     \/ GoesOn(p) /\ codes' = codes /\ changes' = changes /\ Tells(p)

(* A request that is to generate a code finds a number left for it.        *)
LEMMA SlotForCode ==
  ASSUME TypeOK, RoomLeft, NEW p \in Requests, req[p].at \in BeforeTheCode
  PROVE  codes + 1 <= MaxCode
<1>1. Pending \in SUBSET Requests /\ p \in Pending /\ Pending \ {p} \in SUBSET Requests
  BY DEF Pending
<1>2. /\ Cardinality(Pending) \in Nat /\ Cardinality(Pending \ {p}) \in Nat
      /\ Cardinality(Pending \ {p}) = Cardinality(Pending) - 1
  BY <1>1, OneMoved
<1> QED BY <1>2, LimitsAssumption DEF RoomLeft, TypeOK

(* A request that is over needs no code, and is uncounted for good if it   *)
(* has changed the address.                                                *)
LEMMA DoneMoves ==
  ASSUME TypeOK, NEW p \in Requests, Done(p), codes' = codes, changes' = changes,
         IF req[p].at \in {"changeDelete", "changeCount"}
           THEN changed' = changed /\ uncounted' = uncounted + 1
           ELSE UNCHANGED tally
  PROVE  Moved(p)
<1>1. req \in [Requests -> ReqType]
  BY DEF TypeOK, ReqType
<1> QED BY <1>1, DoneWrites DEF Moved, Others, KnowsAddress, GoesOn, Tells, BeforeTheCode

(* Every step of a request is one of these.                                *)
LEMMA MovesMoved ==
  ASSUME TypeOK, Addressed, RoomLeft, NEW p \in Requests, Moves(p)
  PROVE  Moved(p)
<1>1. req \in [Requests -> ReqType]
  BY DEF TypeOK, ReqType
<1>2. req[p] \in ReqType
  BY <1>1
<1> USE DEF keys, counters, history, tally, At
<1>3. CASE RequestOtp(p)
  <2>1. email \in Emails \cup {None} /\ 0 \in 0..MaxCode /\ "otpCheck" \in Stages
    BY LimitsAssumption DEF TypeOK, Stages
  <2>2. Begin(p, Request("otpCheck", email, 0))
    BY <1>3 DEF RequestOtp
  <2> HIDE DEF Request
  <2> QED BY <2>1, <2>2, <1>1, <1>3, BeginWrites DEF RequestOtp, Moved, Others, KnowsAddress, Arrives
<1>4. CASE \E c \in 0..MaxCode : VerifyFind(p, c)
  <2>1. PICK c \in 0..MaxCode : VerifyFind(p, c)
    BY <1>4
  <2>2. None \in Emails \cup {None} /\ "verifyOtp" \in Stages
    BY DEF Stages
  <2> QED BY <2>1, <2>2, <1>1, BeginWrites DEF VerifyFind, Moved, Others, KnowsAddress, GoesOn, Tells, BeforeTheCode
<1>5. CASE \E new \in Emails : ChangeFind(p, new)
  <2>1. PICK new \in Emails : ChangeFind(p, new)
    BY <1>5
  <2>2. new \in Emails \cup {None} /\ 0 \in 0..MaxCode /\ "changeLimit" \in Stages
    BY LimitsAssumption DEF Stages
  <2> QED BY <2>1, <2>2, <1>1, BeginWrites DEF ChangeFind, Moved, Others, KnowsAddress, Arrives
<1>6. CASE OtpReset(p)
  <2>1. "otpCount" \in Stages
    BY DEF Stages
  <2> QED BY <2>1, <1>6, <1>1, GotoWrites DEF OtpReset, Moved, Others, KnowsAddress, GoesOn, Tells, BeforeTheCode
<1>7. CASE SetCooldown(p)
  <2>1. "otpMail" \in Stages
    BY DEF Stages
  <2> QED BY <2>1, <1>7, <1>1, GotoWrites DEF SetCooldown, Moved, Others, KnowsAddress, GoesOn, Tells, BeforeTheCode
<1>8. CASE VerifyMatch(p)
  <2>1. "verifyMark" \in Stages
    BY DEF Stages
  <2> QED BY <2>1, <1>8, <1>1, GotoWrites DEF VerifyMatch, Moved, Others, KnowsAddress, GoesOn, Tells, BeforeTheCode
<1>9. CASE ChangeEmail(p)
  <2>1. "changeDelete" \in Stages
    BY DEF Stages
  <2> QED BY <2>1, <1>9, <1>1, GotoWrites DEF ChangeEmail, Moved, Others, KnowsAddress, GoesOn, Tells, BeforeTheCode
<1>10. CASE ChangeDelete(p)
  <2>1. "changeCount" \in Stages
    BY DEF Stages
  <2> QED BY <2>1, <1>10, <1>1, GotoWrites DEF ChangeDelete, Moved, Others, KnowsAddress, GoesOn, Tells, BeforeTheCode
<1>11. CASE ChangeCount(p)
  <2>1. "changeExpire" \in Stages
    BY DEF Stages
  <2> QED BY <2>1, <1>11, <1>1, GotoWrites DEF ChangeCount, Moved, Others, KnowsAddress, Counts
<1>12. CASE OtpCheck(p)
  <2>1. CASE Done(p)
    BY <2>1, <1>12, DoneMoves DEF OtpCheck
  <2>2. CASE Goto(p, "otpSet")
    <3>1. "otpSet" \in Stages
      BY DEF Stages
    <3> QED BY <3>1, <2>2, <1>12, <1>1, GotoWrites DEF OtpCheck, Moved, Others, KnowsAddress, GoesOn, Tells, BeforeTheCode
  <2> QED BY <2>1, <2>2, <1>12 DEF OtpCheck
<1>13. CASE ChangeLimit(p)
  <2>1. CASE changes >= MaxChanges
    BY <2>1, <1>13, DoneMoves DEF ChangeLimit
  <2>2. CASE ~(changes >= MaxChanges)
    <3>1. "changeEmail" \in Stages /\ changes < MaxChanges
      BY <2>2, LimitsAssumption DEF Stages, TypeOK
    <3>2. Goto(p, "changeEmail")
      BY <2>2, <1>13 DEF ChangeLimit
    <3>3. req'[p] = [req[p] EXCEPT !.at = "changeEmail"]
      BY <3>1, <3>2, <1>1, GotoWrites
    <3>4. req'[p].address = req[p].address
      BY <3>3, <1>2 DEF ReqType
    <3>5. req[p].address \in Emails
      BY <1>13 DEF ChangeLimit, Addressed
    <3> QED BY <3>1, <3>2, <3>4, <3>5, <1>13, <1>1, GotoWrites
            DEF ChangeLimit, Moved, Others, KnowsAddress, PassesLimit
  <2> QED BY <2>1, <2>2
<1>14. CASE OtpSet(p)
  <2> DEFINE r == [req[p] EXCEPT !.at = "otpReset", !.code = codes + 1]
  <2>1. req[p].at \in BeforeTheCode
    BY <1>14 DEF OtpSet, BeforeTheCode
  <2>2. codes + 1 \in 0..MaxCode
    BY <2>1, <1>14, SlotForCode DEF TypeOK
  <2>3. r \in ReqType /\ r.at = "otpReset"
    BY <2>2, <1>2 DEF ReqType, Stages
  <2>4. req' = [req EXCEPT ![p] = r]
    BY <1>14 DEF OtpSet
  <2> HIDE DEF r
  <2> QED BY <2>3, <2>4, <1>14, <1>1, Written DEF OtpSet, Moved, Others, KnowsAddress, Stores
<1>15. CASE OtpCount(p)
  <2> DEFINE r == [req[p] EXCEPT !.at = "otpExpire", !.count = resends + 1]
  <2>0. resends + 1 \in Nat
    BY DEF TypeOK
  <2>1. r \in ReqType /\ r.at = "otpExpire"
    BY <2>0, <1>2 DEF ReqType, Stages
  <2>2. req' = [req EXCEPT ![p] = r]
    BY <1>15 DEF OtpCount
  <2> HIDE DEF r
  <2> QED BY <2>1, <2>2, <1>15, <1>1, Written DEF OtpCount, Moved, Others, KnowsAddress, GoesOn, Tells, BeforeTheCode
<1>16. CASE OtpExpire(p)
  <2>1. "otpCooldown" \in Stages
    BY DEF Stages
  <2> QED BY <2>1, <1>16, <1>1, GotoWrites
          DEF OtpExpire, Moved, Others, KnowsAddress, GoesOn, Tells, BeforeTheCode
<1>17. CASE ChangeExpire(p)
  <2>1. "otpCheck" \in Stages
    BY DEF Stages
  <2> QED BY <2>1, <1>17, <1>1, GotoWrites
          DEF ChangeExpire, Moved, Others, KnowsAddress, GoesOn, Tells, BeforeTheCode
<1>18. CASE \/ OtpMail(p) \/ VerifyLocked(p) \/ VerifyExpired(p) \/ VerifyWrong(p)
             \/ VerifyMark(p) \/ ChangeTaken(p) \/ Abort(p)
  BY <1>18, DoneMoves DEF OtpMail, VerifyLocked, VerifyExpired, VerifyWrong, VerifyMark,
     ChangeTaken, Abort, Uncounted
<1> QED
  BY <1>3, <1>4, <1>5, <1>6, <1>7, <1>8, <1>9, <1>10, <1>11, <1>12, <1>13, <1>14, <1>15, <1>16,
     <1>17, <1>18 DEF Moves, Step, Arrival

-----------------------------------------------------------------------------

(* No code, no attempt, no change and no request at first.                 *)
LEMMA InitIInv == Init => IInv
<1> SUFFICES ASSUME Init PROVE IInv
  OBVIOUS
<1> USE LimitsAssumption
<1>1. TypeOK
  <2>1. IdleRequest \in ReqType
    BY DEF IdleRequest, Request, ReqType, Stages
  <2>2. req \in [Requests -> ReqType]
    BY <2>1 DEF Init
  <2>3. NoOtp \in [code : 0..MaxCode, ttl : 0..OtpTTL] /\ NoAttempts \in [count : 0..MaxAttempts, ttl : 0..OtpTTL]
    BY DEF NoOtp, NoAttempts
  <2>4. mailed \in [Codes -> Emails \cup {None}] /\ accepted \in [Codes -> Nat]
    BY DEF Init
  <2>5. /\ cooldown = 0 /\ resends = 0 /\ changes = 0 /\ wrong = 0 /\ codes = 0
        /\ changed = 0 /\ uncounted = 0
        /\ otp = NoOtp /\ attempts = NoAttempts /\ email \in Emails /\ endless = {}
    BY DEF Init
  <2>6. verified \in BOOLEAN
    BY Zenon DEF Init
  <2>7. 0 \in Nat /\ 0 \in 0..MaxCode /\ 0 \in 0..MaxUncounted
    OBVIOUS
  <2> QED BY <2>2, <2>3, <2>4, <2>5, <2>6, <2>7 DEF TypeOK, ReqType
<1>2. Pending = {} /\ Changing = {}
  BY DEF Init, Pending, Changing, BeforeTheCode, IdleRequest, Request
<1>3. RoomLeft /\ Addressed
  BY <1>2, FS_EmptySet DEF Init, RoomLeft, Addressed, IdleRequest, Request
<1>4. CodesFresh /\ LockIsTransient /\ EndlessIsTransient
  BY DEF Init, CodesFresh, LockIsTransient, EndlessIsTransient, NoOtp, Codes
<1>5. ChangesCounted /\ Tallied
  <2>1. Uncounted = {}
    BY DEF Init, Uncounted, IdleRequest, Request
  <2> QED BY <2>1, FS_EmptySet DEF Init, ChangesCounted, Tallied
<1> QED BY <1>1, <1>3, <1>4, <1>5 DEF IInv

(* The type invariant, but for the requests, of which Moved speaks.        *)
LEMMA KeysTyped ==
  ASSUME TypeOK, Addressed, RoomLeft, NEW p \in Requests, Moves(p)
  PROVE  /\ email' \in Emails /\ verified' \in BOOLEAN
         /\ otp' \in [code : 0..MaxCode, ttl : 0..OtpTTL]
         /\ attempts' \in [count : 0..MaxAttempts, ttl : 0..OtpTTL]
         /\ cooldown' \in Nat /\ resends' \in Nat /\ changes' \in Nat
         /\ endless' \in SUBSET {"resends", "changes"}
         /\ codes' \in 0..MaxCode
         /\ mailed' \in [Codes -> Emails \cup {None}]
         /\ wrong' \in Nat /\ accepted' \in [Codes -> Nat]
         /\ changed' \in Nat /\ uncounted' \in 0..MaxUncounted
<1> USE LimitsAssumption DEF At, keys, counters, history, tally
<1>1. NoOtp \in [code : 0..MaxCode, ttl : 0..OtpTTL] /\ NoAttempts \in [count : 0..MaxAttempts, ttl : 0..OtpTTL]
  BY DEF NoOtp, NoAttempts
<1>2. req[p] \in ReqType
  BY DEF TypeOK, ReqType
<1>3. CASE \/ RequestOtp(p) \/ OtpCheck(p) \/ VerifyExpired(p) \/ ChangeLimit(p) \/ ChangeTaken(p)
           \/ Abort(p) \/ VerifyMark(p)
           \/ (\E c \in 0..MaxCode : VerifyFind(p, c)) \/ (\E new \in Emails : ChangeFind(p, new))
  <2>1. changed' \in Nat /\ uncounted' \in 0..MaxUncounted
    BY <1>3 DEF TypeOK, RequestOtp, OtpCheck, VerifyExpired, ChangeLimit, ChangeTaken, Abort, VerifyMark,
       VerifyFind, ChangeFind
  <2> QED BY <2>1, <1>3 DEF TypeOK, RequestOtp, OtpCheck, VerifyExpired, ChangeLimit, ChangeTaken,
          Abort, VerifyMark, VerifyFind, ChangeFind
<1>4. CASE OtpReset(p) \/ VerifyLocked(p) \/ ChangeDelete(p)
  <2>1. otp' \in {otp, NoOtp} /\ attempts' \in {attempts, NoAttempts} /\ cooldown' \in {cooldown, 0}
    BY <1>4 DEF OtpReset, VerifyLocked, ChangeDelete
  <2>2. UNCHANGED <<email, verified, counters, history>>
    BY <1>4 DEF OtpReset, VerifyLocked, ChangeDelete
  <2> QED BY <2>1, <2>2, <1>1 DEF TypeOK
<1>5. CASE OtpCount(p) \/ OtpExpire(p)
  <2>1. endless' \in SUBSET {"resends", "changes"}
    <3>1. endless' \subseteq endless \cup {"resends"}
      BY <1>5 DEF OtpCount, OtpExpire
    <3> QED BY <3>1 DEF TypeOK
  <2>2. resends' \in Nat
    BY <1>5 DEF TypeOK, OtpCount, OtpExpire
  <2> QED BY <2>1, <2>2, <1>5 DEF TypeOK, OtpCount, OtpExpire
<1>6. CASE ChangeCount(p) \/ ChangeExpire(p)
  <2>1. endless' \in SUBSET {"resends", "changes"}
    <3>1. endless' \subseteq endless \cup {"changes"}
      BY <1>6 DEF ChangeCount, ChangeExpire
    <3> QED BY <3>1 DEF TypeOK
  <2>2. changes' \in Nat
    BY <1>6 DEF TypeOK, ChangeCount, ChangeExpire
  <2> QED BY <2>1, <2>2, <1>6 DEF TypeOK, ChangeCount, ChangeExpire
<1>7. CASE SetCooldown(p)
  BY <1>7 DEF TypeOK, SetCooldown, CooldownAfter
<1>8. CASE OtpSet(p)
  <2>1. codes + 1 \in 0..MaxCode
    BY <1>8, SlotForCode DEF OtpSet, BeforeTheCode, TypeOK
  <2>2. [code |-> codes + 1, ttl |-> OtpTTL] \in [code : 0..MaxCode, ttl : 0..OtpTTL]
    BY <2>1
  <2> QED BY <2>1, <2>2, <1>8 DEF OtpSet, TypeOK
<1>9. CASE OtpMail(p)
  <2>1. req[p].address \in Emails \cup {None}
    BY <1>2 DEF ReqType
  <2>2. mailed' \in [Codes -> Emails \cup {None}]
    BY <2>1, <1>9 DEF OtpMail, TypeOK
  <2> QED BY <2>2, <1>9 DEF OtpMail, TypeOK
<1>10. CASE VerifyMatch(p)
  <2>0. accepted \in [Codes -> Nat] /\ accepted' = [accepted EXCEPT ![otp.code] = accepted[otp.code] + 1]
    BY <1>10 DEF VerifyMatch, TypeOK
  <2>1. accepted' \in [Codes -> Nat]
    <3>1. CASE otp.code \in Codes
      <4>1. accepted[otp.code] + 1 \in Nat
        BY <2>0, <3>1
      <4> QED BY <2>0, <4>1
    <3>2. CASE otp.code \notin Codes
      <4>1. accepted' = accepted
        BY <2>0, <3>2
      <4> QED BY <2>0, <4>1
    <3> QED BY <3>1, <3>2
  <2> QED BY <2>1, <1>1, <1>10 DEF VerifyMatch, TypeOK
<1>11. CASE VerifyWrong(p)
  <2>1. attempts.count + 1 \in 0..MaxAttempts
    BY <1>11 DEF VerifyWrong, Locked, TypeOK
  <2>2. OneMoreAttempt \in [count : 0..MaxAttempts, ttl : 0..OtpTTL]
    BY <2>1 DEF OneMoreAttempt, TypeOK
  <2>3. otp' \in [code : 0..MaxCode, ttl : 0..OtpTTL]
    BY <1>1, <1>11 DEF VerifyWrong, TypeOK
  <2> QED BY <2>2, <2>3, <1>11 DEF VerifyWrong, TypeOK
<1>12. CASE ChangeEmail(p)
  <2>1. req[p].address \in Emails
    BY <1>12 DEF ChangeEmail, Addressed
  <2> QED BY <2>1, <1>12 DEF ChangeEmail, TypeOK
<1> QED
  BY <1>3, <1>4, <1>5, <1>6, <1>7, <1>8, <1>9, <1>10, <1>11, <1>12 DEF Moves, Step, Arrival

(* No number is promised twice: a handler that is to generate a code takes *)
(* one of those left when it starts, and gives it up when it stores it.    *)
LEMMA RoomStep ==
  ASSUME TypeOK, RoomLeft, NEW p \in Requests, Moved(p)
  PROVE  RoomLeft'
<1>1. /\ Pending \in SUBSET Requests /\ Pending' \in SUBSET Requests
      /\ \A q \in Requests : q # p => (q \in Pending <=> q \in Pending')
  BY DEF Pending, Moved, Others
<1>2. /\ Cardinality(Pending) \in Nat /\ Cardinality(Pending') \in Nat
      /\ (p \in Pending <=> p \in Pending') => Cardinality(Pending') = Cardinality(Pending)
      /\ p \notin Pending /\ p \in Pending' => Cardinality(Pending') = Cardinality(Pending) + 1
      /\ p \in Pending /\ p \notin Pending' => Cardinality(Pending') = Cardinality(Pending) - 1
  BY <1>1, OneMoved
<1>3. /\ p \in Pending <=> req[p].at \in BeforeTheCode
      /\ p \in Pending' <=> req'[p].at \in BeforeTheCode
  BY DEF Pending, BeforeTheCode
<1>4. codes \in Nat /\ MaxCode \in Nat /\ codes + Cardinality(Pending) <= MaxCode
  BY LimitsAssumption DEF TypeOK, RoomLeft
<1> SUFFICES codes' + Cardinality(Pending') <= MaxCode
  BY DEF RoomLeft
<1>5. CASE Arrives(p) /\ codes' = codes
  <2>1. codes + Cardinality(Pending) < MaxCode
    BY <1>5 DEF Arrives, RoomForCode, Pending
  <2>2. p \notin Pending
    BY <1>3, <1>5 DEF Arrives, BeforeTheCode
  <2> QED BY <2>1, <2>2, <1>2, <1>4, <1>5
<1>6. CASE Stores(p) /\ codes' = codes + 1
  <2>1. p \in Pending /\ p \notin Pending'
    BY <1>3, <1>6 DEF Stores, BeforeTheCode
  <2> QED BY <2>1, <1>2, <1>4, <1>6
<1>7. CASE (PassesLimit(p) \/ Counts(p) \/ GoesOn(p)) /\ codes' = codes
  <2>1. p \in Pending' => p \in Pending
    BY <1>3, <1>7 DEF PassesLimit, Counts, GoesOn, Tells, BeforeTheCode
  <2> QED BY <2>1, <1>2, <1>4, <1>7
<1> QED BY <1>5, <1>6, <1>7 DEF Moved

(* Once the limit is reached nobody passes it any more, and those that did *)
(* before count themselves one by one.                                     *)
LEMMA ChangesStep ==
  ASSUME TypeOK, ChangesCounted, NEW p \in Requests, Moved(p)
  PROVE  ChangesCounted'
<1>1. /\ Changing \in SUBSET Requests /\ Changing' \in SUBSET Requests
      /\ \A q \in Requests : q # p => (q \in Changing <=> q \in Changing')
  BY DEF Changing, Moved, Others
<1>2. /\ Cardinality(Changing) \in Nat /\ Cardinality(Changing') \in Nat
      /\ (p \in Changing <=> p \in Changing') => Cardinality(Changing') = Cardinality(Changing)
      /\ p \in Changing /\ p \notin Changing' => Cardinality(Changing') = Cardinality(Changing) - 1
  BY <1>1, OneMoved
<1>3. /\ p \in Changing <=> req[p].at \in {"changeEmail", "changeDelete", "changeCount"}
      /\ p \in Changing' <=> req'[p].at \in {"changeEmail", "changeDelete", "changeCount"}
  BY DEF Changing
<1>4. changes \in Nat /\ MaxChanges \in Nat /\ Cardinality(Requests) \in Nat
  BY LimitsAssumption, RequestsAssumption, FS_CardinalityType DEF TypeOK
<1> SUFFICES ASSUME changes' >= MaxChanges
             PROVE  changes' + Cardinality(Changing') <= MaxChanges - 1 + Cardinality(Requests)
  BY DEF ChangesCounted
<1>5. CASE PassesLimit(p) /\ changes' = changes
  BY <1>4, <1>5 DEF PassesLimit
<1>6. CASE Counts(p) /\ changes' = changes + 1
  <2>1. p \in Changing /\ p \notin Changing'
    BY <1>3, <1>6 DEF Counts
  <2>2. CASE changes >= MaxChanges
    BY <2>1, <2>2, <1>2, <1>4, <1>6 DEF ChangesCounted
  <2>3. CASE changes < MaxChanges
    <3>1. Changing' \subseteq Requests \ {p}
      BY <2>1, <1>1
    <3>2. /\ IsFiniteSet(Requests \ {p})
          /\ Cardinality(Requests \ {p}) = Cardinality(Requests) - 1
      BY RequestsAssumption, FS_RemoveElement
    <3>3. Cardinality(Changing') <= Cardinality(Requests) - 1
      BY <3>1, <3>2, FS_Subset
    <3> QED BY <3>3, <2>3, <1>2, <1>4, <1>6
  <2> QED BY <2>2, <2>3, <1>4
<1>7. CASE (Arrives(p) \/ Stores(p) \/ GoesOn(p)) /\ changes' = changes
  <2>1. p \in Changing' => p \in Changing
    BY <1>3, <1>7 DEF Arrives, Stores, GoesOn
  <2> QED BY <2>1, <1>2, <1>4, <1>7 DEF ChangesCounted
<1> QED BY <1>5, <1>6, <1>7 DEF Moved

(* A change made is counted by the counter, by the request about to do so, *)
(* or among those that never will be.                                      *)
LEMMA TallyStep ==
  ASSUME TypeOK, Tallied, NEW p \in Requests, Moved(p)
  PROVE  Tallied'
<1>1. /\ Uncounted \in SUBSET Requests /\ Uncounted' \in SUBSET Requests
      /\ \A q \in Requests : q # p => (q \in Uncounted <=> q \in Uncounted')
  BY DEF Uncounted, Moved, Others
<1>2. /\ Cardinality(Uncounted) \in Nat /\ Cardinality(Uncounted') \in Nat
      /\ (p \in Uncounted <=> p \in Uncounted') => Cardinality(Uncounted') = Cardinality(Uncounted)
      /\ p \notin Uncounted /\ p \in Uncounted' => Cardinality(Uncounted') = Cardinality(Uncounted) + 1
      /\ p \in Uncounted /\ p \notin Uncounted' => Cardinality(Uncounted') = Cardinality(Uncounted) - 1
  BY <1>1, OneMoved
<1>3. /\ p \in Uncounted <=> req[p].at \in {"changeDelete", "changeCount"}
      /\ p \in Uncounted' <=> req'[p].at \in {"changeDelete", "changeCount"}
  BY DEF Uncounted
<1>4. changes \in Nat /\ changed \in Nat /\ uncounted \in Nat
  BY LimitsAssumption DEF TypeOK
<1> SUFFICES changed' = changes' + uncounted' + Cardinality(Uncounted')
  BY DEF Tallied
<1>5. CASE (Arrives(p) \/ Stores(p) \/ PassesLimit(p)) /\ changes' = changes /\ UNCHANGED tally
  <2>1. p \in Uncounted <=> p \in Uncounted'
    BY <1>3, <1>5 DEF Arrives, Stores, PassesLimit
  <2> QED BY <2>1, <1>2, <1>4, <1>5 DEF Tallied, tally
<1>6. CASE Counts(p) /\ changes' = changes + 1 /\ UNCHANGED tally
  <2>1. p \in Uncounted /\ p \notin Uncounted'
    BY <1>3, <1>6 DEF Counts
  <2> QED BY <2>1, <1>2, <1>4, <1>6 DEF Tallied, tally
<1>7. CASE Tells(p) /\ changes' = changes
  <2>1. \/ UNCHANGED tally /\ (p \in Uncounted <=> p \in Uncounted')
        \/ changed' = changed + 1 /\ uncounted' = uncounted /\ p \notin Uncounted /\ p \in Uncounted'
        \/ changed' = changed /\ uncounted' = uncounted + 1 /\ p \in Uncounted /\ p \notin Uncounted'
    BY <1>3, <1>7 DEF Tells
  <2> QED BY <2>1, <1>2, <1>4, <1>7 DEF Tallied, tally
<1> QED BY <1>5, <1>6, <1>7 DEF Moved

(* A code is stored when it is generated, and gone when it is accepted.    *)
LEMMA FreshStep ==
  ASSUME TypeOK, RoomLeft, CodesFresh, NEW p \in Requests, Moves(p)
  PROVE  CodesFresh'
<1> USE LimitsAssumption DEF At, keys, counters, history, tally
<1>1. codes \in Nat /\ accepted \in [Codes -> Nat] /\ NoOtp.ttl = 0
  BY DEF TypeOK, NoOtp
<1>2. CASE codes' = codes /\ accepted' = accepted /\ otp' \in {otp, NoOtp}
  BY <1>1, <1>2 DEF CodesFresh
<1>3. CASE OtpSet(p)
  <2>0. req[p].at \in BeforeTheCode
    BY <1>3 DEF OtpSet, BeforeTheCode
  <2>1. codes + 1 \in Codes
    BY <2>0, <1>1, SlotForCode DEF Codes
  <2>2. accepted[codes + 1] = 0 /\ codes + 1 > codes
    BY <2>1, <1>1 DEF CodesFresh
  <2>3. otp'.code = codes + 1 /\ codes' = codes + 1 /\ accepted' = accepted
    BY <1>3 DEF OtpSet
  <2>4. \A c \in Codes : c \in Int
    BY DEF Codes
  <2> QED BY <2>2, <2>3, <2>4, <1>1 DEF CodesFresh
<1>4. CASE VerifyMatch(p)
  <2>1. /\ otp.code \in 1..codes /\ accepted[otp.code] = 0
        /\ codes' = codes /\ otp'.ttl = 0
        /\ accepted' = [accepted EXCEPT ![otp.code] = accepted[otp.code] + 1]
    BY <1>1, <1>4 DEF VerifyMatch, CodesFresh
  <2>2. \A c \in Codes : accepted'[c] = IF c = otp.code THEN 1 ELSE accepted[c]
    BY <2>1, <1>1
  <2>3. \A c \in Codes : c \in Int
    BY DEF Codes
  <2> QED BY <2>1, <2>2, <2>3, <1>1 DEF CodesFresh
<1>5. CASE \/ RequestOtp(p) \/ OtpCheck(p) \/ VerifyExpired(p) \/ ChangeLimit(p) \/ ChangeTaken(p)
           \/ Abort(p) \/ VerifyMark(p) \/ OtpCount(p) \/ OtpExpire(p)
           \/ ChangeCount(p) \/ ChangeExpire(p) \/ SetCooldown(p)
           \/ (\E c \in 0..MaxCode : VerifyFind(p, c)) \/ (\E new \in Emails : ChangeFind(p, new))
  <2>1. codes' = codes /\ accepted' = accepted /\ otp' = otp
    BY <1>5 DEF RequestOtp, OtpCheck, VerifyExpired, ChangeLimit, ChangeTaken, Abort, VerifyMark,
       OtpCount, OtpExpire, ChangeCount, ChangeExpire, SetCooldown, VerifyFind, ChangeFind
  <2> QED BY <2>1, <1>2
<1>6. CASE \/ OtpReset(p) \/ OtpMail(p) \/ VerifyLocked(p) \/ VerifyWrong(p) \/ ChangeEmail(p)
           \/ ChangeDelete(p)
  <2>1. codes' = codes /\ accepted' = accepted /\ otp' \in {otp, NoOtp}
    BY <1>6 DEF OtpReset, OtpMail, VerifyLocked, VerifyWrong, ChangeEmail, ChangeDelete
  <2> QED BY <2>1, <1>2
<1> QED BY <1>3, <1>4, <1>5, <1>6 DEF Moves, Step, Arrival

(* A step that leaves the code and the attempts, by a request that is not  *)
(* about to reset them, leaves in place the one that is.                   *)
LEMMA OthersUnlock ==
  ASSUME LockIsTransient, NEW p \in Requests, Others(p), req[p].at # "otpReset",
         otp' = otp, attempts' = attempts
  PROVE  LockIsTransient'
<1> SUFFICES ASSUME ~Failures, Locked', otp'.ttl > 0
             PROVE  \E q \in Requests : req'[q].at = "otpReset"
  BY DEF LockIsTransient, At
<1>1. PICK q \in Requests : req[q].at = "otpReset"
  BY DEF LockIsTransient, Locked, At
<1>2. req'[q] = req[q]
  BY <1>1 DEF Others
<1> QED BY <1>1, <1>2

(* Only storing a code can lock it, and the request that does goes on to   *)
(* reset the attempts; nobody else can undo that it stands there.          *)
LEMMA LockStep ==
  ASSUME TypeOK, LockIsTransient, NEW p \in Requests, Moves(p), Moved(p)
  PROVE  LockIsTransient'
<1> USE DEF At, keys, counters, history, tally
<1>1. NoOtp.ttl = 0 /\ NoAttempts.count = 0 /\ MaxAttempts \in Nat \ {0} /\ attempts.count \in Nat
  BY LimitsAssumption DEF NoOtp, NoAttempts, TypeOK
<1>2. Others(p)
  BY DEF Moved
<1>3. CASE otp' = NoOtp
  BY <1>1, <1>3 DEF LockIsTransient
<1>4. CASE ~(attempts'.count >= MaxAttempts)
  BY <1>4 DEF LockIsTransient, Locked
<1>5. CASE Failures
  BY <1>5 DEF LockIsTransient
<1>6. CASE req'[p].at = "otpReset"
  BY <1>6 DEF LockIsTransient
<1>7. CASE VerifyLocked(p) \/ VerifyMatch(p) \/ ChangeDelete(p)
  BY <1>3, <1>7 DEF VerifyLocked, VerifyMatch, ChangeDelete
<1>8. CASE OtpReset(p)
  BY <1>1, <1>4, <1>8 DEF OtpReset
<1>9. CASE VerifyWrong(p)
  <2>1. attempts'.count = attempts.count + 1
    BY <1>9 DEF VerifyWrong, OneMoreAttempt
  <2>2. attempts.count + 1 >= MaxAttempts => otp' = NoOtp
    BY <1>9 DEF VerifyWrong
  <2> QED BY <2>1, <2>2, <1>3, <1>4
<1>10. CASE OtpSet(p)
  <2>1. req' = [req EXCEPT ![p] = [req[p] EXCEPT !.at = "otpReset", !.code = codes + 1]]
    BY <1>10 DEF OtpSet
  <2>2. req \in [Requests -> ReqType]
    BY DEF TypeOK, ReqType
  <2>3. req'[p].at = "otpReset"
    BY <2>1, <2>2 DEF ReqType
  <2> QED BY <2>3, <1>6
<1>11. CASE Abort(p)
  BY <1>5, <1>11 DEF Abort
<1>12. CASE \/ RequestOtp(p) \/ (\E c \in 0..MaxCode : VerifyFind(p, c))
            \/ (\E new \in Emails : ChangeFind(p, new))
  <2>1. req[p].at # "otpReset" /\ otp' = otp /\ attempts' = attempts
    BY <1>12 DEF RequestOtp, VerifyFind, ChangeFind, Begin, Idle
  <2> QED BY <2>1, <1>2, OthersUnlock
<1>13. CASE \/ OtpCheck(p) \/ OtpCount(p) \/ OtpExpire(p) \/ ChangeExpire(p) \/ SetCooldown(p) \/ OtpMail(p) \/ VerifyExpired(p)
            \/ VerifyMark(p) \/ ChangeLimit(p) \/ ChangeTaken(p) \/ ChangeEmail(p) \/ ChangeCount(p)
  <2>1. req[p].at # "otpReset" /\ otp' = otp /\ attempts' = attempts
    BY <1>13 DEF OtpCheck, OtpCount, OtpExpire, ChangeExpire, SetCooldown, OtpMail, VerifyExpired, VerifyMark, ChangeLimit,
       ChangeTaken, ChangeEmail, ChangeCount
  <2> QED BY <2>1, <1>2, OthersUnlock
<1> QED
  BY <1>7, <1>8, <1>9, <1>10, <1>11, <1>12, <1>13 DEF Moves, Step, Arrival

(* A counter without expiry stays the business of the request that is to   *)
(* give it one, when another request takes a step.                         *)
LEMMA OthersExpire ==
  ASSUME NEW p \in Requests, Others(p), NEW k, NEW stage,
         k \in endless => \E q \in Requests : req[q].at = stage,
         req[p].at # stage, k \in endless' => k \in endless
  PROVE  k \in endless' => \E q \in Requests : req'[q].at = stage
<1> SUFFICES ASSUME k \in endless' PROVE \E q \in Requests : req'[q].at = stage
  OBVIOUS
<1>1. PICK q \in Requests : req[q].at = stage
  OBVIOUS
<1>2. req'[q] = req[q]
  BY <1>1 DEF Others
<1> QED BY <1>1, <1>2

(* While nothing dies, whoever leaves a counter without an expiry is at the *)
(* stage that gives it one.                                                *)
LEMMA EndlessStep ==
  ASSUME TypeOK, EndlessIsTransient, NEW p \in Requests, Moves(p), Moved(p)
  PROVE  EndlessIsTransient'
<1> USE DEF At, keys, counters, history, tally
<1> DEFINE Resends == "resends" \in endless => \E q \in Requests : req[q].at = "otpExpire"
           Changes == "changes" \in endless => \E q \in Requests : req[q].at = "changeExpire"
<1> SUFFICES ASSUME ~Failures PROVE Resends' /\ Changes'
  BY DEF EndlessIsTransient
<1>1. Resends /\ Changes /\ Others(p)
  BY DEF EndlessIsTransient, Moved
<1>2. req \in [Requests -> ReqType]
  BY DEF TypeOK, ReqType
<1>3. ASSUME req[p].at # "otpExpire", "resends" \in endless' => "resends" \in endless
      PROVE  Resends'
  BY <1>1, <1>3, OthersExpire
<1>4. ASSUME req[p].at # "changeExpire", "changes" \in endless' => "changes" \in endless
      PROVE  Changes'
  BY <1>1, <1>4, OthersExpire
<1>5. CASE OtpCount(p)
  <2>1. req' = [req EXCEPT ![p] = [req[p] EXCEPT !.at = "otpExpire", !.count = resends + 1]]
    BY <1>5 DEF OtpCount
  <2>2. req'[p].at = "otpExpire"
    BY <2>1, <1>2 DEF ReqType
  <2>3. Changes'
    BY <1>4, <1>5 DEF OtpCount
  <2> QED BY <2>2, <2>3
<1>6. CASE OtpExpire(p)
  <2>1. "resends" \notin endless'
    BY <1>6 DEF OtpExpire
  <2>2. Changes'
    BY <1>4, <1>6 DEF OtpExpire
  <2> QED BY <2>1, <2>2
<1>7. CASE ChangeCount(p)
  <2>1. "changeExpire" \in Stages
    BY DEF Stages
  <2>2. req'[p].at = "changeExpire"
    BY <2>1, <1>7, <1>2, GotoWrites DEF ChangeCount
  <2>3. Resends'
    BY <1>3, <1>7 DEF ChangeCount
  <2> QED BY <2>2, <2>3
<1>8. CASE ChangeExpire(p)
  <2>1. "changes" \notin endless'
    BY <1>8 DEF ChangeExpire
  <2>2. Resends'
    BY <1>3, <1>8 DEF ChangeExpire
  <2> QED BY <2>1, <2>2
<1>9. CASE endless' = endless /\ req[p].at \notin {"otpExpire", "changeExpire"}
  BY <1>3, <1>4, <1>9
<1>10. CASE Abort(p)
  BY <1>10 DEF Abort
<1>11. CASE \/ RequestOtp(p) \/ (\E c \in 0..MaxCode : VerifyFind(p, c))
            \/ (\E new \in Emails : ChangeFind(p, new))
  <2>1. endless' = endless /\ req[p].at \notin {"otpExpire", "changeExpire"}
    BY <1>11 DEF RequestOtp, VerifyFind, ChangeFind, Begin, Idle
  <2> QED BY <2>1, <1>9
<1>12. CASE \/ OtpCheck(p) \/ OtpSet(p) \/ OtpReset(p) \/ SetCooldown(p) \/ OtpMail(p) \/ VerifyLocked(p)
            \/ VerifyExpired(p) \/ VerifyMatch(p) \/ VerifyWrong(p) \/ VerifyMark(p)
            \/ ChangeLimit(p) \/ ChangeTaken(p) \/ ChangeEmail(p) \/ ChangeDelete(p)
  <2>1. endless' = endless /\ req[p].at \notin {"otpExpire", "changeExpire"}
    BY <1>12 DEF OtpCheck, OtpSet, OtpReset, SetCooldown, OtpMail, VerifyLocked, VerifyExpired,
       VerifyMatch, VerifyWrong, VerifyMark, ChangeLimit, ChangeTaken, ChangeEmail, ChangeDelete
  <2> QED BY <2>1, <1>9
<1> QED
  BY <1>5, <1>6, <1>7, <1>8, <1>10, <1>11, <1>12 DEF Moves, Step, Arrival

(* Nothing in the invariant is upset by the passing of time.               *)
LEMMA ClockIInv ==
  ASSUME IInv, Tick \/ WindowEnds
  PROVE  IInv'
<1> USE LimitsAssumption DEF keys, counters, history, tally
<1>1. /\ email' = email /\ verified' = verified /\ req' = req
      /\ codes' = codes /\ mailed' = mailed /\ wrong' = wrong /\ accepted' = accepted
      /\ endless' = endless
  BY DEF Tick, WindowEnds
<1>2. /\ changes' = changes \/ changes' = 0
      /\ resends' = resends \/ resends' = 0
      /\ cooldown' = cooldown \/ cooldown' = 0 \/ (cooldown # 0 /\ cooldown' = cooldown - 1)
  BY DEF Tick, WindowEnds
<1>3. /\ otp' \in [code : 0..MaxCode, ttl : 0..OtpTTL]
      /\ otp'.ttl > 0 => otp.ttl > 0 /\ otp'.code = otp.code
  BY DEF IInv, TypeOK, Tick, WindowEnds, NoOtp
<1>4. /\ attempts' \in [count : 0..MaxAttempts, ttl : 0..OtpTTL]
      /\ attempts'.count = attempts.count \/ attempts'.count = 0
  BY DEF IInv, TypeOK, Tick, WindowEnds, NoAttempts
<1>5. TypeOK'
  <2>1. cooldown' \in Nat /\ resends' \in Nat /\ changes' \in Nat
    BY <1>2 DEF IInv, TypeOK
  <2>2. Cardinality(Uncounted) \in Nat
    BY RequestsAssumption, FS_Subset, FS_CardinalityType DEF Uncounted
  <2>3. changed' \in Nat /\ uncounted' \in 0..MaxUncounted
    BY <2>2 DEF IInv, TypeOK, Tick, WindowEnds
  <2> QED BY <2>1, <2>3, <1>1, <1>3, <1>4 DEF IInv, TypeOK
<1>6. Addressed' /\ RoomLeft'
  BY <1>1 DEF IInv, Addressed, RoomLeft, Pending
<1>7. CodesFresh'
  BY <1>1, <1>3 DEF IInv, CodesFresh
<1>8. ChangesCounted'
  <2>1. Changing' = Changing
    BY <1>1 DEF Changing
  <2>2. CASE changes' = changes
    BY <2>1, <2>2 DEF IInv, ChangesCounted
  <2>3. CASE changes' = 0
    BY <2>3 DEF ChangesCounted
  <2> QED BY <2>2, <2>3, <1>2
<1>9. LockIsTransient'
  <2>1. Locked' => Locked
    BY <1>4 DEF Locked
  <2> QED BY <2>1, <1>1, <1>3 DEF IInv, LockIsTransient, At
<1>10. EndlessIsTransient'
  BY <1>1 DEF IInv, EndlessIsTransient, At
<1>11. Tallied'
  <2>1. Uncounted' = Uncounted /\ Cardinality(Uncounted) \in Nat
    BY <1>1, RequestsAssumption, FS_Subset, FS_CardinalityType DEF Uncounted
  <2> QED BY <2>1 DEF IInv, TypeOK, Tallied, Tick, WindowEnds
<1> QED BY <1>5, <1>6, <1>7, <1>8, <1>9, <1>10, <1>11 DEF IInv

(* Every step preserves the invariant.                                     *)
LEMMA NextIInv == IInv /\ [Next]_vars => IInv'
<1> SUFFICES ASSUME IInv, [Next]_vars PROVE IInv'
  OBVIOUS
<1>1. CASE Tick \/ WindowEnds
  BY <1>1, ClockIInv
<1>2. CASE \E p \in Requests : Step(p) \/ Arrival(p) \/ Abort(p)
  <2>1. PICK p \in Requests : Moves(p)
    BY <1>2 DEF Moves
  <2>2. Moved(p)
    BY <2>1, MovesMoved DEF IInv
  <2>3. TypeOK'
    BY <2>1, <2>2, KeysTyped DEF IInv, TypeOK, Moved, ReqType
  <2>4. Addressed'
    BY <2>2 DEF IInv, Addressed, Moved, Others, KnowsAddress
  <2>5. RoomLeft' /\ ChangesCounted' /\ Tallied'
    BY <2>2, RoomStep, ChangesStep, TallyStep DEF IInv
  <2>6. CodesFresh' /\ LockIsTransient' /\ EndlessIsTransient'
    BY <2>1, <2>2, FreshStep, LockStep, EndlessStep DEF IInv
  <2> QED BY <2>3, <2>4, <2>5, <2>6 DEF IInv
<1>3. CASE UNCHANGED vars
  <2> USE <1>3 DEF vars, keys, counters, history, tally, IInv
  <2>1. TypeOK' /\ Addressed' /\ RoomLeft'
    BY DEF TypeOK, Addressed, RoomLeft, Pending
  <2>2. CodesFresh' /\ ChangesCounted' /\ Tallied'
    BY DEF CodesFresh, ChangesCounted, Changing, Tallied, Uncounted
  <2>3. LockIsTransient' /\ EndlessIsTransient'
    BY DEF LockIsTransient, EndlessIsTransient, Locked, At
  <2> QED BY <2>1, <2>2, <2>3
<1> QED BY <1>1, <1>2, <1>3 DEF Next

-----------------------------------------------------------------------------

(* The invariant that carries the rest holds in every reachable state.     *)
THEOREM Invariance == Spec => []IInv
<1> QED BY InitIInv, NextIInv, PTL DEF Spec

(* The keys, the account and the requests stay within their types; with    *)
(* the attempts at most MaxAttempts and every code one of those generated. *)
THEOREM TypeCorrect == Spec => []TypeOK
<1>1. IInv => TypeOK
  BY DEF IInv
<1> QED BY <1>1, Invariance, PTL

(* otp.service.ts verifyOtp with verify_otp.lua: no code verifies twice.   *)
THEOREM CodesAcceptedOnce == Spec => []AcceptedOnce
<1>1. IInv => AcceptedOnce
  BY DEF IInv, CodesFresh, AcceptedOnce
<1> QED BY <1>1, Invariance, PTL

(* updateUnverifiedEmail checks the number of changes, makes its own and   *)
(* counts it in three steps: in a window the address changes at most as    *)
(* often as the limit says, once more for every other request in flight    *)
(* and once for every request that died between its change and its count.  *)
THEOREM ChangesAreBounded == Spec => []ChangesBounded
<1>1. IInv => ChangesBounded
  <2> SUFFICES ASSUME IInv PROVE ChangesBounded
    OBVIOUS
  <2>1. /\ changes \in Nat /\ changed \in Nat /\ uncounted \in Nat
        /\ MaxChanges \in Nat /\ Cardinality(Requests) \in Nat
    BY LimitsAssumption, RequestsAssumption, FS_CardinalityType DEF IInv, TypeOK
  <2>2. Uncounted \subseteq Changing /\ Changing \subseteq Requests
    BY DEF Uncounted, Changing
  <2>3. IsFiniteSet(Changing)
    BY <2>2, RequestsAssumption, FS_Subset
  <2>4. /\ Cardinality(Uncounted) \in Nat /\ Cardinality(Changing) \in Nat
        /\ Cardinality(Uncounted) <= Cardinality(Changing)
        /\ Cardinality(Changing) <= Cardinality(Requests)
    BY <2>2, <2>3, RequestsAssumption, FS_Subset, FS_CardinalityType
  <2>5. CASE changes >= MaxChanges
    BY <2>1, <2>4, <2>5 DEF IInv, ChangesCounted, Tallied, ChangesBounded
  <2>6. CASE changes < MaxChanges
    BY <2>1, <2>4, <2>6 DEF IInv, Tallied, ChangesBounded
  <2> QED BY <2>1, <2>5, <2>6
<1> QED BY <1>1, Invariance, PTL

(* requestOtp stores a code before it resets the attempts: while nothing   *)
(* dies, a code found locked is about to be unlocked.                      *)
THEOREM LocksAreTransient == Spec => []LockIsTransient
<1>1. IInv => LockIsTransient
  BY DEF IInv
<1> QED BY <1>1, Invariance, PTL

(* incrementResendCount and incrementEmailChanges: while nothing dies, no  *)
(* counter is left without a time to live.                                 *)
THEOREM CountersExpire == Spec => []EndlessIsTransient
<1>1. IInv => EndlessIsTransient
  BY DEF IInv
<1> QED BY <1>1, Invariance, PTL
-----------------------------------------------------------------------------
(* One request at a time, and nothing dies.                                *)
Alone == ~Failures /\ \E p \in Requests : Requests = {p}

(* The attempts live at least as long as the code they count for; only     *)
(* between the two commands of requestOtp are they those of an older code. *)
Guessed(p) ==
  /\ At(p, "otpReset") => wrong = 0
  /\ ~At(p, "otpReset") /\ otp.ttl > 0 =>
       /\ wrong <= attempts.count /\ attempts.count < MaxAttempts
       /\ attempts.count > 0 => attempts.ttl >= otp.ttl

(* The stored code was mailed to the address of the row, is about to be, or*)
(* is about to be deleted.                                                 *)
Mailing == {"otpReset", "otpCount", "otpExpire", "otpCooldown", "otpMail"}
Addressing == Mailing \cup {"changeDelete", "changeCount", "changeExpire", "otpCheck", "otpSet"}

Proven(p) ==
  /\ req[p].at \in Addressing => req[p].address = email
  /\ otp.ttl > 0 /\ req[p].at \in Mailing => req[p].code = otp.code
  /\ otp.ttl > 0 /\ req[p].at \notin Mailing \cup {"changeDelete"} => mailed[otp.code] = email
  /\ At(p, "verifyMark") => mailed[req[p].code] = email

AloneInv == \A p \in Requests : Guessed(p) /\ Proven(p)

(* What a step does to the request that takes it. *)
LEMMA GotoKeeps ==
  ASSUME TypeOK, NEW p \in Requests, NEW stage \in Stages, Goto(p, stage)
  PROVE  req'[p].at = stage /\ req'[p].address = req[p].address /\ req'[p].code = req[p].code
<1>1. req \in [Requests -> ReqType]
  BY DEF TypeOK, ReqType
<1>2. req'[p] = [req[p] EXCEPT !.at = stage] /\ req'[p].at = stage
  BY <1>1, GotoWrites
<1> QED BY <1>1, <1>2 DEF ReqType

LEMMA DoneFrees ==
  ASSUME TypeOK, NEW p \in Requests, Done(p)
  PROVE  req'[p].at = "idle"
<1>1. req \in [Requests -> ReqType]
  BY DEF TypeOK, ReqType
<1> QED BY <1>1, DoneWrites

LEMMA BeginTakes ==
  ASSUME TypeOK, NEW p \in Requests, NEW stage \in Stages, NEW a, NEW c, Begin(p, Request(stage, a, c))
  PROVE  req[p].at = "idle" /\ req'[p].at = stage /\ req'[p].address = a /\ req'[p].code = c
BY DEF TypeOK, Begin, Idle, Request

(* The stages a request may go to without touching a code or its attempts. *)
LEMMA StagesThere ==
  Mailing \cup Addressing \cup {"idle", "verifyOtp", "verifyMark", "changeLimit", "changeEmail"} \subseteq Stages
BY DEF Mailing, Addressing, Stages

(* The guesses, request by request. *)
LEMMA GuessedStep ==
  ASSUME ~Failures, IInv, NEW p \in Requests, Guessed(p), Step(p) \/ Arrival(p)
  PROVE  Guessed(p)'
<1> USE LimitsAssumption DEF At, keys, counters, history, tally
<1>0. /\ TypeOK /\ NoOtp.ttl = 0 /\ NoAttempts.count = 0 /\ MaxAttempts >= 1
      /\ wrong \in Nat /\ attempts.count \in Nat /\ attempts.ttl \in 0..OtpTTL /\ otp.ttl \in 0..OtpTTL
  BY DEF IInv, TypeOK, NoOtp, NoAttempts
<1>1. CASE VerifyLocked(p) \/ VerifyMatch(p) \/ ChangeDelete(p)
  <2>1. otp' = NoOtp /\ req'[p].at # "otpReset"
    BY <1>0, <1>1, StagesThere, GotoKeeps, DoneFrees DEF VerifyLocked, VerifyMatch, ChangeDelete, Mailing, Addressing
  <2> QED BY <1>0, <2>1 DEF Guessed
<1>2. CASE OtpReset(p)
  <2>1. attempts' = NoAttempts /\ wrong' = wrong /\ wrong = 0 /\ req'[p].at = "otpCount"
    BY <1>0, <1>2, StagesThere, GotoKeeps DEF OtpReset, Mailing, Guessed
  <2> QED BY <1>0, <2>1 DEF Guessed
<1>3. CASE OtpSet(p)
  <2>1. wrong' = 0 /\ req'[p].at = "otpReset"
    BY <1>0, <1>3 DEF OtpSet, TypeOK
  <2> QED BY <2>1 DEF Guessed
<1>4. CASE VerifyWrong(p)
  <2>1. req[p].at = "verifyOtp" /\ req'[p].at = "idle" /\ otp.ttl > 0 /\ wrong' = wrong + 1
    BY <1>0, <1>4, DoneFrees DEF VerifyWrong
  <2>2. attempts'.count = attempts.count + 1
        /\ attempts'.ttl = IF attempts.count = 0 THEN OtpTTL ELSE attempts.ttl
    BY <1>4 DEF VerifyWrong, OneMoreAttempt
  <2>3. otp' = IF attempts.count + 1 >= MaxAttempts THEN NoOtp ELSE otp
    BY <1>4 DEF VerifyWrong
  <2>4. wrong <= attempts.count /\ (attempts.count > 0 => attempts.ttl >= otp.ttl)
    BY <2>1 DEF Guessed
  <2> QED BY <1>0, <2>1, <2>2, <2>3, <2>4 DEF Guessed
<1>5. CASE ~(\/ VerifyLocked(p) \/ VerifyMatch(p) \/ ChangeDelete(p) \/ OtpReset(p) \/ OtpSet(p) \/ VerifyWrong(p))
  <2>1. /\ UNCHANGED <<otp, attempts, wrong>> /\ req[p].at # "otpReset"
        /\ Done(p) \/ (\E stage \in Stages : stage # "otpReset" /\ Goto(p, stage))
           \/ (\E stage \in Stages : stage # "otpReset" /\ \E a, c : Begin(p, Request(stage, a, c)))
           \/ OtpCount(p)
    <3>1. CASE Arrival(p)
      BY <1>5, <3>1, StagesThere DEF Arrival, RequestOtp, VerifyFind, ChangeFind, Begin, Idle, Mailing, Addressing
    <3>2. CASE \/ OtpCheck(p) \/ OtpExpire(p) \/ SetCooldown(p) \/ OtpMail(p) \/ VerifyExpired(p) \/ VerifyMark(p)
               \/ ChangeLimit(p) \/ ChangeTaken(p)
      BY <3>2, StagesThere DEF OtpCheck, OtpExpire, SetCooldown, OtpMail, VerifyExpired, VerifyMark,
           ChangeLimit, ChangeTaken, Mailing, Addressing
    <3>3. CASE OtpCount(p) \/ ChangeEmail(p) \/ ChangeCount(p) \/ ChangeExpire(p)
      <4>1. CASE OtpCount(p)
        BY <4>1 DEF OtpCount
      <4>2. CASE ChangeEmail(p)
        BY <4>2, StagesThere DEF ChangeEmail, Addressing
      <4>3. CASE ChangeCount(p)
        BY <4>3, StagesThere DEF ChangeCount, Addressing
      <4>4. CASE ChangeExpire(p)
        BY <4>4, StagesThere DEF ChangeExpire, Addressing
      <4> QED BY <3>3, <4>1, <4>2, <4>3, <4>4
    <3> QED BY <1>5, <3>1, <3>2, <3>3 DEF Step
  <2>2. req'[p].at # "otpReset"
    <3>1. OtpCount(p) => req'[p].at = "otpExpire"
      BY <1>0 DEF OtpCount, TypeOK
    <3> QED BY <1>0, <2>1, <3>1, DoneFrees, GotoKeeps, BeginTakes
  <2> QED BY <2>1, <2>2 DEF Guessed
<1> QED BY <1>1, <1>2, <1>3, <1>4, <1>5

LEMMA GuessedTick ==
  ASSUME IInv, NEW p \in Requests, Guessed(p), Tick \/ WindowEnds
  PROVE  Guessed(p)'
<1>0. /\ NoOtp.ttl = 0 /\ NoAttempts.count = 0 /\ NoAttempts.ttl = 0 /\ MaxAttempts \in Nat /\ MaxAttempts >= 1
      /\ wrong \in Nat /\ attempts.count \in Nat /\ attempts.ttl \in Nat /\ otp.ttl \in Nat
  BY LimitsAssumption DEF IInv, TypeOK, NoOtp, NoAttempts
<1>1. CASE WindowEnds
  BY <1>1 DEF WindowEnds, history, Guessed, At
<1>2. CASE Tick
  <2>1. wrong' = wrong /\ req' = req
    BY <1>2 DEF Tick, history
  <2>2. otp'.ttl = IF otp.ttl <= 1 THEN 0 ELSE otp.ttl - 1
    BY <1>0, <1>2 DEF Tick, IInv, TypeOK
  <2>3. attempts'.count = (IF attempts.ttl <= 1 THEN 0 ELSE attempts.count)
        /\ attempts'.ttl = IF attempts.ttl <= 1 THEN 0 ELSE attempts.ttl - 1
    BY <1>0, <1>2 DEF Tick, IInv, TypeOK
  <2>4. CASE req[p].at = "otpReset"
    BY <2>1, <2>4 DEF Guessed, At
  <2>5. CASE req[p].at # "otpReset" /\ otp'.ttl > 0
    <3>1. otp.ttl > 1 /\ wrong <= attempts.count /\ attempts.count < MaxAttempts
          /\ (attempts.count > 0 => attempts.ttl >= otp.ttl)
      BY <1>0, <2>2, <2>5 DEF Guessed, At
    <3>2. attempts'.count = attempts.count
      BY <1>0, <2>3, <3>1
    <3>3. attempts'.count > 0 => attempts'.ttl >= otp'.ttl
      BY <1>0, <2>2, <2>3, <3>1, <3>2
    <3> QED BY <2>1, <2>5, <3>1, <3>2, <3>3 DEF Guessed, At
  <2>6. CASE req[p].at # "otpReset" /\ ~(otp'.ttl > 0)
    BY <2>1, <2>6 DEF Guessed, At
  <2> QED BY <2>4, <2>5, <2>6
<1> QED BY <1>1, <1>2

(* The address, request by request. *)
LEMMA ProvenStep ==
  ASSUME ~Failures, IInv, NEW p \in Requests, Proven(p), Step(p) \/ Arrival(p)
  PROVE  Proven(p)'
<1> USE DEF At, keys, counters, history, tally
<1>0. /\ TypeOK /\ NoOtp.ttl = 0 /\ otp.ttl \in Nat
      /\ otp.ttl > 0 => otp.code \in Codes
      /\ mailed \in [Codes -> Emails \cup {None}]
  BY LimitsAssumption DEF IInv, TypeOK, NoOtp, CodesFresh, Codes
<1>s. Mailing \cup Addressing \cup {"idle", "verifyOtp", "verifyMark", "changeLimit", "changeEmail"} \subseteq Stages
  BY StagesThere
<1> USE DEF Mailing, Addressing
<1>1. CASE RequestOtp(p)
  <2>1. req[p].at = "idle" /\ req'[p].at = "otpCheck" /\ req'[p].address = email
    BY <1>0, <1>1, <1>s, BeginTakes DEF RequestOtp
  <2> QED BY <1>1, <2>1 DEF RequestOtp, Proven
<1>2. CASE (\E c \in 0..MaxCode : VerifyFind(p, c)) \/ (\E new \in Emails : ChangeFind(p, new))
  <2>1. req[p].at = "idle" /\ req'[p].at \in {"verifyOtp", "changeLimit"}
    BY <1>0, <1>2, <1>s, BeginTakes DEF VerifyFind, ChangeFind
  <2>2. UNCHANGED <<email, otp, mailed>>
    BY <1>2 DEF VerifyFind, ChangeFind
  <2> QED BY <2>1, <2>2 DEF Proven
<1>3. CASE OtpCheck(p) \/ VerifyExpired(p) \/ VerifyMark(p) \/ ChangeLimit(p) \/ ChangeTaken(p)
  <2>1. UNCHANGED <<email, otp, mailed>>
    BY <1>3 DEF OtpCheck, VerifyExpired, VerifyMark, ChangeLimit, ChangeTaken
  <2>2. /\ req[p].at \in {"otpCheck", "verifyOtp", "verifyMark", "changeLimit", "changeEmail"}
        /\ \/ req'[p].at \in {"idle", "changeEmail"}
           \/ req[p].at = "otpCheck" /\ req'[p].at = "otpSet" /\ req'[p].address = req[p].address
    BY <1>0, <1>3, <1>s, GotoKeeps, DoneFrees DEF OtpCheck, VerifyExpired, VerifyMark, ChangeLimit, ChangeTaken
  <2> QED BY <2>1, <2>2 DEF Proven
<1>4. CASE OtpSet(p)
  <2>1. /\ req[p].at = "otpSet" /\ req'[p].at = "otpReset" /\ req'[p].address = req[p].address
        /\ req'[p].code = codes + 1 /\ otp'.code = codes + 1 /\ email' = email
    BY <1>0, <1>4 DEF OtpSet, TypeOK
  <2> QED BY <2>1 DEF Proven
<1>5. CASE OtpReset(p) \/ OtpCount(p) \/ OtpExpire(p) \/ SetCooldown(p)
  <2>1. UNCHANGED <<email, otp, mailed>> /\ req[p].at \in Mailing
    BY <1>5 DEF OtpReset, OtpCount, OtpExpire, SetCooldown
  <2>2. req'[p].at \in Mailing /\ req'[p].address = req[p].address /\ req'[p].code = req[p].code
    <3>1. CASE OtpCount(p)
      BY <1>0, <3>1 DEF OtpCount, TypeOK
    <3>2. CASE OtpReset(p) \/ OtpExpire(p) \/ SetCooldown(p)
      BY <1>0, <1>s, <3>2, GotoKeeps DEF OtpReset, OtpExpire, SetCooldown
    <3> QED BY <1>5, <3>1, <3>2
  <2> QED BY <2>1, <2>2 DEF Proven
<1>6. CASE OtpMail(p)
  <2>1. req[p].at = "otpMail" /\ req'[p].at = "idle" /\ UNCHANGED <<email, otp>>
        /\ mailed' = [mailed EXCEPT ![req[p].code] = req[p].address]
    BY <1>0, <1>6, DoneFrees DEF OtpMail
  <2>2. otp.ttl > 0 => mailed'[otp.code] = email
    BY <1>0, <2>1 DEF Proven
  <2> QED BY <2>1, <2>2 DEF Proven
<1>7. CASE VerifyLocked(p) \/ VerifyWrong(p)
  <2>1. req[p].at = "verifyOtp" /\ req'[p].at = "idle" /\ UNCHANGED <<email, mailed>> /\ otp' \in {otp, NoOtp}
    BY <1>0, <1>7, DoneFrees DEF VerifyLocked, VerifyWrong
  <2> QED BY <1>0, <2>1 DEF Proven
<1>8. CASE VerifyMatch(p)
  <2>1. /\ req[p].at = "verifyOtp" /\ otp.ttl > 0 /\ otp.code = req[p].code /\ otp' = NoOtp
        /\ req'[p].at = "verifyMark" /\ req'[p].code = req[p].code /\ UNCHANGED <<email, mailed>>
    BY <1>0, <1>8, <1>s, GotoKeeps DEF VerifyMatch
  <2> QED BY <1>0, <2>1 DEF Proven
<1>9. CASE ChangeEmail(p)
  <2>1. req'[p].at = "changeDelete" /\ req'[p].address = req[p].address /\ email' = req[p].address
    BY <1>0, <1>9, <1>s, GotoKeeps DEF ChangeEmail
  <2> QED BY <2>1 DEF Proven
<1>10. CASE ChangeDelete(p)
  <2>1. req[p].at = "changeDelete" /\ req'[p].at = "changeCount" /\ req'[p].address = req[p].address
        /\ email' = email /\ otp' = NoOtp
    BY <1>0, <1>10, <1>s, GotoKeeps DEF ChangeDelete
  <2> QED BY <1>0, <2>1 DEF Proven
<1>11. CASE ChangeCount(p) \/ ChangeExpire(p)
  <2>1. req[p].at \in {"changeCount", "changeExpire"} /\ UNCHANGED <<email, otp, mailed>>
    BY <1>11 DEF ChangeCount, ChangeExpire
  <2>2. req'[p].at \in {"changeExpire", "otpCheck"} /\ req'[p].address = req[p].address
    BY <1>0, <1>11, <1>s, GotoKeeps DEF ChangeCount, ChangeExpire
  <2> QED BY <2>1, <2>2 DEF Proven
<1> QED BY <1>1, <1>2, <1>3, <1>4, <1>5, <1>6, <1>7, <1>8, <1>9, <1>10, <1>11 DEF Step, Arrival

LEMMA ProvenTick ==
  ASSUME IInv, NEW p \in Requests, Proven(p), Tick \/ WindowEnds
  PROVE  Proven(p)'
<1>1. UNCHANGED <<email, mailed, req>>
  BY DEF Tick, WindowEnds, history
<1>2. otp'.ttl > 0 => otp.ttl > 0 /\ otp'.code = otp.code
  BY LimitsAssumption DEF IInv, TypeOK, Tick, WindowEnds, NoOtp
<1> QED BY <1>1, <1>2 DEF Proven, At

LEMMA AloneNext ==
  ASSUME Alone, IInv, AloneInv, [Next]_vars
  PROVE  AloneInv'
<1> SUFFICES ASSUME NEW q \in Requests PROVE Guessed(q)' /\ Proven(q)'
  BY DEF AloneInv
<1>0. ~Failures /\ Requests = {q} /\ Guessed(q) /\ Proven(q)
  BY DEF Alone, AloneInv
<1>1. CASE Tick \/ WindowEnds
  BY <1>0, <1>1, GuessedTick, ProvenTick
<1>2. CASE \E p \in Requests : Step(p) \/ Arrival(p) \/ Abort(p)
  <2>1. Step(q) \/ Arrival(q)
    BY <1>0, <1>2 DEF Abort
  <2> QED BY <1>0, <2>1, GuessedStep, ProvenStep
<1>3. CASE UNCHANGED vars
  BY <1>0, <1>3 DEF vars, keys, counters, history, tally, Guessed, Proven, At
<1> QED BY <1>1, <1>2, <1>3 DEF Next

LEMMA AloneInit ==
  ASSUME Init
  PROVE  AloneInv
BY DEF Init, AloneInv, Guessed, Proven, At, NoOtp, IdleRequest, Request, Addressing, Mailing

(* verify_otp.lua and requestOtp, one request at a time: the attempts never*)
(* run out before the code they belong to, so that no guess is forgotten.  *)
THEOREM EveryGuessCounts ==
  ASSUME Alone
  PROVE  Spec => []GuessesCounted
<1>1. IInv /\ AloneInv /\ [Next]_vars => AloneInv'
  BY AloneNext
<1>2. IInv /\ AloneInv => GuessesCounted
  <2> SUFFICES ASSUME IInv, AloneInv, Quiet, otp.ttl > 0 PROVE wrong <= attempts.count /\ ~Locked
    BY DEF GuessesCounted
  <2>1. PICK p \in Requests : Guessed(p) /\ ~At(p, "otpReset")
    BY DEF Alone, AloneInv, Quiet, Idle, At
  <2>2. attempts.count \in Nat /\ MaxAttempts \in Nat
    BY LimitsAssumption DEF IInv, TypeOK
  <2> QED BY <2>1, <2>2 DEF Guessed, Locked
<1> QED BY <1>1, <1>2, AloneInit, Invariance, PTL DEF Spec

(* verifyEmail after updateUnverifiedEmail, one request at a time: the code*)
(* that verifies was mailed to the address that is verified.               *)
THEOREM AddressIsProven ==
  ASSUME Alone
  PROVE  Spec => ProvenAddress
<1>1. IInv /\ AloneInv /\ [Next]_vars => AloneInv'
  BY AloneNext
<1>2. IInv /\ AloneInv /\ [Next]_vars =>
        [verified' /\ ~verified => \E p \in Requests : At(p, "verifyMark") /\ mailed[req[p].code] = email']_vars
  <2> SUFFICES ASSUME AloneInv, IInv, Next, verified', ~verified
               PROVE  \E p \in Requests : At(p, "verifyMark") /\ mailed[req[p].code] = email'
    OBVIOUS
  <2>1. ~(Tick \/ WindowEnds) /\ ~(\E p \in Requests : Arrival(p) \/ Abort(p))
    BY DEF Tick, WindowEnds, Arrival, Abort, RequestOtp, VerifyFind, ChangeFind
  <2>2. PICK p \in Requests : Step(p)
    BY <2>1 DEF Next
  <2>3. VerifyMark(p)
    BY <2>2 DEF Step, OtpCheck, OtpSet, OtpReset, OtpCount, OtpExpire, SetCooldown, OtpMail, VerifyLocked,
         VerifyExpired, VerifyMatch, VerifyWrong, ChangeLimit, ChangeTaken, ChangeEmail, ChangeDelete,
         ChangeCount, ChangeExpire
  <2> QED BY <2>3 DEF VerifyMark, AloneInv, Proven, At
<1> QED BY <1>1, <1>2, AloneInit, Invariance, PTL DEF Spec, ProvenAddress
=============================================================================
