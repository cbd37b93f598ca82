------------------------- MODULE EmailVerification -------------------------
(***************************************************************************)
(* The verification of an account's email address by a one-time code:      *)
(* resendOtp, verifyEmail and updateUnverifiedEmail (services/             *)
(* auth.service.ts), requestOtp and verifyOtp (services/otp.service.ts),   *)
(* the Redis keys behind them (repositories/otp.repository.ts) and the Lua *)
(* script that verifies a code (repositories/lua/verify_otp.lua).          *)
(*                                                                         *)
(* Every key is of one account, so the module is about one account.  It    *)
(* starts as register leaves it; register's own call of requestOtp is the  *)
(* first RequestOtp.  The script is one atomic step, every other Redis     *)
(* command or query is a step of its own, and between two steps of a       *)
(* request any other may run, or the process may die (Failures).           *)
(*                                                                         *)
(* Codes are numbered in the order they are generated: a hash is that of   *)
(* one code, and a code is entered only by someone it was mailed to.  The  *)
(* expiry of the code, the attempts and the cooldown is counted in ticks;  *)
(* the windows of 24 hours may end at any time.                            *)
(***************************************************************************)
EXTENDS Integers, FiniteSets

CONSTANTS
  Emails,         \* the addresses of the account's owner
  None,           \* no address
  Requests,       \* slots for HTTP requests in flight
  OtpTTL,         \* OTP_TTL, in ticks
  MaxAttempts,    \* OTP_MAX_ATTEMPTS
  MaxChanges,     \* MAX_EMAIL_CHANGES
  ShortCooldown,  \* the cooldown after the first requests for a code,
  MediumCooldown, \* after the third and the fourth,
  LongCooldown,   \* and after more, in ticks
  MaxCode,        \* bound on the codes generated,
  MaxUncounted,   \* and on the requests of a window that die before counting their change
  Failures        \* whether a command or a query may throw, or the process die

ASSUME NoneAssumption == None \notin Emails
ASSUME RequestsAssumption == IsFiniteSet(Requests)
ASSUME LimitsAssumption ==
  /\ OtpTTL \in Nat \ {0} /\ MaxAttempts \in Nat \ {0} /\ MaxChanges \in Nat \ {0}
  /\ ShortCooldown \in Nat /\ MediumCooldown \in Nat /\ LongCooldown \in Nat
  /\ MaxCode \in Nat /\ MaxUncounted \in Nat
ASSUME FailuresAssumption == Failures \in BOOLEAN

VARIABLES
  email,     \* users.email
  verified,  \* users.emailVerified
  otp,       \* auth:otp:verification; ttl 0 is an absent key
  attempts,  \* auth:otp:attempts; count 0 is an absent key
  cooldown,  \* auth:otp:cooldown, its time to live
  resends,   \* auth:otp:resend_count
  changes,   \* auth:otp:email_changes
  endless,   \* which of the two counters have no time to live
  codes,     \* how many codes were generated
  mailed,    \* the address each code went to
  wrong,     \* wrong guesses at the stored code (history only)
  accepted,  \* how often each code was accepted (history only)
  changed,   \* the changes of the address in this window, those that were never
  uncounted, \* counted among them (history only)
  req        \* the requests in flight

counters == <<resends, changes, endless>>
keys == <<otp, attempts, cooldown, counters>>
tally == <<changed, uncounted>>
history == <<codes, mailed, wrong, accepted, tally>>
vars == <<email, verified, keys, history, req>>

Codes == 1..MaxCode
NoOtp == [code |-> 0, ttl |-> 0]
NoAttempts == [count |-> 0, ttl |-> 0]

(* The next thing a request does.                                          *)
Stages == {"idle", "otpCheck", "otpSet", "otpReset", "otpCount", "otpExpire", "otpCooldown", "otpMail",
           "verifyOtp", "verifyMark",
           "changeLimit", "changeEmail", "changeDelete", "changeCount", "changeExpire"}

Request(at, address, code) == [at |-> at, address |-> address, code |-> code, count |-> 0]
IdleRequest == Request("idle", None, 0)

Idle(p) == req[p].at = "idle"
At(p, stage) == req[p].at = stage
Begin(p, r) == Idle(p) /\ req' = [req EXCEPT ![p] = r]
Goto(p, stage) == req' = [req EXCEPT ![p].at = stage]
Done(p) == req' = [req EXCEPT ![p] = IdleRequest]

Init ==
  /\ email \in Emails
  /\ verified = FALSE
  /\ otp = NoOtp /\ attempts = NoAttempts /\ cooldown = 0
  /\ resends = 0 /\ changes = 0 /\ endless = {}
  /\ codes = 0
  /\ mailed = [c \in Codes |-> None]
  /\ wrong = 0
  /\ accepted = [c \in Codes |-> 0]
  /\ changed = 0 /\ uncounted = 0
  /\ req = [p \in Requests |-> IdleRequest]

(* The bound: a handler that would generate a code starts only while there *)
(* is one left.                                                            *)
BeforeTheCode == {"otpCheck", "otpSet",
                  "changeLimit", "changeEmail", "changeDelete", "changeCount", "changeExpire"}
RoomForCode == codes + Cardinality({p \in Requests : req[p].at \in BeforeTheCode}) < MaxCode

(***************************************************************************)
(* requestOtp, called by register and resendOtp for the address of the row *)
(* they read, and by updateUnverifiedEmail for the new one                 *)
(***************************************************************************)
RequestOtp(p) ==
  /\ ~verified /\ RoomForCode
  /\ Begin(p, Request("otpCheck", email, 0))
  /\ UNCHANGED <<email, verified, keys, history>>

OtpCheck(p) ==
  /\ At(p, "otpCheck")
  /\ IF cooldown > 0 THEN Done(p) ELSE Goto(p, "otpSet")
  /\ UNCHANGED <<email, verified, keys, history>>

OtpSet(p) ==
  /\ At(p, "otpSet")
  /\ codes' = codes + 1
  /\ otp' = [code |-> codes + 1, ttl |-> OtpTTL]
  /\ wrong' = 0
  /\ req' = [req EXCEPT ![p].at = "otpReset", ![p].code = codes + 1]
  /\ UNCHANGED <<email, verified, attempts, cooldown, counters, mailed, accepted, tally>>

(* Mutant: the failed attempts are kept. *)
OtpResetNothing(p) ==
  /\ At(p, "otpReset")
  /\ Goto(p, "otpCount")
  /\ UNCHANGED <<email, verified, keys, history>>

OtpReset(p) ==
  /\ At(p, "otpReset")
  /\ attempts' = NoAttempts
  /\ Goto(p, "otpCount")
  /\ UNCHANGED <<email, verified, otp, cooldown, counters, history>>

(* INCR leaves the expiry of a key alone, and a new key has none until the *)
(* EXPIRE that follows.                                                    *)
OtpCount(p) ==
  /\ At(p, "otpCount")
  /\ resends' = resends + 1
  /\ endless' = IF resends = 0 THEN endless \cup {"resends"} ELSE endless
  /\ req' = [req EXCEPT ![p].at = "otpExpire", ![p].count = resends + 1]
  /\ UNCHANGED <<email, verified, otp, attempts, cooldown, changes, history>>

OtpExpire(p) ==
  /\ At(p, "otpExpire")
  /\ endless' = endless \ {"resends"}
  /\ Goto(p, "otpCooldown")
  /\ UNCHANGED <<email, verified, otp, attempts, cooldown, resends, changes, history>>

CooldownAfter(n) ==
  IF n \in {3, 4} THEN MediumCooldown ELSE IF n > 4 THEN LongCooldown ELSE ShortCooldown

SetCooldown(p) ==
  /\ At(p, "otpCooldown")
  /\ cooldown' = CooldownAfter(req[p].count)
  /\ Goto(p, "otpMail")
  /\ UNCHANGED <<email, verified, otp, attempts, counters, history>>

OtpMail(p) ==
  /\ At(p, "otpMail")
  /\ mailed' = [mailed EXCEPT ![req[p].code] = req[p].address]
  /\ Done(p)
  /\ UNCHANGED <<email, verified, keys, codes, wrong, accepted, tally>>

(***************************************************************************)
(* verifyEmail: look up a row, run the script, mark the account.  The      *)
(* lookup is by an email the validated body does not have, so Prisma gives *)
(* the first row of the table: whether that one is verified, and the       *)
(* request refused, says nothing of this account.  Code 0 is a code that   *)
(* was never generated.                                                    *)
(***************************************************************************)
VerifyFind(p, c) ==
  /\ c = 0 \/ (c \in Codes /\ mailed[c] # None)
  /\ Begin(p, Request("verifyOtp", None, c))
  /\ UNCHANGED <<email, verified, keys, history>>

Locked == attempts.count >= MaxAttempts

VerifyLocked(p) ==
  /\ At(p, "verifyOtp") /\ Locked
  /\ otp' = NoOtp
  /\ Done(p)
  /\ UNCHANGED <<email, verified, attempts, cooldown, counters, history>>

VerifyExpired(p) ==
  /\ At(p, "verifyOtp") /\ ~Locked /\ otp.ttl = 0
  /\ Done(p)
  /\ UNCHANGED <<email, verified, keys, history>>

(* Mutant: the code is not among the keys deleted on a match. *)
VerifyMatchKeeps(p) ==
  /\ At(p, "verifyOtp") /\ ~Locked /\ otp.ttl > 0 /\ otp.code = req[p].code
  /\ attempts' = NoAttempts /\ cooldown' = 0
  /\ accepted' = [accepted EXCEPT ![otp.code] = @ + 1]
  /\ Goto(p, "verifyMark")
  /\ UNCHANGED <<email, verified, otp, counters, codes, mailed, wrong, tally>>

VerifyMatch(p) ==
  /\ At(p, "verifyOtp") /\ ~Locked /\ otp.ttl > 0 /\ otp.code = req[p].code
  /\ otp' = NoOtp /\ attempts' = NoAttempts /\ cooldown' = 0
  /\ accepted' = [accepted EXCEPT ![otp.code] = @ + 1]
  /\ Goto(p, "verifyMark")
  /\ UNCHANGED <<email, verified, counters, codes, mailed, wrong, tally>>

(* Mutant: the attempts outlive the code. *)
OneMoreAttemptLonger ==
  [count |-> attempts.count + 1, ttl |-> IF attempts.count = 0 THEN 2 * OtpTTL ELSE attempts.ttl]

(* INCR of the attempts, with the expiry set by the first. *)
OneMoreAttempt ==
  [count |-> attempts.count + 1, ttl |-> IF attempts.count = 0 THEN OtpTTL ELSE attempts.ttl]

(* Mutant: the attempt that reaches the limit leaves the code in place. *)
VerifyWrongKeeps(p) ==
  /\ At(p, "verifyOtp") /\ ~Locked /\ otp.ttl > 0 /\ otp.code # req[p].code
  /\ attempts' = OneMoreAttempt
  /\ wrong' = wrong + 1
  /\ Done(p)
  /\ UNCHANGED <<email, verified, otp, cooldown, counters, codes, mailed, accepted, tally>>

VerifyWrong(p) ==
  /\ At(p, "verifyOtp") /\ ~Locked /\ otp.ttl > 0 /\ otp.code # req[p].code
  /\ attempts' = OneMoreAttempt
  /\ otp' = IF attempts.count + 1 >= MaxAttempts THEN NoOtp ELSE otp
  /\ wrong' = wrong + 1
  /\ Done(p)
  /\ UNCHANGED <<email, verified, cooldown, counters, codes, mailed, accepted, tally>>

VerifyMark(p) ==
  /\ At(p, "verifyMark")
  /\ verified' = TRUE
  /\ Done(p)
  /\ UNCHANGED <<email, keys, history>>

(***************************************************************************)
(* updateUnverifiedEmail                                                   *)
(***************************************************************************)
ChangeFind(p, new) ==
  /\ ~verified /\ new # email /\ RoomForCode
  /\ Begin(p, Request("changeLimit", new, 0))
  /\ UNCHANGED <<email, verified, keys, history>>

(* Mutant: off by one. *)
ChangeLimitOneMore(p) ==
  /\ At(p, "changeLimit")
  /\ IF changes > MaxChanges THEN Done(p) ELSE Goto(p, "changeEmail")
  /\ UNCHANGED <<email, verified, keys, history>>

ChangeLimit(p) ==
  /\ At(p, "changeLimit")
  /\ IF changes >= MaxChanges THEN Done(p) ELSE Goto(p, "changeEmail")
  /\ UNCHANGED <<email, verified, keys, history>>

(* Another account has the address: findByEmail finds it, or the unique    *)
(* index refuses the update.                                               *)
ChangeTaken(p) ==
  /\ At(p, "changeEmail")
  /\ Done(p)
  /\ UNCHANGED <<email, verified, keys, history>>

ChangeEmail(p) ==
  /\ At(p, "changeEmail")
  /\ email' = req[p].address
  /\ changed' = changed + 1
  /\ Goto(p, "changeDelete")
  /\ UNCHANGED <<verified, keys, codes, mailed, wrong, accepted, uncounted>>

(* Mutant: the code of the old address is kept. *)
ChangeDeleteNothing(p) ==
  /\ At(p, "changeDelete")
  /\ Goto(p, "changeCount")
  /\ UNCHANGED <<email, verified, keys, history>>

ChangeDelete(p) ==
  /\ At(p, "changeDelete")
  /\ otp' = NoOtp /\ attempts' = NoAttempts /\ cooldown' = 0
  /\ Goto(p, "changeCount")
  /\ UNCHANGED <<email, verified, counters, history>>

ChangeCount(p) ==
  /\ At(p, "changeCount")
  /\ changes' = changes + 1
  /\ endless' = IF changes = 0 THEN endless \cup {"changes"} ELSE endless
  /\ Goto(p, "changeExpire")
  /\ UNCHANGED <<email, verified, otp, attempts, cooldown, resends, history>>

(* Mutant: the counter never gets its expiry. *)
ChangeExpireNever(p) ==
  /\ At(p, "changeExpire")
  /\ Goto(p, "otpCheck")
  /\ UNCHANGED <<email, verified, keys, history>>

ChangeExpire(p) ==
  /\ At(p, "changeExpire")
  /\ endless' = endless \ {"changes"}
  /\ Goto(p, "otpCheck")
  /\ UNCHANGED <<email, verified, otp, attempts, cooldown, resends, changes, history>>

-----------------------------------------------------------------------------

(* The requests that have changed the address and not counted the change.  *)
Uncounted == {p \in Requests : req[p].at \in {"changeDelete", "changeCount"}}

(* A command or query throws, or the process dies: what was done stays.    *)
Abort(p) ==
  /\ Failures /\ ~Idle(p)
  /\ IF p \in Uncounted
       THEN uncounted < MaxUncounted /\ uncounted' = uncounted + 1
       ELSE UNCHANGED uncounted
  /\ Done(p)
  /\ UNCHANGED <<email, verified, keys, codes, mailed, wrong, accepted, changed>>

Tick ==
  /\ otp' = IF otp.ttl <= 1 THEN NoOtp ELSE [otp EXCEPT !.ttl = @ - 1]
  /\ attempts' = IF attempts.ttl <= 1 THEN NoAttempts ELSE [attempts EXCEPT !.ttl = @ - 1]
  /\ cooldown' = IF cooldown = 0 THEN 0 ELSE cooldown - 1
  /\ UNCHANGED <<email, verified, counters, history, req>>

(* 24 hours without another request, or without another change.  A change  *)
(* that is still to be counted belongs to the next window.                 *)
WindowEnds ==
  /\ \/ /\ resends > 0 /\ "resends" \notin endless /\ resends' = 0
        /\ UNCHANGED <<changes, tally>>
     \/ /\ changes > 0 /\ "changes" \notin endless /\ changes' = 0
        /\ changed' = Cardinality(Uncounted) /\ uncounted' = 0
        /\ UNCHANGED resends
  /\ UNCHANGED <<email, verified, otp, attempts, cooldown, endless, codes, mailed, wrong, accepted, req>>

Step(p) ==
  \/ OtpCheck(p) \/ OtpSet(p) \/ OtpReset(p) \/ OtpCount(p) \/ OtpExpire(p)
  \/ SetCooldown(p) \/ OtpMail(p)
  \/ VerifyLocked(p) \/ VerifyExpired(p) \/ VerifyMatch(p) \/ VerifyWrong(p) \/ VerifyMark(p)
  \/ ChangeLimit(p) \/ ChangeTaken(p) \/ ChangeEmail(p) \/ ChangeDelete(p)
  \/ ChangeCount(p) \/ ChangeExpire(p)

Arrival(p) ==
  \/ RequestOtp(p)
  \/ \E c \in 0..MaxCode : VerifyFind(p, c)
  \/ \E new \in Emails : ChangeFind(p, new)

Next ==
  \/ Tick \/ WindowEnds
  \/ \E p \in Requests : Step(p) \/ Arrival(p) \/ Abort(p)

Spec == Init /\ [][Next]_vars

-----------------------------------------------------------------------------

TypeOK ==
  /\ email \in Emails
  /\ verified \in BOOLEAN
  /\ otp \in [code : 0..MaxCode, ttl : 0..OtpTTL]
  /\ attempts \in [count : 0..MaxAttempts, ttl : 0..OtpTTL]
  /\ cooldown \in Nat /\ resends \in Nat /\ changes \in Nat
  /\ endless \in SUBSET {"resends", "changes"}
  /\ codes \in 0..MaxCode
  /\ mailed \in [Codes -> Emails \cup {None}]
  /\ wrong \in Nat
  /\ accepted \in [Codes -> Nat]
  /\ changed \in Nat /\ uncounted \in 0..MaxUncounted
  /\ req \in [Requests -> [at : Stages, address : Emails \cup {None}, code : 0..MaxCode, count : Nat]]

(* A code verifies once, however many requests enter it and whatever is    *)
(* requested, changed or lost meanwhile.                                   *)
AcceptedOnce == \A c \in Codes : accepted[c] <= 1

(* In a window the address really changes at most MaxChanges times, and    *)
(* once more for every other request that passed the limit before it was   *)
(* reached and for every one that died between the change and its count.   *)
Changing == {p \in Requests : req[p].at \in {"changeEmail", "changeDelete", "changeCount"}}

ChangesBounded == changed <= MaxChanges + (Cardinality(Requests) - 1) + uncounted

(* While nothing dies, a code that the next attempt would destroy however  *)
(* right it is, because the attempts at an earlier code used up the limit, *)
(* is about to get its own attempts.                                       *)
LockIsTransient ==
  ~Failures /\ Locked /\ otp.ttl > 0 => \E p \in Requests : At(p, "otpReset")

(* While nothing dies, a counter without a time to live is about to get    *)
(* one, so neither limit outlasts its window.                              *)
EndlessIsTransient ==
  ~Failures => /\ "resends" \in endless => \E p \in Requests : At(p, "otpExpire")
               /\ "changes" \in endless => \E p \in Requests : At(p, "changeExpire")

(* With one request at a time: the attempts count every wrong guess at the *)
(* stored code for as long as it lives, so MaxAttempts of them destroy it. *)
Quiet == \A p \in Requests : Idle(p)

GuessesCounted == Quiet /\ otp.ttl > 0 => wrong <= attempts.count /\ ~Locked

(* What verifying promises: the address that becomes verified is the one   *)
(* the code was mailed to.                                                 *)
ProvenAddress ==
  [][verified' /\ ~verified =>
       \E p \in Requests : At(p, "verifyMark") /\ mailed[req[p].code] = email']_vars
=============================================================================
