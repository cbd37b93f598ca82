--------------------------- MODULE EmailJobsProofs ---------------------------
(***************************************************************************)
(* The invariants of EmailJobs, for any addresses and codes, any number of *)
(* attempts and stalls, and any bounds on kills and shutdowns.             *)
(***************************************************************************)
EXTENDS EmailJobs, TLAPS

JobRecords == [at : Places, made : 0..Attempts, stalls : 0..MaxStalled]

(* The mails of an add are paid for by failed attempts and stalls, but for *)
(* the one that an attempt under way, or one that died, may have sent.  An *)
(* attempt is left to every job that has not ended.                        *)
Extra(r) == IF r.at = "delivered" THEN 1 ELSE 0
Open(r) == r.at \notin Ended \cup {"absent"}
Paid(r, n) ==
  /\ n \in Nat /\ n <= Attempts + MaxStalled
  /\ Open(r) => r.made < Attempts /\ n <= r.made + r.stalls + Extra(r)
  /\ r.stalls > 0 => crashes > 0

(* What the process has in hand is active in Redis; what is active there is*)
(* in hand, or a kill took the hand away.  A process that quits has none.  *)
Held ==
  /\ \A j \in Jobs : j \in hand => job[j].at \in Processing
  /\ \A j \in Jobs : Orphaned(j) => crashes > 0
  /\ process \in {"quitting", "down"} => hand = {}

Inv == JobsTypeOK /\ Held /\ \A j \in Jobs : Paid(job[j], sent[j])

LEMMA InitInv == JobsInit => Inv
<1> SUFFICES ASSUME JobsInit PROVE Inv
  OBVIOUS
<1> USE AttemptsAssumption, BoundsAssumption
<1>1. JobsTypeOK
  BY DEF JobsInit, JobsTypeOK, NoJob, Places
<1>2. \A j \in Jobs : Paid(job[j], sent[j])
  BY DEF JobsInit, NoJob, Paid, Open, Extra, Ended
<1>3. Held
  BY DEF JobsInit, NoJob, Held, Orphaned, Processing
<1> QED
  BY <1>1, <1>2, <1>3 DEF Inv

(* A step that gives one job a record that is paid for, and takes the job  *)
(* in hand only while the process runs, keeps the invariant.               *)
LEMMA OneJob ==
  ASSUME Inv, NEW j \in Jobs, NEW r \in JobRecords, NEW n \in Nat, NEW h \in SUBSET Jobs,
         job' = [job EXCEPT ![j] = r], sent' = [sent EXCEPT ![j] = n], hand' = h,
         UNCHANGED processVars, Paid(r, n),
         h \ {j} = hand \ {j}, process = "running" \/ h \subseteq hand,
         j \in h => r.at \in Processing, r.at \in Processing => j \in h
  PROVE  Inv'
<1>1. JobsTypeOK'
  BY DEF Inv, JobsTypeOK, JobRecords, processVars
<1>2. Held'
  <2>1. ASSUME NEW i \in Jobs
        PROVE  /\ i \in h => job'[i].at \in Processing
               /\ job'[i].at \in Processing /\ i \notin h => crashes > 0
    <3>1. CASE i = j
      BY <3>1 DEF Inv, JobsTypeOK
    <3>2. CASE i # j
      <4>1. job'[i] = job[i] /\ (i \in h <=> i \in hand)
        BY <3>2 DEF Inv, JobsTypeOK
      <4> QED
        BY <4>1 DEF Inv, Held, Orphaned
    <3> QED
      BY <3>1, <3>2
  <2>2. process' = process /\ crashes' = crashes
    BY DEF processVars
  <2>3. process \in {"quitting", "down"} => h = {}
    BY DEF Inv, Held
  <2> QED
    BY <2>1, <2>2, <2>3 DEF Held, Orphaned
<1>3. ASSUME NEW i \in Jobs PROVE Paid(job[i], sent[i])'
  <2>1. CASE i = j
    BY <2>1 DEF Inv, JobsTypeOK, Paid, processVars
  <2>2. CASE i # j
    <3>1. job'[i] = job[i] /\ sent'[i] = sent[i]
      BY <2>2 DEF Inv, JobsTypeOK
    <3> QED
      BY <3>1 DEF Inv, Paid, processVars
  <2> QED
    BY <2>1, <2>2
<1> QED
  BY <1>1, <1>2, <1>3 DEF Inv

LEMMA AddInv == ASSUME Inv, NEW j \in Jobs, Add(j) PROVE Inv'
<1> USE AttemptsAssumption, BoundsAssumption
<1>1. CASE At(j, "absent")
  <2> DEFINE r == [NoJob EXCEPT !.at = "waiting"]
  <2>1. r \in JobRecords /\ Paid(r, 0)
    BY DEF JobRecords, NoJob, Places, Paid, Open, Extra, Ended
  <2>2. /\ job' = [job EXCEPT ![j] = r] /\ sent' = [sent EXCEPT ![j] = 0]
        /\ hand' = hand /\ UNCHANGED processVars
    BY <1>1 DEF Add
  <2>3. r.at \notin Processing /\ j \notin hand /\ hand \in SUBSET Jobs
    BY <1>1 DEF NoJob, Processing, Inv, Held, At, JobsTypeOK
  <2> HIDE DEF r
  <2> QED
    BY <2>1, <2>2, <2>3, OneJob
<1>2. CASE ~At(j, "absent")
  BY <1>2 DEF Add, jobVars, processVars, Inv, JobsTypeOK, Paid, Held, Orphaned
<1> QED
  BY <1>1, <1>2

(* Every other step of a job leaves what was sent alone, or adds one.      *)
LEMMA JobStepInv == ASSUME Inv, NEW j \in Jobs, JobStep(j) \/ Forget(j) PROVE Inv'
<1> USE AttemptsAssumption, BoundsAssumption
<1> DEFINE r == job[j]
           n == sent[j]
<1>1. /\ r \in JobRecords /\ n \in Nat /\ Paid(r, n)
      /\ job \in [Jobs -> JobRecords] /\ sent \in [Jobs -> Nat]
      /\ j \in hand => r.at \in Processing
      /\ hand \in SUBSET Jobs /\ hand \cup {j} \in SUBSET Jobs /\ hand \ {j} \in SUBSET Jobs
      /\ (hand \cup {j}) \ {j} = hand \ {j} /\ (hand \ {j}) \ {j} = hand \ {j}
      /\ j \in hand \cup {j} /\ j \notin hand \ {j} /\ hand \ {j} \subseteq hand
  BY DEF Inv, JobsTypeOK, JobRecords, Held
<1>2. sent = [sent EXCEPT ![j] = n]
  BY <1>1
<1>3. CASE Take(j)
  <2> DEFINE q == [r EXCEPT !.at = "active"]
  <2>1. q \in JobRecords /\ Paid(q, n) /\ q.at \in Processing
    BY <1>1, <1>3 DEF Take, At, JobRecords, Places, Processing, Paid, Open, Extra, Ended
  <2>2. /\ job' = [job EXCEPT ![j] = q] /\ sent' = sent /\ UNCHANGED processVars
        /\ hand' = hand \cup {j} /\ process = "running"
    BY <1>3 DEF Take, Move
  <2> HIDE DEF q
  <2> QED
    BY <1>1, <1>2, <2>1, <2>2, OneJob
<1>4. CASE sendEmailVerifiy(j)
  <2> DEFINE q == [r EXCEPT !.at = "delivered"]
  <2>1. q \in JobRecords /\ Paid(q, n + 1) /\ q.at \in Processing
    BY <1>1, <1>4 DEF sendEmailVerifiy, At, JobRecords, Places, Processing, Paid, Open, Extra, Ended
  <2>2. /\ job' = [job EXCEPT ![j] = q] /\ sent' = [sent EXCEPT ![j] = n + 1]
        /\ UNCHANGED processVars /\ hand' = hand /\ j \in hand
    BY <1>4 DEF sendEmailVerifiy, Move
  <2>3. n + 1 \in Nat
    BY <1>1
  <2> HIDE DEF q
  <2> QED
    BY <1>1, <2>1, <2>2, <2>3, OneJob
<1>5. CASE Complete(j)
  <2> DEFINE q == [r EXCEPT !.at = "completed"]
  <2>1. q \in JobRecords /\ Paid(q, n) /\ q.at \notin Processing
    BY <1>1, <1>5 DEF Complete, At, JobRecords, Places, Processing, Paid, Open, Extra, Ended
  <2>2. /\ job' = [job EXCEPT ![j] = q] /\ sent' = sent /\ UNCHANGED processVars
        /\ hand' = hand \ {j}
    BY <1>5 DEF Complete, Move
  <2> HIDE DEF q
  <2> QED
    BY <1>1, <1>2, <2>1, <2>2, OneJob
<1>6. CASE Fail(j)
  <2> DEFINE q == [r EXCEPT !.made = @ + 1,
                            !.at = IF r.made + 1 < Attempts THEN "delayed" ELSE "failed"]
  <2>0. r.at \in Processing
    BY <1>1, <1>6 DEF Fail
  <2>1. q \in JobRecords /\ Paid(q, n) /\ q.at \notin Processing
    <3> DEFINE place == IF r.made + 1 < Attempts THEN "delayed" ELSE "failed"
    <3>1. r.made < Attempts /\ r.made \in Nat
      BY <1>1, <2>0 DEF JobRecords, Paid, Open, Processing, Ended
    <3>2. r.made + 1 \in 0..Attempts
      BY <3>1
    <3>3. place \in {"delayed", "failed"}
      OBVIOUS
    <3>4. place \in Places /\ place \notin Processing
      BY <3>3 DEF Places, Processing, Ended
    <3>5. q = [r EXCEPT !.made = r.made + 1, !.at = place]
      OBVIOUS
    <3>6. place \in Ended \/ (place = "delayed" /\ r.made + 1 < Attempts)
      BY DEF Ended
    <3> HIDE DEF place, q
    <3>7. /\ q \in JobRecords /\ q.at = place /\ q.made = r.made + 1 /\ q.stalls = r.stalls
      BY <1>1, <3>2, <3>4, <3>5 DEF JobRecords
    <3>8. Paid(q, n)
      BY <1>1, <2>0, <3>1, <3>6, <3>7 DEF JobRecords, Paid, Open, Extra, Ended, Processing
    <3> QED
      BY <3>4, <3>7, <3>8
  <2>2. /\ job' = [job EXCEPT ![j] = q] /\ sent' = sent /\ UNCHANGED processVars
        /\ hand' = hand \ {j}
    BY <1>1, <1>6 DEF Fail
  <2> HIDE DEF q
  <2> QED
    BY <1>1, <1>2, <2>1, <2>2, OneJob
<1>7. CASE Backoff(j)
  <2> DEFINE q == [r EXCEPT !.at = "waiting"]
  <2>1. q \in JobRecords /\ Paid(q, n) /\ q.at \notin Processing /\ j \notin hand
    BY <1>1, <1>7 DEF Backoff, At, JobRecords, Places, Processing, Paid, Open, Extra, Ended
  <2>2. job' = [job EXCEPT ![j] = q] /\ sent' = sent /\ UNCHANGED processVars /\ hand' = hand
    BY <1>7 DEF Backoff, Move
  <2> HIDE DEF q
  <2> QED
    BY <1>1, <1>2, <2>1, <2>2, OneJob
<1>8. CASE Stalled(j)
  <2>0. r.at \in Processing /\ j \notin hand /\ crashes > 0
    BY <1>8 DEF Stalled, Orphaned, Inv, Held
  <2>1. CASE r.stalls < MaxStalled
    <3> DEFINE q == [r EXCEPT !.stalls = @ + 1, !.at = "waiting"]
    <3>2. q \in JobRecords /\ Paid(q, n) /\ q.at \notin Processing
      <4> DEFINE s == [r EXCEPT !.stalls = @ + 1]
      <4>1. /\ s \in JobRecords /\ s.at = r.at
            /\ s.made = r.made /\ s.stalls = r.stalls + 1
        BY <1>1, <2>1 DEF JobRecords
      <4>2. q = [s EXCEPT !.at = "waiting"]
        OBVIOUS
      <4> HIDE DEF s, q
      <4>3. q \in JobRecords /\ q.at = "waiting" /\ q.made = s.made /\ q.stalls = s.stalls
        BY <4>1, <4>2 DEF JobRecords, Places
      <4> QED
        BY <1>1, <2>0, <4>1, <4>3 DEF JobRecords, Paid, Open, Extra, Ended, Processing
    <3>3. job' = [job EXCEPT ![j] = q] /\ sent' = sent /\ UNCHANGED processVars /\ hand' = hand
      BY <1>1, <1>8, <2>1 DEF Stalled
    <3> HIDE DEF q
    <3> QED
      BY <1>1, <1>2, <2>0, <3>2, <3>3, OneJob
  <2>2. CASE ~(r.stalls < MaxStalled)
    <3> DEFINE q == [r EXCEPT !.at = "failed"]
    <3>1. q \in JobRecords /\ Paid(q, n) /\ q.at \notin Processing
      BY <1>1, <1>8, <2>2 DEF Stalled, At, JobRecords, Places, Processing, Paid, Open, Extra, Ended
    <3>2. job' = [job EXCEPT ![j] = q] /\ sent' = sent /\ UNCHANGED processVars /\ hand' = hand
      BY <1>8, <2>2 DEF Stalled, Move
    <3> HIDE DEF q
    <3> QED
      BY <1>1, <1>2, <2>0, <3>1, <3>2, OneJob
  <2> QED
    BY <2>1, <2>2
<1>9. CASE Forget(j)
  <2>1. /\ NoJob \in JobRecords /\ Paid(NoJob, n) /\ NoJob.at \notin Processing /\ j \notin hand
    BY <1>1, <1>9 DEF Forget, JobRecords, NoJob, Places, Processing, Paid, Open, Extra, Ended
  <2>2. job' = [job EXCEPT ![j] = NoJob] /\ sent' = sent /\ UNCHANGED processVars /\ hand' = hand
    BY <1>9 DEF Forget
  <2> QED
    BY <1>1, <1>2, <2>1, <2>2, OneJob
<1> QED
  BY <1>3, <1>4, <1>5, <1>6, <1>7, <1>8, <1>9 DEF JobStep

(* A shutdown gets past the worker with empty hands only, so that its exit *)
(* takes nothing away.                                                     *)
LEMMA ProcessInv == ASSUME Inv, ProcessStep \/ Signal PROVE Inv'
<1> USE BoundsAssumption
<1>1. UNCHANGED <<jobVars, crashes>>
  BY DEF ProcessStep, CloseWorker, Exit, Ends, bootstrap, Signal
<1>2. JobsTypeOK'
  BY <1>1 DEF Inv, JobsTypeOK, jobVars, ProcessStep, CloseWorker, Exit, Ends, bootstrap, Signal
<1>3. \A j \in Jobs : Paid(job[j], sent[j])'
  BY <1>1 DEF Inv, Paid, jobVars
<1>4. hand' = hand
  BY DEF Inv, Held, ProcessStep, CloseWorker, Exit, Ends, bootstrap, Signal
<1>5. process' \in {"quitting", "down"} => hand = {}
  BY DEF Inv, Held, ProcessStep, CloseWorker, Exit, Ends, bootstrap, Signal
<1>6. Held'
  BY <1>1, <1>4, <1>5 DEF Inv, Held, Orphaned, jobVars
<1> QED
  BY <1>2, <1>3, <1>6 DEF Inv

(* A kill takes away what was in hand, and is counted.                     *)
LEMMA KillInv == ASSUME Inv, Kill PROVE Inv'
<1> USE BoundsAssumption
<1>1. /\ UNCHANGED jobVars /\ hand' = {} /\ process' = "down"
      /\ crashes' = crashes + 1 /\ crashes \in Nat
  BY DEF Inv, JobsTypeOK, Kill, Ends
<1>2. JobsTypeOK'
  BY <1>1 DEF Inv, JobsTypeOK, jobVars, Kill, Ends
<1>3. \A j \in Jobs : Paid(job[j], sent[j])'
  BY <1>1 DEF Inv, Paid, jobVars
<1>4. Held'
  BY <1>1 DEF Held
<1> QED
  BY <1>2, <1>3, <1>4 DEF Inv

LEMMA StepInv == Inv /\ [JobsNext]_queueVars => Inv'
<1> SUFFICES ASSUME Inv, [JobsNext]_queueVars PROVE Inv'
  OBVIOUS
<1>1. CASE UNCHANGED queueVars
  BY <1>1 DEF Inv, JobsTypeOK, Paid, Held, Orphaned, queueVars
<1>2. CASE JobsNext
  BY <1>2, AddInv, JobStepInv, ProcessInv, KillInv DEF JobsNext
<1> QED
  BY <1>1, <1>2

THEOREM Invariance == JobsSpec => []Inv
BY InitInv, StepInv, PTL DEF JobsSpec

(* Jobs, process and counters stay within their types: no job is attempted *)
(* or stalls oftener than BullMQ is configured for (base.queue.config.ts). *)
THEOREM TypeCorrect == JobsSpec => []JobsTypeOK
BY Invariance, PTL DEF Inv

(* One add mails its code at most attempts plus stalls times, whatever     *)
(* fails, is lost or is killed (email.worker.ts, email.service.ts).        *)
THEOREM MailsAreBounded == JobsSpec => []MailsBounded
<1>1. Inv => MailsBounded
  BY DEF Inv, Paid, MailsBounded
<1> QED
  BY <1>1, Invariance, PTL

(* However many signals come, and whatever is in hand then: without a kill *)
(* no job is ever active in Redis with nobody working on it, as the closing*)
(* worker finishes what it holds before the process exits (gracefulShutdown*)
(* of app.ts).                                                             *)
THEOREM ShutdownsOrphanNothing == JobsSpec => []OnlyKillsStall
<1>1. Inv => OnlyKillsStall
  BY DEF Inv, Held, Paid, OnlyKillsStall
<1> QED
  BY <1>1, Invariance, PTL
=============================================================================
