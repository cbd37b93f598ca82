----------------------------- MODULE EmailJobs -----------------------------
(***************************************************************************)
(* The mails with one-time codes as jobs of a BullMQ queue: addSendOtpJob  *)
(* (jobs/queues/email.queue.ts) with the retries of createBaseQueue        *)
(* (config/base.queue.config.ts), the worker (jobs/workers/                *)
(* email.worker.ts) with its processor, and what the process around them   *)
(* does: bootstrap, gracefulShutdown (app.ts) and a kill.                  *)
(*                                                                         *)
(* A job is identified by its address and code, so that an add for an id   *)
(* that Redis still keeps is ignored.  Jobs outlive the process; which of  *)
(* them it is working on is its memory, and ends with it.  The limit of    *)
(* ten jobs a second only delays them and is left out.                     *)
(***************************************************************************)
EXTENDS Integers, FiniteSets

CONSTANTS
  Emails,       \* the addresses
  Codes,        \* the codes; two requests may draw the same one
  Attempts,     \* attempts of a job
  MaxStalled,   \* BullMQ's maxStalledCount, 1 unless configured
  Concurrency,  \* jobs a worker processes at once
  MaxCrashes,   \* bound on kills of the process,
  MaxSignals    \* and on graceful shutdowns

ASSUME AttemptsAssumption == Attempts \in Nat \ {0} /\ MaxStalled \in Nat
ASSUME BoundsAssumption == Concurrency \in Nat \ {0} /\ MaxCrashes \in Nat /\ MaxSignals \in Nat

VARIABLES
  job,      \* the jobs in Redis
  process,  \* running, closing the worker, quitting Redis, or down
  hand,     \* the jobs the worker of this process is working on
  sent,     \* how often the mail of a job went out since it was added (history only)
  crashes,  \* kills so far,
  signals   \* and shutdowns

jobVars == <<job, sent>>
processVars == <<process, crashes, signals>>
queueVars == <<job, process, hand, sent, crashes, signals>>

Jobs == Emails \X Codes

(* Redis keeps a job whose mail went out as active, too: delivered is its  *)
(* history.  made and stalls are BullMQ's attemptsMade and stalledCounter. *)
Processing == {"active", "delivered"}
Ended == {"completed", "failed"}
Places == Processing \cup Ended \cup {"absent", "waiting", "delayed"}
NoJob == [at |-> "absent", made |-> 0, stalls |-> 0]

At(j, place) == job[j].at = place
Move(j, place) == job' = [job EXCEPT ![j].at = place]

(* A job that is active in Redis and that no process is working on.        *)
Orphaned(j) == job[j].at \in Processing /\ j \notin hand

JobsInit ==
  /\ job = [j \in Jobs |-> NoJob] /\ sent = [j \in Jobs |-> 0]
  /\ process = "running" /\ hand = {} /\ crashes = 0 /\ signals = 0

-----------------------------------------------------------------------------
(* The producer.  Its connection outlives disconnectRedis.                 *)
Add(j) ==
  /\ process # "down"
  /\ IF At(j, "absent")
       THEN /\ job' = [job EXCEPT ![j] = [NoJob EXCEPT !.at = "waiting"]]
            /\ sent' = [sent EXCEPT ![j] = 0]
       ELSE UNCHANGED jobVars
  /\ UNCHANGED <<hand, processVars>>

(* The worker.  A closing one takes no more jobs. *)
Take(j) ==
  /\ process = "running" /\ At(j, "waiting") /\ Cardinality(hand) < Concurrency
  /\ Move(j, "active") /\ hand' = hand \cup {j}
  /\ UNCHANGED <<sent, processVars>>

sendEmailVerifiy(j) ==
  /\ j \in hand /\ At(j, "active")
  /\ Move(j, "delivered")
  /\ sent' = [sent EXCEPT ![j] = @ + 1]
  /\ UNCHANGED <<hand, processVars>>

Complete(j) ==
  /\ j \in hand /\ At(j, "delivered")
  /\ Move(j, "completed") /\ hand' = hand \ {j}
  /\ UNCHANGED <<sent, processVars>>

(* Mutant: a failed attempt is not counted. *)
FailUncounted(j) ==
  /\ j \in hand
  /\ Move(j, "delayed") /\ hand' = hand \ {j}
  /\ UNCHANGED <<sent, processVars>>

(* EMAIL_SEND_FAILED, also when the mail went out and only the answer of   *)
(* the mail server was lost.                                               *)
Fail(j) ==
  /\ j \in hand
  /\ hand' = hand \ {j}
  /\ job' = [job EXCEPT ![j].made = @ + 1,
                        ![j].at = IF job[j].made + 1 < Attempts THEN "delayed" ELSE "failed"]
  /\ UNCHANGED <<sent, processVars>>

Backoff(j) ==
  /\ process = "running" /\ At(j, "delayed")
  /\ Move(j, "waiting")
  /\ UNCHANGED <<sent, hand, processVars>>

(* Mutant: the stalls are counted and not compared. *)
StalledAgain(j) ==
  /\ process = "running" /\ Orphaned(j)
  /\ job' = [job EXCEPT ![j].at = "waiting", ![j].stalls = @ + 1]
  /\ UNCHANGED <<sent, hand, processVars>>

(* Mutant: a job that stalled once too often is left where it is. *)
StalledOnce(j) ==
  /\ process = "running" /\ Orphaned(j) /\ job[j].stalls < MaxStalled
  /\ job' = [job EXCEPT ![j].at = "waiting", ![j].stalls = @ + 1]
  /\ UNCHANGED <<sent, hand, processVars>>

Stalled(j) ==
  /\ process = "running" /\ Orphaned(j)
  /\ IF job[j].stalls < MaxStalled
       THEN job' = [job EXCEPT ![j].stalls = @ + 1, ![j].at = "waiting"]
       ELSE Move(j, "failed")
  /\ UNCHANGED <<sent, hand, processVars>>

(* removeOnComplete, removeOnFail *)
Forget(j) ==
  /\ job[j].at \in Ended
  /\ job' = [job EXCEPT ![j] = NoJob]
  /\ UNCHANGED <<sent, hand, processVars>>

-----------------------------------------------------------------------------
(* The process: gracefulShutdown closes the worker, which waits for the    *)
(* jobs in hand, then quits the Redis client of the requests, then exits.  *)
Signal ==
  /\ process = "running" /\ signals < MaxSignals
  /\ process' = "closing" /\ signals' = signals + 1
  /\ UNCHANGED <<jobVars, hand, crashes>>

(* Mutant: nothing waits for the jobs in hand. *)
CloseWorkerAtOnce ==
  /\ process = "closing"
  /\ process' = "quitting"
  /\ UNCHANGED <<jobVars, hand, crashes, signals>>

CloseWorker ==
  /\ process = "closing" /\ hand = {}
  /\ process' = "quitting"
  /\ UNCHANGED <<jobVars, hand, crashes, signals>>

(* However a process ends, what it had in hand stays as it is in Redis.    *)
Ends == process' = "down" /\ hand' = {} /\ UNCHANGED <<jobVars, signals>>

Exit == process = "quitting" /\ Ends /\ UNCHANGED crashes

Kill == process # "down" /\ crashes < MaxCrashes /\ Ends /\ crashes' = crashes + 1

bootstrap ==
  /\ process = "down"
  /\ process' = "running"
  /\ UNCHANGED <<jobVars, hand, crashes, signals>>

JobStep(j) == Take(j) \/ sendEmailVerifiy(j) \/ Complete(j) \/ Fail(j) \/ Backoff(j) \/ Stalled(j)
ProcessStep == CloseWorker \/ Exit \/ bootstrap

JobsNext ==
  \/ \E j \in Jobs : Add(j) \/ JobStep(j) \/ Forget(j)
  \/ ProcessStep \/ Signal \/ Kill

JobsSpec == JobsInit /\ [][JobsNext]_queueVars

(* The container restarts whatever ended (restart: always), a mail server  *)
(* answers or times out, and a running worker goes on with its jobs, taking*)
(* the waiting ones in their order.  That kills end is the bound on them.  *)
JobsFairSpec ==
  /\ JobsSpec
  /\ WF_queueVars(ProcessStep)
  /\ \A j \in Jobs : WF_queueVars(JobStep(j)) /\ SF_queueVars(Take(j))

-----------------------------------------------------------------------------

JobsTypeOK ==
  /\ job \in [Jobs -> [at : Places, made : 0..Attempts, stalls : 0..MaxStalled]]
  /\ process \in {"running", "closing", "quitting", "down"}
  /\ hand \in SUBSET Jobs
  /\ sent \in [Jobs -> Nat]
  /\ crashes \in 0..MaxCrashes /\ signals \in 0..MaxSignals

(* However attempts, lost answers of the mail server and kills mix, one    *)
(* add of a job mails its code a bounded number of times: attempts and     *)
(* stalls share one count (attempts: 3 in base.queue.config.ts).           *)
MailsBounded == \A j \in Jobs : sent[j] <= Attempts + MaxStalled

(* A shutdown leaves no job active in Redis that nobody works on, whatever *)
(* was in hand, retried or added when the signal came, so no mail goes out *)
(* again for it: only a kill does that ("wait for active jobs to finish",  *)
(* app.ts).                                                                *)
OnlyKillsStall == \A j \in Jobs : Orphaned(j) \/ job[j].stalls > 0 => crashes > 0

(* Every job that was added is completed or gives up, whatever fails.      *)
JobsEnd == \A j \in Jobs : At(j, "waiting") ~> job[j].at \in Ended \cup {"absent"}
=============================================================================
