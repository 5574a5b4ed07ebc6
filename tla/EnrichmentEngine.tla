-------------------------- MODULE EnrichmentEngine --------------------------
(***************************************************************************)
(* The enrichment engine: the job and task tables in Postgres, and the     *)
(* worker loops, lease reapers and circuit breakers of every server        *)
(* process that works on them (worker-pool.ts, task-queue.ts,              *)
(* lease-reaper.ts, job.repository.ts, circuit-breaker.ts).                *)
(*                                                                         *)
(* Grain: one action per committed transaction, or per stretch of code     *)
(* between two awaits.  A worker between a commit and its next statement   *)
(* is a state of its own, so everything the other workers, the reaper, a   *)
(* crash or a new job can do in that gap is explored.                      *)
(*                                                                         *)
(* Time is abstract: a retry becomes due, and a lease expires, at any      *)
(* moment after it was scheduled.  Pacing (rate-limiter.ts), the order in  *)
(* which due tasks are handed out and the NOTIFY that follows a change are *)
(* left out: no state here is read from them.                              *)
(***************************************************************************)
EXTENDS RetryPolicy, FiniteSets

CONSTANTS
  Jobs,          (* jobs that may be created, each at most once             *)
  Tasks,         (* one task per (job, store)                               *)
  JobOf,         (* enrichment_tasks.job_id                                 *)
  Workers,       (* worker loops, of all processes                          *)
  Processes,     (* server processes: a pool, a breaker and a reaper each   *)
  ProcOf,        (* the process a worker loop runs in                       *)
  MaxAttempts,   (* MAX_ATTEMPTS                                            *)
  MinFailures,   (* BREAKER_MIN_FAILURES                                    *)
  MaxFaults,     (* bound: crashes and unexpected errors in a behaviour     *)
  NoTask         (* held by a worker that has no task                       *)

ASSUME JobsAssumption == /\ JobOf \in [Tasks -> Jobs]
                         /\ \A j \in Jobs : \E t \in Tasks : JobOf[t] = j
ASSUME WorkersAssumption == ProcOf \in [Workers -> Processes]
ASSUME BudgetAssumption == /\ MaxAttempts \in Nat \ {0}
                           /\ MinFailures \in Nat \ {0}
                           /\ MaxFaults \in Nat
ASSUME NoTaskAssumption == NoTask \notin Tasks

VARIABLES
  (* the database *)
  jobStatus,     (* enrichment_jobs.status, "ABSENT" before the insert      *)
  status,        (* enrichment_tasks.status, likewise                       *)
  attempts,      (* enrichment_tasks.attempts                               *)
  due,           (* next_attempt_at <= now()                                *)
  leaseToken,    (* 0 is NULL; else the number of the claim that drew it    *)
  expired,       (* lease_expires_at < now()                                *)
  metrics,       (* the attempt whose answer store_metrics holds, 0 for none*)
  audit,         (* rows of enrichment_attempts                             *)
  (* the worker loops *)
  pc,            (* where each loop stands                                  *)
  held,          (* the ClaimedTask of each loop: its task...               *)
  attemptOf,     (* ...and its attempt number, which also names its token   *)
  outcome,       (* how its API call failed                                 *)
  finalFail,     (* its recordFailure was saved and failed the task         *)
  (* the processes *)
  streak,        (* the breaker's streakFailures, capped at MinFailures     *)
  reaper,        (* where each lease reaper stands                          *)
  faults         (* crashes and errors so far                               *)

tables  == <<jobStatus, status, attempts, due, leaseToken, expired, metrics, audit>>
workers == <<pc, held, attemptOf, outcome, finalFail>>
vars    == <<jobStatus, status, attempts, due, leaseToken, expired, metrics, audit,
             pc, held, attemptOf, outcome, finalFail, streak, reaper, faults>>

JobStatus == {"ABSENT", "RUNNING", "COMPLETED", "COMPLETED_WITH_FAILURES", "FAILED_SYSTEMIC"}
Terminal  == {"COMPLETED", "COMPLETED_WITH_FAILURES", "FAILED_SYSTEMIC"}
TaskStatus == {"ABSENT", "PENDING", "IN_FLIGHT", "SUCCEEDED", "FAILED", "ABORTED"}
Open      == {"PENDING", "IN_FLIGHT"}
Outcomes  == {"SUCCEEDED", "RATE_LIMITED", "CLIENT_ERROR", "UNHEALTHY", "STALE_IGNORED"}

(* idle: waiting for a slot or polling; calling: the API call is out;        *)
(* saving / recording: about to run recordSuccess / recordFailure;           *)
(* judging: the failure is recorded, the breaker not told; stopping: the     *)
(* breaker tripped; closing: about to run finalizeFinishedJobs.              *)
Steps == {"idle", "calling", "saving", "recording", "judging", "stopping", "closing"}

AttemptRows == [task : Tasks, attempt : 1..MaxAttempts, outcome : Outcomes]

TypeOK ==
  /\ jobStatus \in [Jobs -> JobStatus]
  /\ status \in [Tasks -> TaskStatus]
  /\ attempts \in [Tasks -> 0..MaxAttempts]
  /\ due \in [Tasks -> BOOLEAN]
  /\ leaseToken \in [Tasks -> 0..MaxAttempts]
  /\ expired \in [Tasks -> BOOLEAN]
  /\ metrics \in [Tasks -> 0..MaxAttempts]
  /\ audit \subseteq AttemptRows
  /\ pc \in [Workers -> Steps]
  /\ held \in [Workers -> Tasks \cup {NoTask}]
  /\ attemptOf \in [Workers -> 0..MaxAttempts]
  /\ outcome \in [Workers -> FailureKinds \cup {"none"}]
  /\ finalFail \in [Workers -> BOOLEAN]
  /\ streak \in [Processes -> 0..MinFailures]
  /\ reaper \in [Processes -> {"idle", "closing"}]
  /\ faults \in 0..MaxFaults

Init ==
  /\ jobStatus = [j \in Jobs |-> "ABSENT"]
  /\ status = [t \in Tasks |-> "ABSENT"]
  /\ attempts = [t \in Tasks |-> 0]
  /\ due = [t \in Tasks |-> FALSE]
  /\ leaseToken = [t \in Tasks |-> 0]
  /\ expired = [t \in Tasks |-> FALSE]
  /\ metrics = [t \in Tasks |-> 0]
  /\ audit = {}
  /\ pc = [w \in Workers |-> "idle"]
  /\ held = [w \in Workers |-> NoTask]
  /\ attemptOf = [w \in Workers |-> 0]
  /\ outcome = [w \in Workers |-> "none"]
  /\ finalFail = [w \in Workers |-> FALSE]
  /\ streak = [p \in Processes |-> 0]
  /\ reaper = [p \in Processes |-> "idle"]
  /\ faults = 0

TasksOf(j) == {t \in Tasks : JobOf[t] = j}

-----------------------------------------------------------------------------
(* A mutated form of NoneActive: an index that is unique per job only.      *)
OneRowPerJob(j) == jobStatus[j] # "RUNNING"

(* The partial unique index over active jobs, whichever job the row is of.  *)
NoneActive(j) == \A k \in Jobs : jobStatus[k] # "RUNNING"

(* POST /jobs: one transaction inserts the job and a PENDING task per store *)
(* of its upload; the index refuses it while another job is active.         *)
StartJob(j) ==
  /\ jobStatus[j] = "ABSENT"
  /\ NoneActive(j)
  /\ jobStatus' = [jobStatus EXCEPT ![j] = "RUNNING"]
  /\ status' = [t \in Tasks |-> IF JobOf[t] = j THEN "PENDING" ELSE status[t]]
  /\ due' = [t \in Tasks |-> IF JobOf[t] = j THEN TRUE ELSE due[t]]
  /\ UNCHANGED <<attempts, leaseToken, expired, metrics, audit, workers,
                 streak, reaper, faults>>

(* Mutated forms of Finished: without the status guard; counting only the   *)
(* queued tasks as unfinished.                                              *)
FinishedWhateverStatus(j) == /\ jobStatus[j] # "ABSENT"
                             /\ \A t \in TasksOf(j) : status[t] \notin Open
FinishedWhileInFlight(j) == /\ jobStatus[j] = "RUNNING"
                            /\ \A t \in TasksOf(j) : status[t] # "PENDING"

(* Closes every RUNNING job that has no open task left.                     *)
Finished(j) == /\ jobStatus[j] = "RUNNING"
               /\ \A t \in TasksOf(j) : status[t] \notin Open

(* Mutated form of ClosedAs: only given-up stores count as failures.        *)
ClosedAsUnlessAborted(j) ==
  IF \E t \in TasksOf(j) : status[t] \in {"ABORTED"}
  THEN "COMPLETED_WITH_FAILURES" ELSE "COMPLETED"

ClosedAs(j) ==
  IF \E t \in TasksOf(j) : status[t] \in {"FAILED", "ABORTED"}
  THEN "COMPLETED_WITH_FAILURES" ELSE "COMPLETED"

FinalizeFinishedJobs ==
  jobStatus' = [j \in Jobs |-> IF Finished(j) THEN ClosedAs(j) ELSE jobStatus[j]]

(* Stops every job RUNNING at this moment and gives up on its open tasks.   *)
FailRunningJobsSystemically ==
  /\ jobStatus' = [j \in Jobs |->
       IF jobStatus[j] = "RUNNING" THEN "FAILED_SYSTEMIC" ELSE jobStatus[j]]
  /\ LET stopped == {t \in Tasks : jobStatus[JobOf[t]] = "RUNNING" /\ status[t] \in Open}
     IN /\ status' = [t \in Tasks |-> IF t \in stopped THEN "ABORTED" ELSE status[t]]
        /\ leaseToken' = [t \in Tasks |-> IF t \in stopped THEN 0 ELSE leaseToken[t]]
        /\ expired' = [t \in Tasks |-> IF t \in stopped THEN FALSE ELSE expired[t]]

-----------------------------------------------------------------------------
(* The worker loop.                                                         *)

Claimable(t) == /\ status[t] = "PENDING"
                /\ due[t]
                /\ jobStatus[JobOf[t]] = "RUNNING"

(* claimNext.  attempts only grows, so the attempt a claim starts names its *)
(* fresh lease token.  Any due task may come first: SKIP LOCKED passes over *)
(* the ones another transaction has locked.                                 *)
ClaimNext(w, t) ==
  /\ pc[w] = "idle"
  /\ Claimable(t)
  /\ status' = [status EXCEPT ![t] = "IN_FLIGHT"]
  /\ attempts' = [attempts EXCEPT ![t] = @ + 1]
  /\ leaseToken' = [leaseToken EXCEPT ![t] = attempts[t] + 1]
  /\ expired' = [expired EXCEPT ![t] = FALSE]
  /\ pc' = [pc EXCEPT ![w] = "calling"]
  /\ held' = [held EXCEPT ![w] = t]
  /\ attemptOf' = [attemptOf EXCEPT ![w] = attempts[t] + 1]
  /\ UNCHANGED <<jobStatus, due, metrics, audit, outcome, finalFail,
                 streak, reaper, faults>>

(* Mutated form of ClaimNothing: an idle worker only polls.                 *)
ClaimNothingAndPoll(w) ==
  /\ pc[w] = "idle"
  /\ \A t \in Tasks : ~Claimable(t)
  /\ UNCHANGED vars

(* Nothing due: "a good moment to close jobs whose last task just finished".*)
ClaimNothing(w) ==
  /\ pc[w] = "idle"
  /\ \A t \in Tasks : ~Claimable(t)
  /\ pc' = [pc EXCEPT ![w] = "closing"]
  /\ UNCHANGED <<tables, held, attemptOf, outcome, finalFail, streak, reaper, faults>>

(* The call succeeded: the breaker is told before the result is saved.      *)
AnswerSuccess(w) ==
  /\ pc[w] = "calling"
  /\ pc' = [pc EXCEPT ![w] = "saving"]
  /\ streak' = [streak EXCEPT ![ProcOf[w]] = 0]
  /\ UNCHANGED <<tables, held, attemptOf, outcome, finalFail, reaper, faults>>

AnswerFailure(w, kind) ==
  /\ pc[w] = "calling"
  /\ pc' = [pc EXCEPT ![w] = "recording"]
  /\ outcome' = [outcome EXCEPT ![w] = kind]
  /\ UNCHANGED <<tables, held, attemptOf, finalFail, streak, reaper, faults>>

(* Mutated form of HoldsLease: the token is not compared.                   *)
HoldsAnyLease(w) == status[held[w]] = "IN_FLIGHT"

(* The guard both writes share: id, lease_token and status all still match. *)
HoldsLease(w) == /\ status[held[w]] = "IN_FLIGHT"
                 /\ leaseToken[held[w]] = attemptOf[w]

AttemptRow(w, what) == [task |-> held[w], attempt |-> attemptOf[w], outcome |-> what]

(* The loop comes back to the top with nothing in hand.                     *)
Release(w) ==
  /\ pc' = [pc EXCEPT ![w] = "idle"]
  /\ held' = [held EXCEPT ![w] = NoTask]
  /\ attemptOf' = [attemptOf EXCEPT ![w] = 0]
  /\ outcome' = [outcome EXCEPT ![w] = "none"]
  /\ finalFail' = [finalFail EXCEPT ![w] = FALSE]

(* The task's lease ends and the task gets its new status.                  *)
EndLease(t, new) ==
  /\ status' = [status EXCEPT ![t] = new]
  /\ leaseToken' = [leaseToken EXCEPT ![t] = 0]
  /\ expired' = [expired EXCEPT ![t] = FALSE]

SaveSuccess(w) ==
  /\ HoldsLease(w)
  /\ EndLease(held[w], "SUCCEEDED")
  /\ metrics' = [metrics EXCEPT ![held[w]] = IF @ = 0 THEN attemptOf[w] ELSE @]
  /\ audit' = audit \cup {AttemptRow(w, "SUCCEEDED")}
  /\ pc' = [pc EXCEPT ![w] = "closing"]
  /\ UNCHANGED <<jobStatus, attempts, due, held, attemptOf, outcome, finalFail>>

IgnoreLateSuccess(w) ==
  /\ ~HoldsLease(w)
  /\ audit' = audit \cup {AttemptRow(w, "STALE_IGNORED")}
  /\ Release(w)
  /\ UNCHANGED <<jobStatus, status, attempts, due, leaseToken, expired, metrics>>

RecordSuccess(w) ==
  /\ pc[w] = "saving"
  /\ SaveSuccess(w) \/ IgnoreLateSuccess(w)
  /\ UNCHANGED <<streak, reaper, faults>>

Decision(w) == DecideAfterFailure(outcome[w], attemptOf[w], MaxAttempts)

ScheduleRetry(w) ==
  /\ HoldsLease(w)
  /\ Decision(w) = "retry"
  /\ EndLease(held[w], "PENDING")
  /\ due' = [due EXCEPT ![held[w]] = FALSE]
  /\ audit' = audit \cup {AttemptRow(w, AttemptOutcomeOf(outcome[w]))}
  /\ UNCHANGED finalFail

FailForGood(w) ==
  /\ HoldsLease(w)
  /\ Decision(w) = "fail"
  /\ EndLease(held[w], "FAILED")
  /\ audit' = audit \cup {AttemptRow(w, AttemptOutcomeOf(outcome[w]))}
  /\ finalFail' = [finalFail EXCEPT ![w] = TRUE]
  /\ UNCHANGED due

IgnoreLateFailure(w) ==
  /\ ~HoldsLease(w)
  /\ audit' = audit \cup {AttemptRow(w, "STALE_IGNORED")}
  /\ UNCHANGED <<status, leaseToken, expired, due, finalFail>>

RecordFailure(w) ==
  /\ pc[w] = "recording"
  /\ ScheduleRetry(w) \/ FailForGood(w) \/ IgnoreLateFailure(w)
  /\ pc' = [pc EXCEPT ![w] = "judging"]
  /\ UNCHANGED <<jobStatus, attempts, metrics, held, attemptOf, outcome,
                 streak, reaper, faults>>

-----------------------------------------------------------------------------
(* CircuitBreaker.record of a failure, and what process() does with the     *)
(* verdict.  Every failure is judged, late ones too.  How much time passed  *)
(* is left open: a quiet gap may start the streak anew, and a streak of     *)
(* MinFailures or more may or may not have lasted windowMs yet (a streak's  *)
(* first failure has lasted 0 ms, and windowMs is positive).  That the      *)
(* breaker takes no other step is CircuitBreaker's EngineAssumption.        *)

(* Mutated form of IgnoredByBreaker: a rejected request counts.             *)
IgnoresOnlyPacing(kind) == kind = "rate_limited"

(* 429s are our pacing and other 4xx our request: neither says anything     *)
(* about the API's health.                                                  *)
IgnoredByBreaker(kind) == kind \in {"rate_limited", "client_error"}

Saturated(n) == IF n < MinFailures THEN n ELSE MinFailures

Untripped(w) ==
  /\ IF finalFail[w]
       THEN /\ pc' = [pc EXCEPT ![w] = "closing"]
            /\ UNCHANGED <<held, attemptOf, outcome, finalFail>>
       ELSE Release(w)

JudgeIgnored(w) ==
  /\ IgnoredByBreaker(outcome[w])
  /\ Untripped(w)
  /\ UNCHANGED streak

JudgeCounted(w) ==
  /\ ~IgnoredByBreaker(outcome[w])
  /\ \E before \in {0, streak[ProcOf[w]]} :
       streak' = [streak EXCEPT ![ProcOf[w]] = Saturated(before + 1)]
  /\ Untripped(w)

JudgeTripped(w) ==
  /\ ~IgnoredByBreaker(outcome[w])
  /\ streak[ProcOf[w]] > 0
  /\ streak[ProcOf[w]] + 1 >= MinFailures
  /\ streak' = [streak EXCEPT ![ProcOf[w]] = 0]
  /\ pc' = [pc EXCEPT ![w] = "stopping"]
  /\ UNCHANGED <<held, attemptOf, outcome, finalFail>>

Judge(w) ==
  /\ pc[w] = "judging"
  /\ JudgeIgnored(w) \/ JudgeCounted(w) \/ JudgeTripped(w)
  /\ UNCHANGED <<tables, reaper, faults>>

StopJobs(w) ==
  /\ pc[w] = "stopping"
  /\ FailRunningJobsSystemically
  /\ Release(w)
  /\ UNCHANGED <<attempts, due, metrics, audit, streak, reaper, faults>>

CloseJobs(w) ==
  /\ pc[w] = "closing"
  /\ FinalizeFinishedJobs
  /\ Release(w)
  /\ UNCHANGED <<status, attempts, due, leaseToken, expired, metrics, audit,
                 streak, reaper, faults>>

(* Mutated form of WorkerError: a write whose outcome is unknown is retried.*)
WorkerErrorRetriesWrite(w) ==
  /\ pc[w] = "judging"
  /\ faults < MaxFaults
  /\ faults' = faults + 1
  /\ pc' = [pc EXCEPT ![w] = "recording"]
  /\ UNCHANGED <<tables, held, attemptOf, outcome, finalFail, streak, reaper>>

(* runLoop's catch: any awaited statement of tick() threw, after its commit *)
(* or instead of it.  The loop backs off and starts over; a lease it had    *)
(* taken stays behind in the table.                                         *)
WorkerError(w) ==
  /\ pc[w] # "idle"
  /\ faults < MaxFaults
  /\ faults' = faults + 1
  /\ Release(w)
  /\ UNCHANGED <<tables, streak, reaper>>

-----------------------------------------------------------------------------
(* The lease reaper of process p: one statement returns every task whose    *)
(* lease has expired; jobs are closed only if that failed a task for good.  *)

Reclaimed == {t \in Tasks : status[t] = "IN_FLIGHT" /\ expired[t]}

(* Mutated form of GivenUp: off by one.                                     *)
GivenUpTooLate(t) == attempts[t] > MaxAttempts

GivenUp(t) == attempts[t] >= MaxAttempts

Reap(p) ==
  /\ reaper[p] = "idle"
  /\ Reclaimed # {}
  /\ status' = [t \in Tasks |->
       IF t \in Reclaimed THEN IF GivenUp(t) THEN "FAILED" ELSE "PENDING"
                          ELSE status[t]]
  /\ leaseToken' = [t \in Tasks |-> IF t \in Reclaimed THEN 0 ELSE leaseToken[t]]
  /\ expired' = [t \in Tasks |-> IF t \in Reclaimed THEN FALSE ELSE expired[t]]
  /\ due' = [t \in Tasks |-> IF t \in Reclaimed THEN TRUE ELSE due[t]]
  /\ reaper' = [reaper EXCEPT ![p] =
       IF \E t \in Reclaimed : GivenUp(t) THEN "closing" ELSE "idle"]
  /\ UNCHANGED <<jobStatus, attempts, metrics, audit, workers, streak, faults>>

ReaperCloses(p) ==
  /\ reaper[p] = "closing"
  /\ FinalizeFinishedJobs
  /\ reaper' = [reaper EXCEPT ![p] = "idle"]
  /\ UNCHANGED <<status, attempts, due, leaseToken, expired, metrics, audit,
                 workers, streak, faults>>

(* runReaper's catch, between the reclaiming statement and finalize.        *)
ReaperError(p) ==
  /\ reaper[p] = "closing"
  /\ faults < MaxFaults
  /\ faults' = faults + 1
  /\ reaper' = [reaper EXCEPT ![p] = "idle"]
  /\ UNCHANGED <<tables, workers, streak>>

(* Process p dies and is started again: its loops, its breaker's streak and *)
(* its reaper begin afresh, the database keeps what was committed.          *)
Crash(p) ==
  /\ faults < MaxFaults
  /\ faults' = faults + 1
  /\ pc' = [w \in Workers |-> IF ProcOf[w] = p THEN "idle" ELSE pc[w]]
  /\ held' = [w \in Workers |-> IF ProcOf[w] = p THEN NoTask ELSE held[w]]
  /\ attemptOf' = [w \in Workers |-> IF ProcOf[w] = p THEN 0 ELSE attemptOf[w]]
  /\ outcome' = [w \in Workers |-> IF ProcOf[w] = p THEN "none" ELSE outcome[w]]
  /\ finalFail' = [w \in Workers |-> IF ProcOf[w] = p THEN FALSE ELSE finalFail[w]]
  /\ streak' = [streak EXCEPT ![p] = 0]
  /\ reaper' = [reaper EXCEPT ![p] = "idle"]
  /\ UNCHANGED tables

-----------------------------------------------------------------------------
(* The clock.                                                               *)

RetryBecomesDue(t) ==
  /\ status[t] = "PENDING"
  /\ ~due[t]
  /\ due' = [due EXCEPT ![t] = TRUE]
  /\ UNCHANGED <<jobStatus, status, attempts, leaseToken, expired, metrics, audit,
                 workers, streak, reaper, faults>>

LeaseExpires(t) ==
  /\ status[t] = "IN_FLIGHT"
  /\ ~expired[t]
  /\ expired' = [expired EXCEPT ![t] = TRUE]
  /\ UNCHANGED <<jobStatus, status, attempts, due, leaseToken, metrics, audit,
                 workers, streak, reaper, faults>>

-----------------------------------------------------------------------------
WorkerStep(w) ==
  \/ \E t \in Tasks : ClaimNext(w, t)
  \/ ClaimNothing(w)
  \/ AnswerSuccess(w)
  \/ \E kind \in FailureKinds : AnswerFailure(w, kind)
  \/ RecordSuccess(w)
  \/ RecordFailure(w)
  \/ Judge(w)
  \/ StopJobs(w)
  \/ CloseJobs(w)

ReaperStep(p) == Reap(p) \/ ReaperCloses(p)

Tick(t) == RetryBecomesDue(t) \/ LeaseExpires(t)

Next ==
  \/ \E j \in Jobs : StartJob(j)
  \/ \E w \in Workers : WorkerStep(w) \/ WorkerError(w)
  \/ \E p \in Processes : ReaperStep(p) \/ ReaperError(p) \/ Crash(p)
  \/ \E t \in Tasks : Tick(t)

Spec == Init /\ [][Next]_vars

(* Loops and reapers never stop by themselves (every error is caught), API  *)
(* calls end by their timeout, and time passes.  Nobody has to start a job, *)
(* and no fault has to happen.                                              *)
Fairness ==
  /\ \A w \in Workers : WF_vars(WorkerStep(w))
  /\ \A p \in Processes : WF_vars(ReaperStep(p))
  /\ \A t \in Tasks : WF_vars(Tick(t))

FairSpec == Spec /\ Fairness
-----------------------------------------------------------------------------
(* Safety.                                                                  *)

Busy(w) == pc[w] \in {"calling", "saving", "recording"}

(* store_metrics holds the answer of the task's latest attempt, and of no   *)
(* other: exactly the SUCCEEDED tasks have metrics, they came from the      *)
(* attempt claimed last, and the audit trail agrees.  An answer that comes  *)
(* back after its lease was reclaimed never leaves its numbers behind       *)
(* (task-queue.ts:110-175, "a late answer from a reclaimed attempt").       *)
MetricsFromLatestAttempt ==
  \A t \in Tasks :
    /\ status[t] = "SUCCEEDED" => metrics[t] = attempts[t] /\ metrics[t] # 0
    /\ status[t] # "SUCCEEDED" => metrics[t] = 0
    /\ \A n \in 1..MaxAttempts :
         [task |-> t, attempt |-> n, outcome |-> "SUCCEEDED"] \in audit
           <=> metrics[t] = n

(* The attempt budget: a task waiting in the queue still has an attempt     *)
(* left, so no interleaving of retries, reclaimed leases and restarts calls *)
(* the API more than MaxAttempts times for one store (lease-reaper.ts:16-17,*)
(* retry-policy.ts:83).                                                     *)
AttemptBudget ==
  \A t \in Tasks : /\ attempts[t] <= MaxAttempts
                   /\ status[t] = "PENDING" => attempts[t] < MaxAttempts

(* A store is given up only for a reason: its budget is spent, or the API   *)
(* rejected its latest request; never because an outdated attempt failed.   *)
FailedForAReason ==
  \A t \in Tasks : status[t] = "FAILED" =>
    \/ attempts[t] = MaxAttempts
    \/ [task |-> t, attempt |-> attempts[t], outcome |-> "CLIENT_ERROR"] \in audit

(* An HTTP attempt is written to the audit trail at most once, whatever     *)
(* reclaims its lease or repeats its task meanwhile: attempts have one row  *)
(* at most, and one whose answer is still to be recorded has none.          *)
AttemptLoggedOnce ==
  /\ \A r1, r2 \in audit :
       r1.task = r2.task /\ r1.attempt = r2.attempt => r1 = r2
  /\ \A w \in Workers : Busy(w) =>
       \A r \in audit : ~(r.task = held[w] /\ r.attempt = attemptOf[w])

(* A job is stopped as systemically broken only after MinFailures failed    *)
(* calls: the attempts the breaker counts are all on record (README,        *)
(* "Circuit breaker"; circuit-breaker.ts:58).                               *)
CountedFailures == {r \in audit : r.outcome \in {"UNHEALTHY", "STALE_IGNORED"}}

SystemicStopNeedsFailures ==
  (\E j \in Jobs : jobStatus[j] = "FAILED_SYSTEMIC") =>
    Cardinality(CountedFailures) >= MinFailures

(* No step revises what was settled: a store's result, the metrics, a final *)
(* job status and the audit trail only ever grow, and no attempt is counted *)
(* for a job that is over, however late an answer, a reaper, a finalizer or *)
(* a second breaker verdict comes ("a terminal job stays terminal",         *)
(* job.repository.ts:235-240).                                              *)
KeepsSettled ==
  /\ \A j \in Jobs : jobStatus[j] \in Terminal =>
       /\ jobStatus'[j] = jobStatus[j]
       /\ \A t \in TasksOf(j) : attempts'[t] = attempts[t]
  /\ \A t \in Tasks : status[t] \in {"SUCCEEDED", "FAILED", "ABORTED"} =>
       status'[t] = status[t]
  /\ \A t \in Tasks : metrics[t] # 0 => metrics'[t] = metrics[t]
  /\ audit \subseteq audit'

NothingSettledChanges == [][KeepsSettled]_vars

-----------------------------------------------------------------------------
(* The inductive invariant behind these: what the tables, the loops and the *)
(* audit trail know of each other between any two steps.                    *)

(* 0001_initial.ts:67-70: a task is leased if and only if it is IN_FLIGHT   *)
(* (a write that broke the constraint would throw); the lease belongs to    *)
(* the attempt counted last.                                                *)
LeaseMatchesStatus ==
  \A t \in Tasks : /\ status[t] = "IN_FLIGHT" <=> leaseToken[t] # 0
                   /\ leaseToken[t] # 0 => leaseToken[t] = attempts[t]

OneActiveJob ==
  \A j, k \in Jobs : jobStatus[j] = "RUNNING" /\ jobStatus[k] = "RUNNING" => j = k

(* A loop between its claim and its write has a task and one of its         *)
(* attempts, which no other loop has.                                       *)
ClaimsAreExclusive ==
  \A w \in Workers : Busy(w) =>
    /\ held[w] \in Tasks
    /\ attemptOf[w] \in 1..attempts[held[w]]
    /\ pc[w] = "recording" => outcome[w] \in FailureKinds
    /\ \A v \in Workers :
         Busy(v) /\ held[v] = held[w] /\ attemptOf[v] = attemptOf[w] => v = w

AuditIsOfClaims == \A r \in audit : r.attempt <= attempts[r.task]

TasksMatchJob ==
  \A t \in Tasks :
    /\ jobStatus[JobOf[t]] = "ABSENT" <=> status[t] = "ABSENT"
    /\ jobStatus[JobOf[t]] # "RUNNING" => status[t] \notin Open
    /\ jobStatus[JobOf[t]] # "FAILED_SYSTEMIC" => status[t] # "ABORTED"
    /\ jobStatus[JobOf[t]] = "COMPLETED" => status[t] = "SUCCEEDED"
    /\ status[t] = "ABSENT" => attempts[t] = 0

TablesInv ==
  /\ TypeOK
  /\ LeaseMatchesStatus
  /\ AttemptBudget
  /\ OneActiveJob
  /\ ClaimsAreExclusive
  /\ AuditIsOfClaims
  /\ AttemptLoggedOnce
  /\ MetricsFromLatestAttempt
  /\ FailedForAReason
  /\ TasksMatchJob

(* What the breakers have counted, and what is about to be told them, is on *)
(* record: no breaker's streak and unjudged failures outnumber the rows.    *)
Unjudged == {w \in Workers : pc[w] = "judging" /\ ~IgnoredByBreaker(outcome[w])}

StreaksAreOnRecord ==
  /\ IsFiniteSet(audit) /\ IsFiniteSet(Unjudged)
  /\ \A p \in Processes :
       streak[p] + Cardinality(Unjudged) <= Cardinality(CountedFailures)
  /\ (\E w \in Workers : pc[w] = "stopping") =>
       Cardinality(CountedFailures) >= MinFailures

IndInv == TablesInv /\ StreaksAreOnRecord /\ SystemicStopNeedsFailures

-----------------------------------------------------------------------------
(* The engine implements the contract.  A store counts as enriched when its *)
(* metrics are stored, not when its task says so.                           *)
ResultOf(t) ==
  CASE metrics[t] # 0                -> "enriched"
    [] status[t] = "ABSENT"          -> "absent"
    [] status[t] = "FAILED"          -> "failed"
    [] status[t] = "ABORTED"         -> "aborted"
    [] OTHER                         -> "open"

Contract == INSTANCE JobContract
              WITH jobs <- jobStatus, results <- [t \in Tasks |-> ResultOf(t)]

(* Every step of the engine is a step of JobContract or changes nothing     *)
(* there: one active job, one unrevised result per store, a final status    *)
(* that tells the truth about the stores at that moment.                    *)
ImplementsContract == Contract!ContractSpec

(* And so it keeps what the contract implies: statuses agree with results,  *)
(* and a job that completed with failures has a failed store to show.       *)
ContractPromises == Contract!StatusMatchesResults /\ Contract!FailuresHaveACulprit

-----------------------------------------------------------------------------
(* Liveness, under FairSpec.                                                *)

(* Every job ends, whatever the API answers and whichever process died or   *)
(* lost its database with leases in hand ("the loop stays bounded",         *)
(* lease-reaper.ts:17).                                                     *)
JobsEnd == \A j \in Jobs : jobStatus[j] = "RUNNING" ~> jobStatus[j] \in Terminal

-----------------------------------------------------------------------------
(* What the repository says of the engine and the engine does not do.       *)

(* README: "Every attempt is also recorded in `enrichment_attempts`";       *)
(* 0001_initial.ts:90: "one row per HTTP attempt".  An attempt nobody is    *)
(* working on any more should have its row.                                 *)
EveryAttemptLogged ==
  \A t \in Tasks : \A n \in 1..attempts[t] :
    \/ \E r \in audit : r.task = t /\ r.attempt = n
    \/ \E w \in Workers : Busy(w) /\ held[w] = t /\ attemptOf[w] = n

(* README, "Circuit breaker": the API fails, "the run is systemically       *)
(* broken.  The job becomes `FAILED_SYSTEMIC`".  The job that is stopped    *)
(* should be the one whose calls failed.                                    *)
StoppedJobHadFailures ==
  \A j \in Jobs : jobStatus[j] = "FAILED_SYSTEMIC" =>
    \E r \in CountedFailures : JobOf[r.task] = j
=============================================================================
