----------------------- MODULE EnrichmentEngineProofs -----------------------
(***************************************************************************)
(* Proofs about EnrichmentEngine for every number of jobs, stores, worker  *)
(* loops, processes, attempts and faults.                                  *)
(***************************************************************************)
EXTENDS EnrichmentEngine, FiniteSetTheorems, TLAPS

-----------------------------------------------------------------------------
(* Type correctness.                                                        *)

LEMMA ZeroInRange == 0 \in 0..MaxAttempts /\ 0 \in 0..MinFailures
BY BudgetAssumption

LEMMA TypeInit == Init => TypeOK
BY JobsAssumption, BudgetAssumption
DEF Init, TypeOK, JobStatus, TaskStatus, Steps, FailureKinds

LEMMA TypeStartJob == ASSUME NEW j \in Jobs, TypeOK, StartJob(j) PROVE TypeOK'
BY DEF StartJob, TypeOK, JobStatus, TaskStatus, workers

LEMMA TypeClaim ==
  ASSUME NEW w \in Workers, TypeOK, AttemptBudget, NEW t \in Tasks, ClaimNext(w, t)
  PROVE  TypeOK'
BY BudgetAssumption
DEF ClaimNext, Claimable, AttemptBudget, TypeOK, TaskStatus, Steps

(* Every loop step that holds a claim, from the answer to the verdict.      *)
LEMMA TypeWorker ==
  ASSUME NEW w \in Workers, TypeOK, ClaimsAreExclusive,
         \/ ClaimNothing(w)
         \/ AnswerSuccess(w)
         \/ \E kind \in FailureKinds : AnswerFailure(w, kind)
         \/ RecordSuccess(w)
         \/ RecordFailure(w)
         \/ Judge(w)
         \/ StopJobs(w)
         \/ CloseJobs(w)
         \/ WorkerError(w)
  PROVE  TypeOK'
<1>1. ASSUME ClaimNothing(w) PROVE TypeOK'
  BY <1>1 DEF ClaimNothing, TypeOK, Steps, tables
<1>2. ASSUME AnswerSuccess(w) PROVE TypeOK'
  <2>1. streak' \in [Processes -> 0..MinFailures]
    BY <1>2, ZeroInRange DEF AnswerSuccess, TypeOK
  <2>2. pc' \in [Workers -> Steps]
    BY <1>2 DEF AnswerSuccess, TypeOK, Steps
  <2> QED BY <1>2, <2>1, <2>2 DEF AnswerSuccess, TypeOK, tables
<1>3. ASSUME NEW kind \in FailureKinds, AnswerFailure(w, kind) PROVE TypeOK'
  BY <1>3 DEF AnswerFailure, TypeOK, Steps, tables
<1>4. ASSUME RecordSuccess(w) PROVE TypeOK'
  <2>1. /\ held[w] \in Tasks
        /\ attemptOf[w] \in 1..MaxAttempts
    BY <1>4, BudgetAssumption DEF RecordSuccess, ClaimsAreExclusive, Busy, TypeOK
  <2>2. AttemptRow(w, "SUCCEEDED") \in AttemptRows
        /\ AttemptRow(w, "STALE_IGNORED") \in AttemptRows
    BY <2>1 DEF AttemptRow, AttemptRows, Outcomes
  <2>3. CASE SaveSuccess(w)
    BY <1>4, <2>1, <2>2, <2>3, BudgetAssumption
    DEF RecordSuccess, SaveSuccess, EndLease, TypeOK, TaskStatus, Steps
  <2>4. CASE IgnoreLateSuccess(w)
    BY <1>4, <2>1, <2>2, <2>4, BudgetAssumption
    DEF RecordSuccess, IgnoreLateSuccess, Release, TypeOK, Steps
  <2> QED BY <1>4, <2>3, <2>4 DEF RecordSuccess
<1>5. ASSUME RecordFailure(w) PROVE TypeOK'
  <2>1. /\ held[w] \in Tasks
        /\ attemptOf[w] \in 1..MaxAttempts
        /\ outcome[w] \in FailureKinds
    BY <1>5, BudgetAssumption DEF RecordFailure, ClaimsAreExclusive, Busy, TypeOK
  <2>2. AttemptRow(w, AttemptOutcomeOf(outcome[w])) \in AttemptRows
        /\ AttemptRow(w, "STALE_IGNORED") \in AttemptRows
    BY <2>1 DEF AttemptRow, AttemptRows, AttemptOutcomeOf, FailureKinds, Outcomes
  <2>3. CASE ScheduleRetry(w)
    BY <1>5, <2>1, <2>2, <2>3, BudgetAssumption
    DEF RecordFailure, ScheduleRetry, EndLease, TypeOK, TaskStatus, Steps
  <2>4. CASE FailForGood(w)
    BY <1>5, <2>1, <2>2, <2>4, BudgetAssumption
    DEF RecordFailure, FailForGood, EndLease, TypeOK, TaskStatus, Steps
  <2>5. CASE IgnoreLateFailure(w)
    BY <1>5, <2>1, <2>2, <2>5
    DEF RecordFailure, IgnoreLateFailure, TypeOK, Steps
  <2> QED BY <1>5, <2>3, <2>4, <2>5 DEF RecordFailure
<1>6. ASSUME Judge(w) PROVE TypeOK'
  <2>0. ProcOf[w] \in Processes
    BY WorkersAssumption
  <2>1. \A n \in 0..MinFailures : Saturated(n + 1) \in 0..MinFailures
    BY BudgetAssumption DEF Saturated
  <2>2. \A before \in {0, streak[ProcOf[w]]} : Saturated(before + 1) \in 0..MinFailures
    BY <2>0, <2>1, BudgetAssumption DEF TypeOK
  <2>3. streak' \in [Processes -> 0..MinFailures]
    BY <1>6, <2>0, <2>2, BudgetAssumption
    DEF Judge, JudgeIgnored, JudgeCounted, JudgeTripped, TypeOK
  <2>4. /\ pc' \in [Workers -> Steps]
        /\ held' \in [Workers -> Tasks \cup {NoTask}]
        /\ attemptOf' \in [Workers -> 0..MaxAttempts]
        /\ outcome' \in [Workers -> FailureKinds \cup {"none"}]
        /\ finalFail' \in [Workers -> BOOLEAN]
    <3>1. CASE Untripped(w)
      BY <3>1, ZeroInRange DEF Untripped, Release, TypeOK, Steps
    <3>2. CASE JudgeTripped(w)
      BY <3>2 DEF JudgeTripped, TypeOK, Steps
    <3> QED BY <1>6, <3>1, <3>2 DEF Judge, JudgeIgnored, JudgeCounted
  <2> QED BY <1>6, <2>3, <2>4 DEF Judge, TypeOK, tables
<1>7. ASSUME StopJobs(w) PROVE TypeOK'
  <2>1. /\ jobStatus' \in [Jobs -> JobStatus]
        /\ status' \in [Tasks -> TaskStatus]
        /\ leaseToken' \in [Tasks -> 0..MaxAttempts]
        /\ expired' \in [Tasks -> BOOLEAN]
    BY <1>7, ZeroInRange
    DEF StopJobs, FailRunningJobsSystemically, TypeOK, JobStatus, TaskStatus
  <2>2. /\ pc' \in [Workers -> Steps]
        /\ held' \in [Workers -> Tasks \cup {NoTask}]
        /\ attemptOf' \in [Workers -> 0..MaxAttempts]
        /\ outcome' \in [Workers -> FailureKinds \cup {"none"}]
        /\ finalFail' \in [Workers -> BOOLEAN]
    BY <1>7, BudgetAssumption DEF StopJobs, Release, TypeOK, Steps
  <2> QED BY <1>7, <2>1, <2>2 DEF StopJobs, TypeOK
<1>8. ASSUME CloseJobs(w) PROVE TypeOK'
  BY <1>8, BudgetAssumption
  DEF CloseJobs, FinalizeFinishedJobs, ClosedAs, Release, TypeOK, JobStatus, Steps
<1>9. ASSUME WorkerError(w) PROVE TypeOK'
  BY <1>9, BudgetAssumption DEF WorkerError, Release, TypeOK, Steps, tables
<1> QED BY <1>1, <1>2, <1>3, <1>4, <1>5, <1>6, <1>7, <1>8, <1>9

LEMMA TypeProcess ==
  ASSUME NEW p \in Processes, TypeOK,
         ReaperStep(p) \/ ReaperError(p) \/ Crash(p)
  PROVE  TypeOK'
<1>1. ASSUME Reap(p) PROVE TypeOK'
  <2>1. status' \in [Tasks -> TaskStatus]
    BY <1>1 DEF Reap, TypeOK, TaskStatus
  <2>2. /\ leaseToken' \in [Tasks -> 0..MaxAttempts]
        /\ expired' \in [Tasks -> BOOLEAN]
        /\ due' \in [Tasks -> BOOLEAN]
    BY <1>1, ZeroInRange DEF Reap, TypeOK
  <2>3. reaper' \in [Processes -> {"idle", "closing"}]
    BY <1>1 DEF Reap, TypeOK
  <2> QED BY <1>1, <2>1, <2>2, <2>3 DEF Reap, TypeOK, workers
<1>2. ASSUME ReaperCloses(p) PROVE TypeOK'
  BY <1>2 DEF ReaperCloses, FinalizeFinishedJobs, ClosedAs, TypeOK, JobStatus, workers
<1>3. ASSUME ReaperError(p) PROVE TypeOK'
  BY <1>3, BudgetAssumption DEF ReaperError, TypeOK, tables, workers
<1>4. ASSUME Crash(p) PROVE TypeOK'
  <2>1. /\ pc' \in [Workers -> Steps]
        /\ held' \in [Workers -> Tasks \cup {NoTask}]
        /\ attemptOf' \in [Workers -> 0..MaxAttempts]
        /\ outcome' \in [Workers -> FailureKinds \cup {"none"}]
        /\ finalFail' \in [Workers -> BOOLEAN]
    BY <1>4, ZeroInRange DEF Crash, TypeOK, Steps
  <2>2. /\ streak' \in [Processes -> 0..MinFailures]
        /\ reaper' \in [Processes -> {"idle", "closing"}]
        /\ faults' \in 0..MaxFaults
    BY <1>4, BudgetAssumption DEF Crash, TypeOK
  <2> QED BY <1>4, <2>1, <2>2 DEF Crash, TypeOK, tables
<1> QED BY <1>1, <1>2, <1>3, <1>4 DEF ReaperStep

LEMMA TypeTick == ASSUME NEW t \in Tasks, TypeOK, Tick(t) PROVE TypeOK'
BY DEF Tick, RetryBecomesDue, LeaseExpires, TypeOK, workers

LEMMA TypeNext == TablesInv /\ [Next]_vars => TypeOK'
<1> SUFFICES ASSUME TablesInv, [Next]_vars PROVE TypeOK'
  OBVIOUS
<1> USE DEF TablesInv
<1>1. CASE UNCHANGED vars
  BY <1>1 DEF vars, TypeOK
<1>2. ASSUME NEW j \in Jobs, StartJob(j) PROVE TypeOK'
  BY <1>2, TypeStartJob
<1>3. ASSUME NEW w \in Workers, WorkerStep(w) \/ WorkerError(w) PROVE TypeOK'
  BY <1>3, TypeClaim, TypeWorker DEF WorkerStep
<1>4. ASSUME NEW p \in Processes, ReaperStep(p) \/ ReaperError(p) \/ Crash(p)
      PROVE  TypeOK'
  BY <1>4, TypeProcess
<1>5. ASSUME NEW t \in Tasks, Tick(t) PROVE TypeOK'
  BY <1>5, TypeTick
<1> QED BY <1>1, <1>2, <1>3, <1>4, <1>5 DEF Next

-----------------------------------------------------------------------------
(* The inductive invariant.                                                 *)

LEMMA InitInvariant == Init => TablesInv
<1> SUFFICES ASSUME Init PROVE TablesInv
  OBVIOUS
<1>1. TypeOK
  BY TypeInit
<1>2. LeaseMatchesStatus /\ AttemptBudget /\ OneActiveJob
  BY BudgetAssumption, JobsAssumption
  DEF Init, LeaseMatchesStatus, AttemptBudget, OneActiveJob
<1>3. ClaimsAreExclusive /\ AuditIsOfClaims /\ AttemptLoggedOnce
  BY DEF Init, ClaimsAreExclusive, Busy, AuditIsOfClaims, AttemptLoggedOnce
<1>4. MetricsFromLatestAttempt /\ FailedForAReason /\ TasksMatchJob
  BY BudgetAssumption, JobsAssumption
  DEF Init, MetricsFromLatestAttempt, FailedForAReason, TasksMatchJob, Open
<1> QED BY <1>1, <1>2, <1>3, <1>4 DEF TablesInv

(* A step that leaves the tables alone, and in which no loop takes a claim. *)
LoopsOnlyLetGo ==
  \A w \in Workers : Busy(w)' =>
    /\ Busy(w)
    /\ held'[w] = held[w]
    /\ attemptOf'[w] = attemptOf[w]
    /\ pc'[w] = "recording" => outcome'[w] \in FailureKinds

LEMMA ClaimsKept ==
  ASSUME TablesInv, LoopsOnlyLetGo,
         \A t \in Tasks : attempts[t] <= attempts'[t],
         attempts' \in [Tasks -> 0..MaxAttempts]
  PROVE  ClaimsAreExclusive'
BY BudgetAssumption DEF TablesInv, TypeOK, ClaimsAreExclusive, LoopsOnlyLetGo

LEMMA TablesUntouched ==
  ASSUME TablesInv, TypeOK', LoopsOnlyLetGo,
         UNCHANGED <<jobStatus, status, attempts, leaseToken, metrics, audit>>
  PROVE  TablesInv'
<1> USE DEF TablesInv
<1>1. LeaseMatchesStatus' /\ AttemptBudget' /\ OneActiveJob'
  BY DEF LeaseMatchesStatus, AttemptBudget, OneActiveJob
<1>2. ClaimsAreExclusive'
  BY ClaimsKept, BudgetAssumption DEF TypeOK
<1>3. AuditIsOfClaims' /\ AttemptLoggedOnce'
  BY DEF AuditIsOfClaims, AttemptLoggedOnce, LoopsOnlyLetGo
<1>4. MetricsFromLatestAttempt' /\ FailedForAReason' /\ TasksMatchJob'
  BY DEF MetricsFromLatestAttempt, FailedForAReason, TasksMatchJob
<1> QED BY <1>1, <1>2, <1>3, <1>4

(* The steps that only move a loop, the breaker, the reaper or the clock.   *)
LEMMA QuietStep ==
  ASSUME TablesInv, TypeOK',
         \/ \E w \in Workers :
              \/ ClaimNothing(w)
              \/ AnswerSuccess(w)
              \/ \E kind \in FailureKinds : AnswerFailure(w, kind)
              \/ Judge(w)
              \/ WorkerError(w)
         \/ \E p \in Processes : ReaperError(p) \/ Crash(p)
         \/ \E t \in Tasks : Tick(t)
  PROVE  TablesInv'
<1>1. UNCHANGED <<jobStatus, status, attempts, leaseToken, metrics, audit>>
  BY DEF ClaimNothing, AnswerSuccess, AnswerFailure, Judge, WorkerError, ReaperError,
         Crash, Tick, RetryBecomesDue, LeaseExpires, tables
<1>2. LoopsOnlyLetGo
  <2> USE DEF TablesInv, TypeOK, Busy, LoopsOnlyLetGo
  <2>1. ASSUME NEW w \in Workers, ClaimNothing(w) PROVE LoopsOnlyLetGo
    BY <2>1 DEF ClaimNothing, ClaimsAreExclusive
  <2>2. ASSUME NEW w \in Workers, AnswerSuccess(w) PROVE LoopsOnlyLetGo
    BY <2>2 DEF AnswerSuccess, ClaimsAreExclusive
  <2>3. ASSUME NEW w \in Workers, NEW kind \in FailureKinds, AnswerFailure(w, kind)
        PROVE  LoopsOnlyLetGo
    BY <2>3 DEF AnswerFailure, ClaimsAreExclusive
  <2>4. ASSUME NEW w \in Workers, Judge(w) PROVE LoopsOnlyLetGo
    BY <2>4 DEF Judge, JudgeIgnored, JudgeCounted, JudgeTripped, Untripped, Release,
                ClaimsAreExclusive
  <2>5. ASSUME NEW w \in Workers, WorkerError(w) PROVE LoopsOnlyLetGo
    BY <2>5 DEF WorkerError, Release, ClaimsAreExclusive
  <2>6. ASSUME NEW p \in Processes, ReaperError(p) PROVE LoopsOnlyLetGo
    BY <2>6 DEF ReaperError, workers, ClaimsAreExclusive
  <2>7. ASSUME NEW p \in Processes, Crash(p) PROVE LoopsOnlyLetGo
    BY <2>7 DEF Crash, ClaimsAreExclusive
  <2>8. ASSUME NEW t \in Tasks, Tick(t) PROVE LoopsOnlyLetGo
    BY <2>8 DEF Tick, RetryBecomesDue, LeaseExpires, workers, ClaimsAreExclusive
  <2> QED BY <2>1, <2>2, <2>3, <2>4, <2>5, <2>6, <2>7, <2>8
<1> QED BY <1>1, <1>2, TablesUntouched

(* A new job: its tasks are queued, every other row stays.                  *)
LEMMA StartJobInvariant ==
  ASSUME TablesInv, TypeOK', NEW j \in Jobs, StartJob(j)
  PROVE  TablesInv'
<1> USE JobsAssumption, BudgetAssumption DEF TablesInv, TypeOK, StartJob, NoneActive
<1>1. LoopsOnlyLetGo
  BY DEF LoopsOnlyLetGo, Busy, workers, ClaimsAreExclusive
<1>2. \A t \in Tasks : JobOf[t] = j => status[t] = "ABSENT" /\ attempts[t] = 0
  BY DEF TasksMatchJob
<1>3. LeaseMatchesStatus'
  BY <1>2 DEF LeaseMatchesStatus
<1>4. AttemptBudget'
  BY <1>2 DEF AttemptBudget
<1>5. OneActiveJob'
  BY DEF OneActiveJob
<1>6. ClaimsAreExclusive'
  BY <1>1, ClaimsKept
<1>7. AuditIsOfClaims' /\ AttemptLoggedOnce'
  BY <1>1 DEF AuditIsOfClaims, AttemptLoggedOnce, LoopsOnlyLetGo
<1>8. MetricsFromLatestAttempt' /\ FailedForAReason'
  BY <1>2 DEF MetricsFromLatestAttempt, FailedForAReason
<1>9. TasksMatchJob'
  BY <1>2 DEF TasksMatchJob, Open
<1> QED BY <1>3, <1>4, <1>5, <1>6, <1>7, <1>8, <1>9

(* A claim: one queued task is leased to one loop under a new attempt.      *)
LEMMA ClaimNextInvariant ==
  ASSUME TablesInv, TypeOK', NEW w \in Workers, NEW t \in Tasks, ClaimNext(w, t)
  PROVE  TablesInv'
<1> USE JobsAssumption, BudgetAssumption DEF TablesInv, TypeOK, ClaimNext
<1>1. /\ status[t] = "PENDING"
      /\ jobStatus[JobOf[t]] = "RUNNING"
      /\ attempts'[t] = attempts[t] + 1
      /\ \A u \in Tasks : u # t => attempts'[u] = attempts[u]
  BY DEF Claimable
<1>2. /\ held'[w] = t /\ attemptOf'[w] = attempts[t] + 1 /\ Busy(w)'
      /\ pc'[w] = "calling"
      /\ \A v \in Workers : v # w =>
           pc'[v] = pc[v] /\ held'[v] = held[v] /\ attemptOf'[v] = attemptOf[v]
  BY DEF Busy
<1>3. LeaseMatchesStatus'
  BY <1>1 DEF LeaseMatchesStatus
<1>4. AttemptBudget'
  BY <1>1 DEF AttemptBudget
<1>5. OneActiveJob' /\ TasksMatchJob'
  BY <1>1 DEF OneActiveJob, TasksMatchJob, Open
<1>6. ClaimsAreExclusive'
  <2>1. \A v \in Workers : v # w /\ Busy(v)' => Busy(v) /\ attemptOf'[v] <= attempts[held'[v]]
                                            /\ held'[v] \in Tasks
    BY <1>2 DEF ClaimsAreExclusive, Busy
  <2>2. \A v \in Workers : Busy(v)' /\ held'[v] = t /\ attemptOf'[v] = attempts[t] + 1 => v = w
    BY <2>1
  <2>3. ASSUME NEW v \in Workers, Busy(v)', v # w
        PROVE  /\ held'[v] \in Tasks
               /\ attemptOf'[v] \in 1..attempts'[held'[v]]
               /\ pc'[v] = "recording" => outcome'[v] \in FailureKinds
               /\ \A u \in Workers : Busy(u)' /\ held'[u] = held'[v]
                                     /\ attemptOf'[u] = attemptOf'[v] => u = v
    BY <2>3, <2>1, <2>2, <1>1, <1>2 DEF ClaimsAreExclusive, Busy
  <2> QED BY <2>2, <2>3, <1>1, <1>2 DEF ClaimsAreExclusive
<1>7. AuditIsOfClaims'
  BY <1>1 DEF AuditIsOfClaims, AttemptRows
<1>8. AttemptLoggedOnce'
  BY <1>1, <1>2 DEF AttemptLoggedOnce, AuditIsOfClaims, Busy, AttemptRows
<1>9. MetricsFromLatestAttempt'
  BY <1>1 DEF MetricsFromLatestAttempt
<1>10. FailedForAReason'
  BY <1>1 DEF FailedForAReason
<1> QED BY <1>3, <1>4, <1>5, <1>6, <1>7, <1>8, <1>9, <1>10

(* What a loop about to write knows of its task.                            *)
LEMMA BusyLoop ==
  ASSUME TablesInv, NEW w \in Workers, Busy(w)
  PROVE  /\ held[w] \in Tasks
         /\ attemptOf[w] \in 1..attempts[held[w]]
         /\ attemptOf[w] \in 1..MaxAttempts
         /\ \A r \in audit : ~(r.task = held[w] /\ r.attempt = attemptOf[w])
         /\ HoldsLease(w) => /\ attemptOf[w] = attempts[held[w]]
                            /\ jobStatus[JobOf[held[w]]] = "RUNNING"
BY BudgetAssumption, JobsAssumption
DEF TablesInv, TypeOK, ClaimsAreExclusive, AttemptLoggedOnce, HoldsLease, LeaseMatchesStatus,
    TasksMatchJob, Open

(* One new row, of a claim that had none and whose loop is done writing.    *)
LEMMA OneRowAdded ==
  ASSUME TablesInv, TypeOK', LoopsOnlyLetGo, NEW w \in Workers, Busy(w), ~Busy(w)',
         NEW what \in Outcomes, audit' = audit \cup {AttemptRow(w, what)},
         attempts' = attempts
  PROVE  ClaimsAreExclusive' /\ AuditIsOfClaims' /\ AttemptLoggedOnce'
<1>1. ClaimsAreExclusive'
  BY ClaimsKept, BudgetAssumption DEF TablesInv, TypeOK
<1>2. AuditIsOfClaims'
  BY BusyLoop, BudgetAssumption DEF TablesInv, TypeOK, AuditIsOfClaims, AttemptRow
<1>3. AttemptLoggedOnce'
  <2>1. \A r1, r2 \in audit' :
          r1.task = r2.task /\ r1.attempt = r2.attempt => r1 = r2
    BY BusyLoop DEF TablesInv, AttemptLoggedOnce, AttemptRow
  <2>2. ASSUME NEW v \in Workers, Busy(v)', NEW r \in audit'
        PROVE  ~(r.task = held'[v] /\ r.attempt = attemptOf'[v])
    <3>1. v # w /\ Busy(v) /\ held'[v] = held[v] /\ attemptOf'[v] = attemptOf[v]
      BY <2>2 DEF LoopsOnlyLetGo
    <3>2. CASE r \in audit
      BY <3>1, <3>2 DEF TablesInv, AttemptLoggedOnce
    <3>3. CASE r = AttemptRow(w, what)
      BY <3>1, <3>3 DEF TablesInv, ClaimsAreExclusive, AttemptRow
    <3> QED BY <2>2, <3>2, <3>3
  <2> QED BY <2>1, <2>2 DEF AttemptLoggedOnce
<1> QED BY <1>1, <1>2, <1>3

LEMMA RecordSuccessInvariant ==
  ASSUME TablesInv, TypeOK', NEW w \in Workers, RecordSuccess(w)
  PROVE  TablesInv'
<1>1. Busy(w) /\ pc[w] = "saving"
  BY DEF RecordSuccess, Busy
<1>2. LoopsOnlyLetGo /\ ~Busy(w)'
  BY DEF RecordSuccess, SaveSuccess, IgnoreLateSuccess, Release, LoopsOnlyLetGo, Busy,
         TablesInv, TypeOK, ClaimsAreExclusive
<1>3. CASE SaveSuccess(w)
  <2> DEFINE t == held[w]
  <2>1. /\ t \in Tasks /\ status[t] = "IN_FLIGHT" /\ attemptOf[w] = attempts[t]
        /\ attempts[t] \in 1..MaxAttempts /\ jobStatus[JobOf[t]] = "RUNNING"
        /\ \A r \in audit : ~(r.task = t /\ r.attempt = attempts[t])
    BY <1>1, <1>3, BusyLoop DEF SaveSuccess, HoldsLease
  <2>2. UNCHANGED <<jobStatus, attempts>>
    BY <1>3 DEF SaveSuccess
  <2>3. status' = [status EXCEPT ![t] = "SUCCEEDED"] /\ leaseToken' = [leaseToken EXCEPT ![t] = 0]
    BY <1>3 DEF SaveSuccess, EndLease
  <2>4. metrics' = [metrics EXCEPT ![t] = attempts[t]]
    BY <1>3, <2>1 DEF SaveSuccess, TablesInv, MetricsFromLatestAttempt
  <2>5. audit' = audit \cup {[task |-> t, attempt |-> attempts[t], outcome |-> "SUCCEEDED"]}
    BY <1>3, <2>1 DEF SaveSuccess, AttemptRow
  <2> HIDE DEF t
  <2> USE DEF TablesInv, TypeOK
  <2>6. ClaimsAreExclusive' /\ AuditIsOfClaims' /\ AttemptLoggedOnce'
    BY <1>1, <1>2, <1>3, <2>2, OneRowAdded DEF SaveSuccess, Outcomes
  <2>7. LeaseMatchesStatus' /\ AttemptBudget' /\ OneActiveJob'
    BY <2>1, <2>2, <2>3 DEF LeaseMatchesStatus, AttemptBudget, OneActiveJob
  <2>8. MetricsFromLatestAttempt'
    BY <2>1, <2>2, <2>3, <2>4, <2>5 DEF MetricsFromLatestAttempt
  <2>9. FailedForAReason' /\ TasksMatchJob'
    BY <2>1, <2>2, <2>3, <2>5, JobsAssumption DEF FailedForAReason, TasksMatchJob, Open
  <2> QED BY <2>6, <2>7, <2>8, <2>9
<1>4. CASE IgnoreLateSuccess(w)
  <2>1. UNCHANGED <<jobStatus, status, attempts, leaseToken, metrics>>
    BY <1>4 DEF IgnoreLateSuccess
  <2>2. audit' = audit \cup {AttemptRow(w, "STALE_IGNORED")}
    BY <1>4 DEF IgnoreLateSuccess
  <2> USE DEF TablesInv
  <2>3. ClaimsAreExclusive' /\ AuditIsOfClaims' /\ AttemptLoggedOnce'
    BY <1>1, <1>2, <2>1, <2>2, OneRowAdded DEF Outcomes
  <2>4. LeaseMatchesStatus' /\ AttemptBudget' /\ OneActiveJob' /\ TasksMatchJob'
    BY <2>1 DEF LeaseMatchesStatus, AttemptBudget, OneActiveJob, TasksMatchJob
  <2>5. MetricsFromLatestAttempt' /\ FailedForAReason'
    BY <2>1, <2>2 DEF MetricsFromLatestAttempt, FailedForAReason, AttemptRow
  <2> QED BY <2>3, <2>4, <2>5
<1> QED BY <1>3, <1>4 DEF RecordSuccess

LEMMA RecordFailureInvariant ==
  ASSUME TablesInv, TypeOK', NEW w \in Workers, RecordFailure(w)
  PROVE  TablesInv'
<1>1. Busy(w) /\ pc[w] = "recording" /\ outcome[w] \in FailureKinds
  BY DEF RecordFailure, Busy, TablesInv, ClaimsAreExclusive
<1>2. LoopsOnlyLetGo /\ ~Busy(w)'
  BY DEF RecordFailure, LoopsOnlyLetGo, Busy, TablesInv, TypeOK, ClaimsAreExclusive
<1>3. UNCHANGED <<jobStatus, attempts, metrics>>
  BY DEF RecordFailure
<1> DEFINE t == held[w]
           kind == AttemptOutcomeOf(outcome[w])
<1>4. kind \in Outcomes \ {"SUCCEEDED"}
  BY <1>1 DEF AttemptOutcomeOf, FailureKinds, Outcomes
<1>5. CASE ScheduleRetry(w) \/ FailForGood(w)
  <2> DEFINE new == IF Decision(w) = "retry" THEN "PENDING" ELSE "FAILED"
  <2>1. /\ t \in Tasks /\ status[t] = "IN_FLIGHT" /\ attemptOf[w] = attempts[t]
        /\ attempts[t] \in 1..MaxAttempts /\ jobStatus[JobOf[t]] = "RUNNING"
    BY <1>1, <1>5, BusyLoop DEF ScheduleRetry, FailForGood, HoldsLease
  <2>2. /\ status' = [status EXCEPT ![t] = new]
        /\ leaseToken' = [leaseToken EXCEPT ![t] = 0]
        /\ audit' = audit \cup {AttemptRow(w, kind)}
    BY <1>5 DEF ScheduleRetry, FailForGood, EndLease
  <2>3. new = "PENDING" => attempts[t] < MaxAttempts
    BY <2>1, BudgetAssumption DEF Decision, DecideAfterFailure
  <2>4. new = "FAILED" => attempts[t] = MaxAttempts \/ kind = "CLIENT_ERROR"
    BY <2>1, BudgetAssumption DEF Decision, DecideAfterFailure, AttemptOutcomeOf
  <2>5. new \in {"PENDING", "FAILED"}
    OBVIOUS
  <2>6. AttemptRow(w, kind) = [task |-> t, attempt |-> attempts[t], outcome |-> kind]
    BY <2>1 DEF AttemptRow
  <2>7. ClaimsAreExclusive' /\ AuditIsOfClaims' /\ AttemptLoggedOnce'
    BY <1>1, <1>2, <1>3, <1>4, <2>2, OneRowAdded
  <2> HIDE DEF t, kind, new
  <2> USE DEF TablesInv, TypeOK
  <2>8. LeaseMatchesStatus' /\ AttemptBudget' /\ OneActiveJob'
    BY <1>3, <2>1, <2>2, <2>3, <2>5 DEF LeaseMatchesStatus, AttemptBudget, OneActiveJob
  <2>9. MetricsFromLatestAttempt'
    BY <1>3, <1>4, <2>1, <2>2, <2>5, <2>6 DEF MetricsFromLatestAttempt
  <2>10. FailedForAReason'
    BY <1>3, <2>1, <2>2, <2>4, <2>5, <2>6 DEF FailedForAReason
  <2>11. TasksMatchJob'
    BY <1>3, <2>1, <2>2, <2>5, JobsAssumption DEF TasksMatchJob, Open
  <2> QED BY <2>7, <2>8, <2>9, <2>10, <2>11
<1>6. CASE IgnoreLateFailure(w)
  <2>1. /\ UNCHANGED <<status, leaseToken>>
        /\ audit' = audit \cup {AttemptRow(w, "STALE_IGNORED")}
    BY <1>6 DEF IgnoreLateFailure
  <2> USE DEF TablesInv
  <2>2. ClaimsAreExclusive' /\ AuditIsOfClaims' /\ AttemptLoggedOnce'
    BY <1>1, <1>2, <1>3, <2>1, OneRowAdded DEF Outcomes
  <2>3. LeaseMatchesStatus' /\ AttemptBudget' /\ OneActiveJob' /\ TasksMatchJob'
    BY <1>3, <2>1 DEF LeaseMatchesStatus, AttemptBudget, OneActiveJob, TasksMatchJob
  <2>4. MetricsFromLatestAttempt' /\ FailedForAReason'
    BY <1>3, <2>1 DEF MetricsFromLatestAttempt, FailedForAReason, AttemptRow
  <2> QED BY <2>2, <2>3, <2>4
<1> QED BY <1>5, <1>6 DEF RecordFailure

LEMMA StopJobsInvariant ==
  ASSUME TablesInv, TypeOK', NEW w \in Workers, StopJobs(w)
  PROVE  TablesInv'
<1>1. LoopsOnlyLetGo
  BY DEF StopJobs, Release, LoopsOnlyLetGo, Busy, TablesInv, TypeOK, ClaimsAreExclusive
<1>2. UNCHANGED <<attempts, metrics, audit>>
  BY DEF StopJobs
<1>3. \A j \in Jobs :
        jobStatus'[j] = IF jobStatus[j] = "RUNNING" THEN "FAILED_SYSTEMIC" ELSE jobStatus[j]
  BY DEF StopJobs, FailRunningJobsSystemically
<1>4. \A t \in Tasks :
        IF jobStatus[JobOf[t]] = "RUNNING" /\ status[t] \in Open
          THEN status'[t] = "ABORTED" /\ leaseToken'[t] = 0
          ELSE status'[t] = status[t] /\ leaseToken'[t] = leaseToken[t]
  BY DEF StopJobs, FailRunningJobsSystemically
<1> USE JobsAssumption DEF TablesInv
<1>5. LeaseMatchesStatus'
  BY <1>2, <1>4 DEF LeaseMatchesStatus, Open
<1>6. AttemptBudget' /\ OneActiveJob'
  BY <1>2, <1>3, <1>4 DEF AttemptBudget, OneActiveJob
<1>7. ClaimsAreExclusive' /\ AuditIsOfClaims' /\ AttemptLoggedOnce'
  BY <1>1, <1>2, ClaimsKept, BudgetAssumption
  DEF TypeOK, AuditIsOfClaims, AttemptLoggedOnce, LoopsOnlyLetGo
<1>8. MetricsFromLatestAttempt' /\ FailedForAReason'
  BY <1>2, <1>4 DEF MetricsFromLatestAttempt, FailedForAReason, Open
<1>9. TasksMatchJob'
  BY <1>2, <1>3, <1>4 DEF TasksMatchJob, Open
<1> QED BY <1>5, <1>6, <1>7, <1>8, <1>9

LEMMA FinalizeInvariant ==
  ASSUME TablesInv, TypeOK',
         \/ \E w \in Workers : CloseJobs(w)
         \/ \E p \in Processes : ReaperCloses(p)
  PROVE  TablesInv'
<1>1. LoopsOnlyLetGo
  BY DEF CloseJobs, ReaperCloses, workers, Release, LoopsOnlyLetGo, Busy, TablesInv, TypeOK,
         ClaimsAreExclusive
<1>2. UNCHANGED <<status, attempts, leaseToken, metrics, audit>>
  BY DEF CloseJobs, ReaperCloses
<1>3. \A j \in Jobs : jobStatus'[j] = IF Finished(j) THEN ClosedAs(j) ELSE jobStatus[j]
  BY DEF CloseJobs, ReaperCloses, FinalizeFinishedJobs
<1> USE JobsAssumption DEF TablesInv
<1>4. LeaseMatchesStatus' /\ AttemptBudget'
  BY <1>2 DEF LeaseMatchesStatus, AttemptBudget
<1>5. OneActiveJob'
  BY <1>3 DEF OneActiveJob, Finished, ClosedAs
<1>6. ClaimsAreExclusive' /\ AuditIsOfClaims' /\ AttemptLoggedOnce'
  BY <1>1, <1>2, ClaimsKept, BudgetAssumption
  DEF TypeOK, AuditIsOfClaims, AttemptLoggedOnce, LoopsOnlyLetGo
<1>7. MetricsFromLatestAttempt' /\ FailedForAReason'
  BY <1>2 DEF MetricsFromLatestAttempt, FailedForAReason
<1>8. TasksMatchJob'
  <2> SUFFICES ASSUME NEW t \in Tasks
               PROVE  /\ jobStatus'[JobOf[t]] = "ABSENT" <=> status[t] = "ABSENT"
                      /\ jobStatus'[JobOf[t]] # "RUNNING" => status[t] \notin Open
                      /\ jobStatus'[JobOf[t]] # "FAILED_SYSTEMIC" => status[t] # "ABORTED"
                      /\ jobStatus'[JobOf[t]] = "COMPLETED" => status[t] = "SUCCEEDED"
                      /\ status[t] = "ABSENT" => attempts[t] = 0
    BY <1>2 DEF TasksMatchJob
  <2>1. CASE Finished(JobOf[t])
    BY <1>3, <2>1 DEF Finished, ClosedAs, TasksOf, TasksMatchJob, Open, TypeOK, TaskStatus
  <2>2. CASE ~Finished(JobOf[t])
    BY <1>3, <2>2 DEF TasksMatchJob
  <2> QED BY <2>1, <2>2
<1> QED BY <1>4, <1>5, <1>6, <1>7, <1>8

LEMMA ReapInvariant ==
  ASSUME TablesInv, TypeOK', NEW p \in Processes, Reap(p)
  PROVE  TablesInv'
<1>1. LoopsOnlyLetGo
  BY DEF Reap, workers, LoopsOnlyLetGo, Busy, TablesInv, ClaimsAreExclusive
<1>2. UNCHANGED <<jobStatus, attempts, metrics, audit>>
  BY DEF Reap
<1>3. \A t \in Tasks :
        \/ status'[t] = status[t] /\ leaseToken'[t] = leaseToken[t]
        \/ /\ status[t] = "IN_FLIGHT"
           /\ leaseToken'[t] = 0
           /\ \/ attempts[t] >= MaxAttempts /\ status'[t] = "FAILED"
              \/ ~(attempts[t] >= MaxAttempts) /\ status'[t] = "PENDING"
  BY DEF Reap, Reclaimed, GivenUp
<1> USE JobsAssumption, BudgetAssumption DEF TablesInv, TypeOK
<1>4. LeaseMatchesStatus' /\ AttemptBudget' /\ OneActiveJob'
  BY <1>2, <1>3 DEF LeaseMatchesStatus, AttemptBudget, OneActiveJob
<1>5. ClaimsAreExclusive' /\ AuditIsOfClaims' /\ AttemptLoggedOnce'
  BY <1>1, <1>2, ClaimsKept DEF AuditIsOfClaims, AttemptLoggedOnce, LoopsOnlyLetGo
<1>6. MetricsFromLatestAttempt'
  <2>1. \A t \in Tasks : status'[t] = "SUCCEEDED" <=> status[t] = "SUCCEEDED"
    BY <1>3
  <2>2. UNCHANGED <<metrics, attempts, audit>> /\ MetricsFromLatestAttempt
    BY <1>2
  <2> QED BY <2>1, <2>2, Zenon DEF MetricsFromLatestAttempt
<1>7. FailedForAReason'
  <2>1. \A t \in Tasks : attempts[t] >= MaxAttempts => attempts[t] = MaxAttempts
    <3>1. attempts \in [Tasks -> 0..MaxAttempts]
      OBVIOUS
    <3>2. \A n \in 0..MaxAttempts : n >= MaxAttempts => n = MaxAttempts
      BY BudgetAssumption
    <3> QED BY <3>1, <3>2, Zenon
  <2> QED BY <1>2, <1>3, <2>1 DEF FailedForAReason
<1>8. TasksMatchJob'
  BY <1>2, <1>3 DEF TasksMatchJob, Open
<1> QED BY <1>4, <1>5, <1>6, <1>7, <1>8

LEMMA NextInvariant == TablesInv /\ [Next]_vars => TablesInv'
<1> SUFFICES ASSUME TablesInv, [Next]_vars PROVE TablesInv'
  OBVIOUS
<1>0. TypeOK'
  BY TypeNext
<1>1. CASE UNCHANGED vars
  BY <1>0, <1>1, TablesUntouched
  DEF vars, LoopsOnlyLetGo, Busy, TablesInv, ClaimsAreExclusive
<1>2. ASSUME NEW j \in Jobs, StartJob(j) PROVE TablesInv'
  BY <1>0, <1>2, StartJobInvariant
<1>3. ASSUME NEW w \in Workers, WorkerStep(w) \/ WorkerError(w) PROVE TablesInv'
  BY <1>0, <1>3, ClaimNextInvariant, RecordSuccessInvariant, RecordFailureInvariant,
     StopJobsInvariant, FinalizeInvariant, QuietStep DEF WorkerStep
<1>4. ASSUME NEW p \in Processes, ReaperStep(p) \/ ReaperError(p) \/ Crash(p)
      PROVE  TablesInv'
  BY <1>0, <1>4, ReapInvariant, FinalizeInvariant, QuietStep DEF ReaperStep
<1>5. ASSUME NEW t \in Tasks, Tick(t) PROVE TablesInv'
  BY <1>0, <1>5, QuietStep
<1> QED BY <1>1, <1>2, <1>3, <1>4, <1>5 DEF Next

-----------------------------------------------------------------------------
(* The results.                                                             *)

(* The part of the invariant about tables, loops and the audit trail.       *)
LEMMA TablesHold == Spec => []TablesInv
BY InitInvariant, NextInvariant, PTL DEF Spec

(* The tables and the loops keep their types; in particular no counter of   *)
(* attempts, no lease token and no breaker streak leaves its range.         *)
THEOREM TypeCorrect == Spec => []TypeOK
BY TablesHold, PTL DEF TablesInv

(* A store's metrics come from the attempt claimed last and no other, so    *)
(* late answers are harmless.                                               *)
THEOREM LateAnswersHarmless == Spec => []MetricsFromLatestAttempt
BY TablesHold, PTL DEF TablesInv

(* No store costs more than MaxAttempts calls.                              *)
THEOREM BudgetKept == Spec => []AttemptBudget
BY TablesHold, PTL DEF TablesInv

(* A store is failed only when its budget is spent or its latest request    *)
(* was rejected.                                                            *)
THEOREM FailuresJustified == Spec => []FailedForAReason
BY TablesHold, PTL DEF TablesInv

(* The audit trail never has two rows for one attempt.                      *)
THEOREM AuditExact == Spec => []AttemptLoggedOnce
BY TablesHold, PTL DEF TablesInv

-----------------------------------------------------------------------------
(* Refinement of JobContract.                                               *)

(* Between steps, a store's result can be read off its task's status.       *)
StatusResult(s) ==
  CASE s = "SUCCEEDED" -> "enriched"
    [] s = "ABSENT"    -> "absent"
    [] s = "FAILED"    -> "failed"
    [] s = "ABORTED"   -> "aborted"
    [] OTHER           -> "open"

LEMMA ResultsAreStatuses ==
  ASSUME TablesInv PROVE \A t \in Tasks : ResultOf(t) = StatusResult(status[t])
BY DEF TablesInv, TypeOK, TaskStatus, MetricsFromLatestAttempt, ResultOf, StatusResult

LEMMA InitContract == Init => Contract!ContractInit
<1> SUFFICES ASSUME Init PROVE Contract!ContractInit
  OBVIOUS
<1>1. \A t \in Tasks : ResultOf(t) = "absent"
  BY DEF Init, ResultOf
<1> QED BY <1>1 DEF Init, Contract!ContractInit

(* A step that leaves the jobs alone and only gives results to open stores  *)
(* of the running job is Settle, or changes nothing in the contract.        *)
LEMMA SettleStep ==
  ASSUME TablesInv, TablesInv', jobStatus' = jobStatus,
         \A t \in Tasks :
           \/ StatusResult(status'[t]) = StatusResult(status[t])
           \/ status[t] = "IN_FLIGHT" /\ status'[t] \in {"SUCCEEDED", "FAILED"}
  PROVE  Contract!Settle
<1>1. \A t \in Tasks : ResultOf(t) = StatusResult(status[t])
  BY ResultsAreStatuses
<1>2. \A t \in Tasks : ResultOf(t)' = StatusResult(status'[t])
  BY <1>1, ResultsAreStatuses DEF TablesInv, TypeOK, TaskStatus, MetricsFromLatestAttempt,
     ResultOf, StatusResult
<1>3. \A t \in Tasks : ResultOf(t)' \in Contract!Results
  BY <1>2 DEF StatusResult, Contract!Results
<1>4. \A t \in Tasks : ResultOf(t)' # ResultOf(t) =>
        /\ ResultOf(t) = "open"
        /\ jobStatus[JobOf[t]] = "RUNNING"
        /\ ResultOf(t)' \in {"enriched", "failed"}
  BY <1>1, <1>2 DEF TablesInv, TasksMatchJob, Open, StatusResult
<1> QED BY <1>3, <1>4 DEF Contract!Settle

LEMMA WorkerRefines ==
  ASSUME TablesInv, TablesInv', NEW w \in Workers, WorkerStep(w) \/ WorkerError(w),
         ~StopJobs(w), ~CloseJobs(w)
  PROVE  Contract!Settle
<1>1. jobStatus' = jobStatus
  BY DEF WorkerStep, WorkerError, ClaimNext, ClaimNothing, AnswerSuccess, AnswerFailure,
         RecordSuccess, SaveSuccess, IgnoreLateSuccess, RecordFailure, Judge, tables
<1>2. ASSUME NEW t \in Tasks
      PROVE  \/ StatusResult(status'[t]) = StatusResult(status[t])
             \/ status[t] = "IN_FLIGHT" /\ status'[t] \in {"SUCCEEDED", "FAILED"}
  <2>1. ASSUME NEW u \in Tasks, ClaimNext(w, u)
        PROVE  StatusResult(status'[t]) = StatusResult(status[t])
    BY <2>1 DEF ClaimNext, Claimable, StatusResult, TablesInv, TypeOK
  <2>2. CASE RecordSuccess(w)
    BY <2>2 DEF RecordSuccess, SaveSuccess, IgnoreLateSuccess, HoldsLease, EndLease,
                StatusResult, TablesInv, TypeOK
  <2>3. CASE RecordFailure(w)
    BY <2>3 DEF RecordFailure, ScheduleRetry, FailForGood, IgnoreLateFailure, HoldsLease,
                EndLease, StatusResult, TablesInv, TypeOK
  <2>4. CASE status' = status
    BY <2>4
  <2> QED BY <2>1, <2>2, <2>3, <2>4
          DEF WorkerStep, WorkerError, ClaimNothing, AnswerSuccess, AnswerFailure, Judge, tables
<1> QED BY <1>1, <1>2, SettleStep

LEMMA StartRefines ==
  ASSUME TablesInv, TablesInv', NEW j \in Jobs, StartJob(j)
  PROVE  Contract!Start(j)
<1>1. \A t \in Tasks : ResultOf(t) = StatusResult(status[t])
  BY ResultsAreStatuses
<1>2. \A t \in Tasks : ResultOf(t)' = IF JobOf[t] = j THEN "open" ELSE ResultOf(t)
  BY <1>1, JobsAssumption
  DEF StartJob, TablesInv, TasksMatchJob, MetricsFromLatestAttempt, ResultOf, StatusResult
<1>3. Contract!StartWith(j, TasksOf(j))
  BY <1>2 DEF StartJob, NoneActive, TasksOf, Contract!StartWith
<1>4. TasksOf(j) \in SUBSET Contract!TasksOf(j) /\ TasksOf(j) # {}
  BY JobsAssumption DEF TasksOf, Contract!TasksOf
<1> QED BY <1>3, <1>4 DEF Contract!Start

LEMMA StopRefines ==
  ASSUME TablesInv, TablesInv', FailRunningJobsSystemically, UNCHANGED metrics
  PROVE  [Contract!ContractNext]_(Contract!contractVars)
<1>1. \A t \in Tasks : ResultOf(t) = StatusResult(status[t])
  BY ResultsAreStatuses
<1>2. \A t \in Tasks : ResultOf(t)' =
        IF jobStatus[JobOf[t]] = "RUNNING" /\ ResultOf(t) = "open"
        THEN "aborted" ELSE ResultOf(t)
  BY <1>1 DEF FailRunningJobsSystemically, TablesInv, TypeOK, TaskStatus, Open,
              MetricsFromLatestAttempt, ResultOf, StatusResult
<1>3. ASSUME NEW j \in Jobs, jobStatus[j] = "RUNNING"
      PROVE  Contract!Stop(j)
  <2>1. \A k \in Jobs : jobStatus[k] = "RUNNING" <=> k = j
    BY <1>3 DEF TablesInv, OneActiveJob
  <2>2. jobStatus' = [jobStatus EXCEPT ![j] = "FAILED_SYSTEMIC"]
    BY <2>1 DEF FailRunningJobsSystemically, TablesInv, TypeOK
  <2>3. \A t \in Tasks : ResultOf(t)' =
          IF JobOf[t] = j /\ ResultOf(t) = "open" THEN "aborted" ELSE ResultOf(t)
    BY <1>2, <2>1, JobsAssumption
  <2> QED BY <1>3, <2>2, <2>3 DEF Contract!Stop
<1>4. CASE \A j \in Jobs : jobStatus[j] # "RUNNING"
  <2>1. jobStatus' = jobStatus
    BY <1>4 DEF FailRunningJobsSystemically, TablesInv, TypeOK
  <2>2. \A t \in Tasks : ResultOf(t)' = ResultOf(t)
    BY <1>2, <1>4, JobsAssumption
  <2> QED BY <2>1, <2>2 DEF Contract!contractVars
<1> QED BY <1>3, <1>4 DEF Contract!ContractNext

LEMMA CloseRefines ==
  ASSUME TablesInv, TablesInv', FinalizeFinishedJobs, UNCHANGED <<status, metrics>>
  PROVE  [Contract!ContractNext]_(Contract!contractVars)
<1>1. \A t \in Tasks : ResultOf(t) = StatusResult(status[t])
  BY ResultsAreStatuses
<1>2. \A t \in Tasks : ResultOf(t)' = ResultOf(t)
  BY DEF ResultOf
<1>3. ASSUME NEW j \in Jobs, Finished(j)
      PROVE  Contract!Close(j)
  <2>1. \A k \in Jobs : Finished(k) <=> k = j
    BY <1>3 DEF Finished, TablesInv, OneActiveJob
  <2>2. jobStatus' = [jobStatus EXCEPT ![j] = ClosedAs(j)]
    BY <2>1 DEF FinalizeFinishedJobs, TablesInv, TypeOK
  <2>3. \A t \in TasksOf(j) : ResultOf(t) \in {"enriched", "failed"}
    BY <1>1, <1>3 DEF Finished, TasksOf, Open, StatusResult, TablesInv, TypeOK, TaskStatus,
                      TasksMatchJob
  <2>4. \A t \in TasksOf(j) : status[t] \in {"FAILED", "ABORTED"} <=> ResultOf(t) = "failed"
    BY <1>1, <1>3, <2>3 DEF TasksOf, StatusResult
  <2>5. ClosedAs(j) = IF \E t \in TasksOf(j) : ResultOf(t) = "failed"
                      THEN "COMPLETED_WITH_FAILURES" ELSE "COMPLETED"
    BY <2>4 DEF ClosedAs
  <2> QED BY <1>2, <1>3, <2>2, <2>3, <2>5
          DEF Contract!Close, Contract!TasksOf, TasksOf, Finished
<1>4. CASE \A j \in Jobs : ~Finished(j)
  <2>1. jobStatus' = jobStatus
    BY <1>4 DEF FinalizeFinishedJobs, TablesInv, TypeOK
  <2> QED BY <1>2, <2>1 DEF Contract!contractVars
<1> QED BY <1>3, <1>4 DEF Contract!ContractNext

LEMMA NextContract ==
  TablesInv /\ TablesInv' /\ [Next]_vars => [Contract!ContractNext]_(Contract!contractVars)
<1> SUFFICES ASSUME TablesInv, TablesInv', [Next]_vars
             PROVE  [Contract!ContractNext]_(Contract!contractVars)
  OBVIOUS
<1>1. CASE UNCHANGED vars
  BY <1>1 DEF vars, ResultOf, Contract!contractVars
<1>2. ASSUME NEW j \in Jobs, StartJob(j) PROVE Contract!ContractNext
  BY <1>2, StartRefines DEF Contract!ContractNext
<1>3. ASSUME NEW w \in Workers, WorkerStep(w) \/ WorkerError(w)
      PROVE  [Contract!ContractNext]_(Contract!contractVars)
  <2>1. CASE StopJobs(w)
    BY <2>1, StopRefines DEF StopJobs
  <2>2. CASE CloseJobs(w)
    BY <2>2, CloseRefines DEF CloseJobs
  <2>3. CASE ~StopJobs(w) /\ ~CloseJobs(w)
    BY <1>3, <2>3, WorkerRefines DEF Contract!ContractNext
  <2> QED BY <2>1, <2>2, <2>3
<1>4. ASSUME NEW p \in Processes, ReaperStep(p) \/ ReaperError(p) \/ Crash(p)
      PROVE  [Contract!ContractNext]_(Contract!contractVars)
  <2>1. CASE ReaperCloses(p)
    BY <2>1, CloseRefines DEF ReaperCloses
  <2>2. CASE Reap(p)
    <3>1. \A t \in Tasks :
            \/ StatusResult(status'[t]) = StatusResult(status[t])
            \/ status[t] = "IN_FLIGHT" /\ status'[t] \in {"SUCCEEDED", "FAILED"}
      BY <2>2 DEF Reap, Reclaimed, StatusResult
    <3> QED BY <2>2, <3>1, SettleStep DEF Reap, Contract!ContractNext
  <2>3. CASE ReaperError(p) \/ Crash(p)
    BY <2>3, SettleStep DEF ReaperError, Crash, tables, Contract!ContractNext
  <2> QED BY <1>4, <2>1, <2>2, <2>3 DEF ReaperStep
<1>5. ASSUME NEW t \in Tasks, Tick(t) PROVE Contract!ContractNext
  BY <1>5, SettleStep DEF Tick, RetryBecomesDue, LeaseExpires, Contract!ContractNext
<1> QED BY <1>1, <1>2, <1>3, <1>4, <1>5 DEF Next

(* The engine implements the contract: its initial states are initial       *)
(* states of JobContract and every step is a step of it or a stutter.       *)
THEOREM Refinement == Spec => ImplementsContract
BY InitContract, NextContract, TablesHold, PTL
DEF Spec, ImplementsContract, Contract!ContractSpec

-----------------------------------------------------------------------------
(* Nothing settled changes.                                                 *)

(* The part of KeepsSettled about tasks follows from what a step may do to  *)
(* one task's row.                                                          *)
LEMMA KeepsSettledRows ==
  ASSUME TablesInv, audit \subseteq audit',
         \A j \in Jobs : jobStatus[j] \in Terminal => jobStatus'[j] = jobStatus[j],
         \A t \in Tasks :
           /\ status'[t] = status[t] \/ status[t] \in {"ABSENT", "PENDING", "IN_FLIGHT"}
           /\ metrics'[t] = metrics[t] \/ metrics[t] = 0
           /\ attempts'[t] = attempts[t] \/ jobStatus[JobOf[t]] = "RUNNING"
  PROVE  KeepsSettled
BY DEF KeepsSettled, TasksOf, Terminal

LEMMA NextKeepsSettled == TablesInv /\ Next => KeepsSettled
<1> SUFFICES ASSUME TablesInv, Next PROVE KeepsSettled
  OBVIOUS
<1>1. audit \subseteq audit'
  BY DEF Next, WorkerStep, WorkerError, ReaperStep, ReaperError, Crash, Tick, StartJob,
         ClaimNext, ClaimNothing, AnswerSuccess, AnswerFailure, RecordSuccess, SaveSuccess,
         IgnoreLateSuccess, RecordFailure, ScheduleRetry, FailForGood, IgnoreLateFailure,
         Judge, StopJobs, CloseJobs, Reap, ReaperCloses, RetryBecomesDue, LeaseExpires, tables
<1>2. CASE UNCHANGED <<jobStatus, status, attempts, metrics>>
  BY <1>1, <1>2, KeepsSettledRows
<1>3. ASSUME NEW j \in Jobs, StartJob(j) PROVE KeepsSettled
  BY <1>1, <1>3, KeepsSettledRows, JobsAssumption
  DEF StartJob, TablesInv, TypeOK, TasksMatchJob, Terminal
<1>4. ASSUME NEW w \in Workers, NEW t \in Tasks, ClaimNext(w, t) PROVE KeepsSettled
  BY <1>1, <1>4, KeepsSettledRows DEF ClaimNext, Claimable, TablesInv, TypeOK
<1>5. ASSUME NEW w \in Workers, RecordSuccess(w) PROVE KeepsSettled
  BY <1>1, <1>5, KeepsSettledRows
  DEF RecordSuccess, SaveSuccess, IgnoreLateSuccess, HoldsLease, EndLease, TablesInv, TypeOK
<1>6. ASSUME NEW w \in Workers, RecordFailure(w) PROVE KeepsSettled
  BY <1>1, <1>6, KeepsSettledRows
  DEF RecordFailure, ScheduleRetry, FailForGood, IgnoreLateFailure, HoldsLease, EndLease,
      TablesInv, TypeOK
<1>7. ASSUME NEW w \in Workers, StopJobs(w) PROVE KeepsSettled
  BY <1>1, <1>7, KeepsSettledRows
  DEF StopJobs, FailRunningJobsSystemically, Open, Terminal
<1>8. ASSUME FinalizeFinishedJobs, UNCHANGED <<status, attempts, metrics>> PROVE KeepsSettled
  BY <1>1, <1>8, KeepsSettledRows DEF FinalizeFinishedJobs, Finished, Terminal
<1>9. ASSUME NEW p \in Processes, Reap(p) PROVE KeepsSettled
  BY <1>1, <1>9, KeepsSettledRows DEF Reap, Reclaimed
<1> QED
  BY <1>2, <1>3, <1>4, <1>5, <1>6, <1>7, <1>8, <1>9
  DEF Next, WorkerStep, WorkerError, ReaperStep, ReaperError, Crash, Tick, ClaimNothing,
      AnswerSuccess, AnswerFailure, Judge, CloseJobs, ReaperCloses, RetryBecomesDue,
      LeaseExpires, tables

(* No step of any loop, reaper or process revises what was settled.         *)
THEOREM SettledForever == Spec => NothingSettledChanges
<1>1. TablesInv /\ [Next]_vars => [KeepsSettled]_vars
  BY NextKeepsSettled
<1> QED BY <1>1, TablesHold, PTL DEF Spec, NothingSettledChanges

-----------------------------------------------------------------------------
(* What the breakers count is on record.                                    *)

LEMMA SubsetCounted ==
  ASSUME NEW S, NEW T, IsFiniteSet(T), S \subseteq T
  PROVE  /\ IsFiniteSet(S) /\ Cardinality(S) \in Nat /\ Cardinality(T) \in Nat
         /\ Cardinality(S) <= Cardinality(T)
BY FS_Subset, FS_CardinalityType

LEMMA OneMore ==
  ASSUME NEW S, IsFiniteSet(S), NEW x, x \notin S
  PROVE  /\ IsFiniteSet(S \cup {x}) /\ Cardinality(S) \in Nat
         /\ Cardinality(S \cup {x}) = Cardinality(S) + 1
BY FS_AddElement, FS_CardinalityType

(* Rows are only ever added.                                                *)
LEMMA CountedGrow ==
  ASSUME IsFiniteSet(audit'), audit \subseteq audit'
  PROVE  /\ Cardinality(CountedFailures) \in Nat /\ Cardinality(CountedFailures') \in Nat
         /\ Cardinality(CountedFailures) <= Cardinality(CountedFailures')
<1>1. CountedFailures \subseteq CountedFailures' /\ CountedFailures' \subseteq audit'
  BY DEF CountedFailures
<1>2. IsFiniteSet(CountedFailures')
  BY <1>1, SubsetCounted
<1> QED BY <1>1, <1>2, SubsetCounted

(* A step that tells no breaker of a failure and has none to be told of.    *)
LEMMA NothingToCount ==
  ASSUME TypeOK, TypeOK', StreaksAreOnRecord, IsFiniteSet(audit'), audit \subseteq audit',
         Unjudged' \subseteq Unjudged,
         \A p \in Processes : streak'[p] <= streak[p],
         \A w \in Workers : pc'[w] = "stopping" => pc[w] = "stopping"
  PROVE  StreaksAreOnRecord'
<1>1. /\ IsFiniteSet(Unjudged)
      /\ \A p \in Processes :
           streak[p] + Cardinality(Unjudged) <= Cardinality(CountedFailures)
      /\ (\E w \in Workers : pc[w] = "stopping") =>
           Cardinality(CountedFailures) >= MinFailures
  BY DEF StreaksAreOnRecord
<1>2. /\ Cardinality(CountedFailures) \in Nat /\ Cardinality(CountedFailures') \in Nat
      /\ Cardinality(CountedFailures) <= Cardinality(CountedFailures')
  BY CountedGrow
<1>3. /\ IsFiniteSet(Unjudged') /\ Cardinality(Unjudged) \in Nat
      /\ Cardinality(Unjudged') \in Nat /\ Cardinality(Unjudged') <= Cardinality(Unjudged)
  BY <1>1, SubsetCounted
<1>4. ASSUME NEW p \in Processes
      PROVE  streak'[p] + Cardinality(Unjudged') <= Cardinality(CountedFailures')
  <2>1. streak[p] \in Nat /\ streak'[p] \in Nat
    BY DEF TypeOK
  <2> QED BY <1>1, <1>2, <1>3, <2>1
<1>5. (\E w \in Workers : pc'[w] = "stopping") =>
        Cardinality(CountedFailures') >= MinFailures
  BY <1>1, <1>2, BudgetAssumption
<1> QED BY <1>3, <1>4, <1>5 DEF StreaksAreOnRecord

(* A failure is on record before a breaker is told of it.                   *)
LEMMA RecordedBeforeJudged ==
  ASSUME TablesInv, TypeOK', StreaksAreOnRecord, NEW w \in Workers, RecordFailure(w)
  PROVE  StreaksAreOnRecord'
<1>1. TypeOK /\ Busy(w) /\ pc[w] = "recording" /\ outcome[w] \in FailureKinds
  BY DEF TablesInv, ClaimsAreExclusive, RecordFailure, Busy
<1>2. PICK what \in {AttemptOutcomeOf(outcome[w]), "STALE_IGNORED"} :
        audit' = audit \cup {AttemptRow(w, what)}
  BY DEF RecordFailure, ScheduleRetry, FailForGood, IgnoreLateFailure
<1> DEFINE row == AttemptRow(w, what)
<1>3. row \notin audit /\ row.outcome = what
  BY <1>1, BusyLoop DEF AttemptRow
<1>4. /\ \A v \in Workers : pc'[v] = IF v = w THEN "judging" ELSE pc[v]
      /\ UNCHANGED <<outcome, streak>>
  BY <1>1 DEF RecordFailure, TypeOK
<1>5. IsFiniteSet(audit) /\ IsFiniteSet(Unjudged)
  BY DEF StreaksAreOnRecord
<1> HIDE DEF row
<1>6. audit' = audit \cup {row}
  BY <1>2 DEF row
<1>7. IsFiniteSet(audit') /\ audit \subseteq audit'
  BY <1>3, <1>5, <1>6, OneMore
<1>8. w \notin Unjudged
  BY <1>1 DEF Unjudged
<1>9. CASE IgnoredByBreaker(outcome[w])
  <2>1. Unjudged' \subseteq Unjudged
    BY <1>4, <1>9 DEF Unjudged
  <2>2. \A v \in Workers : pc'[v] = "stopping" => pc[v] = "stopping"
    BY <1>4
  <2>3. \A p \in Processes : streak'[p] <= streak[p]
    BY <1>1, <1>4 DEF TypeOK
  <2> QED BY <1>1, <1>7, <2>1, <2>2, <2>3, NothingToCount
<1>10. CASE ~IgnoredByBreaker(outcome[w])
  <2>1. what \in {"UNHEALTHY", "STALE_IGNORED"}
    BY <1>1, <1>2, <1>10 DEF IgnoredByBreaker, AttemptOutcomeOf, FailureKinds
  <2>2. CountedFailures' = CountedFailures \cup {row} /\ row \notin CountedFailures
    BY <1>3, <1>6, <2>1 DEF CountedFailures
  <2>3. IsFiniteSet(CountedFailures)
    BY <1>5, SubsetCounted DEF CountedFailures
  <2>4. /\ Cardinality(CountedFailures) \in Nat
        /\ Cardinality(CountedFailures') = Cardinality(CountedFailures) + 1
    BY <2>2, <2>3, OneMore
  <2>5. Unjudged' = Unjudged \cup {w}
    BY <1>4, <1>10 DEF Unjudged
  <2>6. /\ IsFiniteSet(Unjudged') /\ Cardinality(Unjudged) \in Nat
        /\ Cardinality(Unjudged') = Cardinality(Unjudged) + 1
    BY <1>5, <1>8, <2>5, OneMore
  <2>7. ASSUME NEW p \in Processes
        PROVE  streak'[p] + Cardinality(Unjudged') <= Cardinality(CountedFailures')
    <3>1. streak[p] + Cardinality(Unjudged) <= Cardinality(CountedFailures)
      BY DEF StreaksAreOnRecord
    <3>2. streak[p] \in Nat /\ streak'[p] = streak[p]
      BY <1>1, <1>4 DEF TypeOK
    <3> QED BY <2>4, <2>6, <3>1, <3>2
  <2>8. (\E v \in Workers : pc'[v] = "stopping") =>
          Cardinality(CountedFailures') >= MinFailures
    <3>1. (\E v \in Workers : pc'[v] = "stopping") => (\E v \in Workers : pc[v] = "stopping")
      BY <1>4
    <3>2. (\E v \in Workers : pc[v] = "stopping") =>
            Cardinality(CountedFailures) >= MinFailures
      BY DEF StreaksAreOnRecord
    <3> QED BY <2>4, <3>1, <3>2, BudgetAssumption
  <2> QED BY <1>7, <2>6, <2>7, <2>8 DEF StreaksAreOnRecord
<1> QED BY <1>9, <1>10

(* A verdict takes one of the unjudged failures and counts it.              *)
LEMMA JudgedFromRecord ==
  ASSUME TablesInv, TypeOK', StreaksAreOnRecord, NEW w \in Workers, Judge(w)
  PROVE  StreaksAreOnRecord'
<1>1. TypeOK /\ pc[w] = "judging" /\ UNCHANGED audit
  BY DEF TablesInv, Judge, tables
<1>2. /\ \A v \in Workers \ {w} : pc'[v] = pc[v] /\ outcome'[v] = outcome[v]
      /\ pc'[w] # "judging"
  BY <1>1 DEF TypeOK, Judge, JudgeIgnored, JudgeCounted, JudgeTripped, Untripped, Release
<1>3. IsFiniteSet(audit') /\ IsFiniteSet(Unjudged)
  BY <1>1 DEF StreaksAreOnRecord
<1>4. Unjudged' = Unjudged \ {w}
  BY <1>2 DEF Unjudged
<1>5. CASE JudgeIgnored(w)
  <2>1. /\ \A p \in Processes : streak'[p] <= streak[p]
        /\ pc'[w] # "stopping"
    BY <1>1, <1>5 DEF TypeOK, JudgeIgnored, Untripped, Release
  <2> QED BY <1>1, <1>2, <1>3, <1>4, <2>1, NothingToCount
<1>6. CASE ~IgnoredByBreaker(outcome[w])
  <2>1. w \in Unjudged
    BY <1>1, <1>6 DEF Unjudged
  <2>2. /\ IsFiniteSet(Unjudged') /\ Cardinality(Unjudged') \in Nat
        /\ Cardinality(Unjudged) = Cardinality(Unjudged') + 1
    <3>1. IsFiniteSet(Unjudged') /\ w \notin Unjudged' /\ Unjudged = Unjudged' \cup {w}
      BY <1>3, <1>4, <2>1, SubsetCounted
    <3> QED BY <3>1, OneMore
  <2>3. /\ CountedFailures' = CountedFailures /\ Cardinality(CountedFailures) \in Nat
        /\ \A p \in Processes :
             streak[p] + Cardinality(Unjudged) <= Cardinality(CountedFailures)
        /\ (\E v \in Workers : pc[v] = "stopping") =>
             Cardinality(CountedFailures) >= MinFailures
    BY <1>1, <1>3, CountedGrow DEF StreaksAreOnRecord, CountedFailures
  <2>4. CASE JudgeCounted(w)
    <3>1. \A p \in Processes : streak[p] \in Nat /\ streak'[p] \in Nat
      BY <1>1 DEF TypeOK
    <3>2. \A p \in Processes : streak'[p] <= streak[p] + 1
      <4>1. PICK before \in {0, streak[ProcOf[w]]} :
              streak' = [streak EXCEPT ![ProcOf[w]] = Saturated(before + 1)]
        BY <2>4 DEF JudgeCounted
      <4>2. ProcOf[w] \in Processes
        BY WorkersAssumption
      <4>3. Saturated(before + 1) <= streak[ProcOf[w]] + 1
        BY <3>1, <4>1, <4>2, BudgetAssumption DEF Saturated
      <4> QED BY <1>1, <3>1, <4>1, <4>2, <4>3 DEF TypeOK
    <3>3. pc'[w] # "stopping"
      BY <1>1, <2>4 DEF TypeOK, JudgeCounted, Untripped, Release
    <3>4. ASSUME NEW p \in Processes
          PROVE  streak'[p] + Cardinality(Unjudged') <= Cardinality(CountedFailures')
      BY <2>2, <2>3, <3>1, <3>2
    <3>5. (\E v \in Workers : pc'[v] = "stopping") =>
            Cardinality(CountedFailures') >= MinFailures
      BY <1>2, <2>3, <3>3
    <3> QED BY <1>3, <2>2, <3>4, <3>5 DEF StreaksAreOnRecord
  <2>5. CASE JudgeTripped(w)
    <3>1. ProcOf[w] \in Processes
      BY WorkersAssumption
    <3>2. /\ \A p \in Processes : streak[p] \in Nat /\ streak'[p] \in Nat /\ streak'[p] <= streak[p]
          /\ streak[ProcOf[w]] + 1 >= MinFailures
      BY <1>1, <2>5, <3>1 DEF TypeOK, JudgeTripped
    <3>3. Cardinality(CountedFailures') >= MinFailures
      BY <2>2, <2>3, <3>1, <3>2, BudgetAssumption
    <3>4. ASSUME NEW p \in Processes
          PROVE  streak'[p] + Cardinality(Unjudged') <= Cardinality(CountedFailures')
      BY <2>2, <2>3, <3>2
    <3> QED BY <1>3, <2>2, <3>3, <3>4 DEF StreaksAreOnRecord
  <2> QED BY <1>6, <2>4, <2>5 DEF Judge, JudgeIgnored
<1> QED BY <1>5, <1>6 DEF Judge, JudgeCounted, JudgeTripped

(* The other steps tell no breaker of a failure.                            *)
LEMMA StreaksStep ==
  ASSUME TablesInv, TypeOK', StreaksAreOnRecord, [Next]_vars
  PROVE  StreaksAreOnRecord'
<1> USE DEF TablesInv
<1>1. IsFiniteSet(audit)
  BY DEF StreaksAreOnRecord
<1>2. ASSUME UNCHANGED audit, Unjudged' \subseteq Unjudged,
             \A p \in Processes : streak'[p] <= streak[p],
             \A w \in Workers : pc'[w] = "stopping" => pc[w] = "stopping"
      PROVE  StreaksAreOnRecord'
  BY <1>1, <1>2, NothingToCount
<1>3. ASSUME UNCHANGED streak PROVE \A p \in Processes : streak'[p] <= streak[p]
  BY <1>3 DEF TypeOK
<1>4. ASSUME UNCHANGED workers
      PROVE  /\ Unjudged' \subseteq Unjudged
             /\ \A w \in Workers : pc'[w] = "stopping" => pc[w] = "stopping"
  BY <1>4 DEF workers, Unjudged
<1>5. ASSUME NEW w \in Workers, pc'[w] \notin {"judging", "stopping"},
             \A v \in Workers \ {w} : pc'[v] = pc[v] /\ outcome'[v] = outcome[v]
      PROVE  /\ Unjudged' \subseteq Unjudged
             /\ \A v \in Workers : pc'[v] = "stopping" => pc[v] = "stopping"
  BY <1>5 DEF Unjudged
<1>6. ASSUME NEW j \in Jobs, StartJob(j) PROVE StreaksAreOnRecord'
  BY <1>2, <1>3, <1>4, <1>6 DEF StartJob
<1>7. ASSUME NEW w \in Workers, NEW t \in Tasks, ClaimNext(w, t) PROVE StreaksAreOnRecord'
  <2>1. /\ pc'[w] \notin {"judging", "stopping"} /\ UNCHANGED <<audit, streak>>
        /\ \A v \in Workers \ {w} : pc'[v] = pc[v] /\ outcome'[v] = outcome[v]
    BY <1>7 DEF ClaimNext, TypeOK
  <2> QED BY <1>2, <1>3, <1>5, <2>1
<1>8. ASSUME NEW w \in Workers, ClaimNothing(w) PROVE StreaksAreOnRecord'
  <2>1. /\ pc'[w] \notin {"judging", "stopping"} /\ UNCHANGED <<audit, streak>>
        /\ \A v \in Workers \ {w} : pc'[v] = pc[v] /\ outcome'[v] = outcome[v]
    BY <1>8 DEF ClaimNothing, tables, TypeOK
  <2> QED BY <1>2, <1>3, <1>5, <2>1
<1>9. ASSUME NEW w \in Workers, AnswerSuccess(w) PROVE StreaksAreOnRecord'
  <2>1. /\ pc'[w] \notin {"judging", "stopping"} /\ UNCHANGED audit
        /\ \A v \in Workers \ {w} : pc'[v] = pc[v] /\ outcome'[v] = outcome[v]
    BY <1>9 DEF AnswerSuccess, tables, TypeOK
  <2>2. \A p \in Processes : streak'[p] <= streak[p]
    BY <1>9 DEF AnswerSuccess, TypeOK
  <2> QED BY <1>2, <1>5, <2>1, <2>2
<1>10. ASSUME NEW w \in Workers, NEW kind \in FailureKinds, AnswerFailure(w, kind)
       PROVE  StreaksAreOnRecord'
  <2>1. /\ pc'[w] \notin {"judging", "stopping"} /\ UNCHANGED <<audit, streak>>
        /\ \A v \in Workers \ {w} : pc'[v] = pc[v] /\ outcome'[v] = outcome[v]
    BY <1>10 DEF AnswerFailure, tables, TypeOK
  <2> QED BY <1>2, <1>3, <1>5, <2>1
<1>11. ASSUME NEW w \in Workers, RecordSuccess(w) PROVE StreaksAreOnRecord'
  <2>1. /\ pc'[w] \notin {"judging", "stopping"} /\ UNCHANGED streak
        /\ \A v \in Workers \ {w} : pc'[v] = pc[v] /\ outcome'[v] = outcome[v]
    BY <1>11 DEF RecordSuccess, SaveSuccess, IgnoreLateSuccess, Release, TypeOK
  <2>2. PICK what \in {"SUCCEEDED", "STALE_IGNORED"} :
          audit' = audit \cup {AttemptRow(w, what)}
    BY <1>11 DEF RecordSuccess, SaveSuccess, IgnoreLateSuccess
  <2>3. Busy(w)
    BY <1>11 DEF RecordSuccess, Busy
  <2>4. AttemptRow(w, what) \notin audit
    BY <2>3, BusyLoop DEF AttemptRow
  <2>5. IsFiniteSet(audit') /\ audit \subseteq audit'
    BY <1>1, <2>2, <2>4, OneMore
  <2> QED BY <1>3, <1>5, <2>1, <2>5, NothingToCount
<1>12. ASSUME NEW w \in Workers, StopJobs(w) \/ CloseJobs(w) PROVE StreaksAreOnRecord'
  <2>1. /\ pc'[w] \notin {"judging", "stopping"} /\ UNCHANGED <<audit, streak>>
        /\ \A v \in Workers \ {w} : pc'[v] = pc[v] /\ outcome'[v] = outcome[v]
    BY <1>12 DEF StopJobs, CloseJobs, Release, TypeOK
  <2> QED BY <1>2, <1>3, <1>5, <2>1
<1>13. ASSUME NEW w \in Workers, WorkerError(w) PROVE StreaksAreOnRecord'
  <2>1. /\ pc'[w] \notin {"judging", "stopping"} /\ UNCHANGED <<audit, streak>>
        /\ \A v \in Workers \ {w} : pc'[v] = pc[v] /\ outcome'[v] = outcome[v]
    BY <1>13 DEF WorkerError, Release, tables, TypeOK
  <2> QED BY <1>2, <1>3, <1>5, <2>1
<1>14. ASSUME NEW p \in Processes, ReaperStep(p) \/ ReaperError(p) PROVE StreaksAreOnRecord'
  <2>1. UNCHANGED <<audit, workers, streak>>
    BY <1>14 DEF ReaperStep, Reap, ReaperCloses, ReaperError, tables
  <2> QED BY <1>2, <1>3, <1>4, <2>1
<1>15. ASSUME NEW p \in Processes, Crash(p) PROVE StreaksAreOnRecord'
  <2>1. UNCHANGED audit /\ \A q \in Processes : streak'[q] <= streak[q]
    BY <1>15 DEF Crash, tables, TypeOK
  <2>2. Unjudged' \subseteq Unjudged
    BY <1>15 DEF Crash, Unjudged
  <2>3. \A w \in Workers : pc'[w] = "stopping" => pc[w] = "stopping"
    BY <1>15 DEF Crash
  <2> QED BY <1>2, <2>1, <2>2, <2>3
<1>16. ASSUME NEW t \in Tasks, Tick(t) PROVE StreaksAreOnRecord'
  <2>1. UNCHANGED <<audit, workers, streak>>
    BY <1>16 DEF Tick, RetryBecomesDue, LeaseExpires
  <2> QED BY <1>2, <1>3, <1>4, <2>1
<1>17. CASE UNCHANGED vars
  <2>1. UNCHANGED <<audit, workers, streak>>
    BY <1>17 DEF vars, workers
  <2> QED BY <1>2, <1>3, <1>4, <2>1
<1>18. ASSUME NEW w \in Workers, WorkerStep(w) \/ WorkerError(w) PROVE StreaksAreOnRecord'
  BY <1>7, <1>8, <1>9, <1>10, <1>11, <1>12, <1>13, <1>18, RecordedBeforeJudged,
     JudgedFromRecord DEF WorkerStep
<1> QED BY <1>6, <1>14, <1>15, <1>16, <1>17, <1>18 DEF Next

(* Only a loop whose breaker tripped stops jobs.                            *)
LEMMA OnlyTripsStop ==
  ASSUME TablesInv, [Next]_vars, NEW j \in Jobs, jobStatus'[j] = "FAILED_SYSTEMIC"
  PROVE  jobStatus[j] = "FAILED_SYSTEMIC" \/ \E w \in Workers : pc[w] = "stopping"
<1> USE DEF TablesInv, TypeOK
<1>1. CASE UNCHANGED jobStatus
  BY <1>1
<1>2. ASSUME FinalizeFinishedJobs PROVE jobStatus[j] = "FAILED_SYSTEMIC"
  BY <1>2 DEF FinalizeFinishedJobs, ClosedAs
<1>3. ASSUME NEW k \in Jobs, StartJob(k) PROVE jobStatus[j] = "FAILED_SYSTEMIC"
  BY <1>3 DEF StartJob
<1>4. ASSUME NEW w \in Workers, WorkerStep(w) \/ WorkerError(w)
      PROVE  UNCHANGED jobStatus \/ FinalizeFinishedJobs \/ pc[w] = "stopping"
  BY <1>4 DEF WorkerStep, ClaimNext, ClaimNothing, AnswerSuccess, AnswerFailure,
     RecordSuccess, SaveSuccess, IgnoreLateSuccess, RecordFailure, Judge, StopJobs,
     CloseJobs, WorkerError, tables
<1>5. ASSUME NEW p \in Processes, ReaperStep(p) \/ ReaperError(p) \/ Crash(p)
      PROVE  UNCHANGED jobStatus \/ FinalizeFinishedJobs
  BY <1>5 DEF ReaperStep, Reap, ReaperCloses, ReaperError, Crash, tables
<1>6. ASSUME NEW t \in Tasks, Tick(t) PROVE UNCHANGED jobStatus
  BY <1>6 DEF Tick, RetryBecomesDue, LeaseExpires
<1>7. UNCHANGED vars => UNCHANGED jobStatus
  BY DEF vars
<1> QED BY <1>1, <1>2, <1>3, <1>4, <1>5, <1>6, <1>7 DEF Next

LEMMA StopStep ==
  ASSUME TablesInv, StreaksAreOnRecord, StreaksAreOnRecord', SystemicStopNeedsFailures,
         [Next]_vars, audit \subseteq audit'
  PROVE  SystemicStopNeedsFailures'
<1> SUFFICES ASSUME NEW j \in Jobs, jobStatus'[j] = "FAILED_SYSTEMIC"
             PROVE  Cardinality(CountedFailures') >= MinFailures
  BY DEF SystemicStopNeedsFailures
<1>1. Cardinality(CountedFailures) >= MinFailures
  BY OnlyTripsStop DEF SystemicStopNeedsFailures, StreaksAreOnRecord
<1>2. /\ Cardinality(CountedFailures) \in Nat /\ Cardinality(CountedFailures') \in Nat
      /\ Cardinality(CountedFailures) <= Cardinality(CountedFailures')
  BY CountedGrow DEF StreaksAreOnRecord
<1> QED BY <1>1, <1>2, BudgetAssumption

(* Whatever the number of loops, processes, crashes and errors, every       *)
(* reachable state satisfies the inductive invariant.                       *)
THEOREM Invariance == Spec => []IndInv
<1>1. Init => StreaksAreOnRecord /\ SystemicStopNeedsFailures
  <2> SUFFICES ASSUME Init PROVE StreaksAreOnRecord /\ SystemicStopNeedsFailures
    OBVIOUS
  <2>1. Unjudged = {} /\ audit = {} /\ CountedFailures = {}
    BY DEF Init, Unjudged, CountedFailures
  <2>2. IsFiniteSet({}) /\ Cardinality({}) = 0
    BY FS_EmptySet
  <2>3. \A p \in Processes : streak[p] = 0
    BY DEF Init
  <2>4. \A w \in Workers : pc[w] # "stopping"
    BY DEF Init
  <2>5. \A j \in Jobs : jobStatus[j] # "FAILED_SYSTEMIC"
    BY DEF Init
  <2> QED BY <2>1, <2>2, <2>3, <2>4, <2>5
          DEF StreaksAreOnRecord, SystemicStopNeedsFailures
<1>2. TablesInv /\ TablesInv' /\ StreaksAreOnRecord /\ SystemicStopNeedsFailures /\ [Next]_vars
        => StreaksAreOnRecord' /\ SystemicStopNeedsFailures'
  <2> SUFFICES ASSUME TablesInv, TablesInv', StreaksAreOnRecord, SystemicStopNeedsFailures,
                      [Next]_vars
               PROVE  StreaksAreOnRecord' /\ SystemicStopNeedsFailures'
    OBVIOUS
  <2>1. TypeOK'
    BY DEF TablesInv
  <2>2. StreaksAreOnRecord'
    BY <2>1, StreaksStep
  <2>3. audit \subseteq audit'
    BY NextKeepsSettled DEF KeepsSettled, vars
  <2> QED BY <2>2, <2>3, StopStep
<1>3. IndInv <=> TablesInv /\ StreaksAreOnRecord /\ SystemicStopNeedsFailures
  BY DEF IndInv
<1> QED BY <1>1, <1>2, <1>3, TablesHold, PTL DEF Spec

(* A job is stopped as systemically broken only after MinFailures calls     *)
(* that failed or came too late, each of them on record.                    *)
THEOREM StopsNeedFailures == Spec => []SystemicStopNeedsFailures
<1>1. IndInv => SystemicStopNeedsFailures
  BY DEF IndInv
<1> QED BY <1>1, Invariance, PTL

-----------------------------------------------------------------------------
(* What the contract implies holds of the engine.                           *)
Promises == INSTANCE JobContractProofs
              WITH jobs <- jobStatus, results <- [t \in Tasks |-> ResultOf(t)]

THEOREM PromisesKept == Spec => []ContractPromises
<1>1. Promises!ContractConstants
  BY JobsAssumption DEF Promises!ContractConstants
<1>2. Spec => Promises!ContractSpec
  <2>1. Contract!ContractInit => Promises!ContractInit
    BY DEF Contract!ContractInit, Promises!ContractInit
  <2>2. [Contract!ContractNext]_(Contract!contractVars)
          => [Promises!ContractNext]_(Promises!contractVars)
    BY DEF Contract!ContractNext, Contract!contractVars, Contract!Start, Contract!StartWith, Contract!Close,
      Contract!Stop, Contract!Settle, Contract!TasksOf, Contract!Results,
      Promises!ContractNext, Promises!contractVars, Promises!Start, Promises!StartWith, Promises!Close,
      Promises!Stop, Promises!Settle, Promises!TasksOf, Promises!Results
  <2> QED BY <2>1, <2>2, Refinement, PTL
          DEF ImplementsContract, Contract!ContractSpec, Promises!ContractSpec
<1>3. Promises!ContractSpec =>
        [](Promises!StatusMatchesResults /\ Promises!FailuresHaveACulprit /\ Promises!OneJobAtATime)
  BY <1>1, Promises!ContractSound
<1>4. Promises!StatusMatchesResults /\ Promises!FailuresHaveACulprit => ContractPromises
  BY DEF ContractPromises, Promises!StatusMatchesResults, Promises!FailuresHaveACulprit,
    Promises!TasksOf, Contract!StatusMatchesResults, Contract!FailuresHaveACulprit,
    Contract!TasksOf
<1> QED BY <1>2, <1>3, <1>4, PTL
=============================================================================
