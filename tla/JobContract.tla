---------------------------- MODULE JobContract ----------------------------
(***************************************************************************)
(* What the enrichment side promises the rest of the system, and nothing   *)
(* about how: a job runs at most once and alone, every store of it ends    *)
(* with one result that is never revised, and the job's final status says  *)
(* what became of its stores.  No workers, leases, attempts or clocks.     *)
(* The dashboard, the failures list and scoring are built on this much.    *)
(***************************************************************************)
EXTENDS Naturals

CONSTANTS
  Jobs,     (* every job that may ever be created                          *)
  Tasks,    (* a task for every store a job may have                       *)
  JobOf     (* the job a task belongs to                                   *)

ContractConstants == JobOf \in [Tasks -> Jobs]

VARIABLES
  jobs,     (* the status of each job                                      *)
  results   (* what became of each task's store                            *)

contractVars == <<jobs, results>>

Results == {"absent", "open", "enriched", "failed", "aborted"}
JobStatuses ==
  {"ABSENT", "RUNNING", "COMPLETED", "COMPLETED_WITH_FAILURES", "FAILED_SYSTEMIC"}

TasksOf(j) == {t \in Tasks : JobOf[t] = j}

ContractInit ==
  /\ jobs = [j \in Jobs |-> "ABSENT"]
  /\ results = [t \in Tasks |-> "absent"]

(* A job starts only when no other job is active, with the stores of its    *)
(* upload open.                                                             *)
StartWith(j, stores) ==
  /\ jobs[j] = "ABSENT"
  /\ \A k \in Jobs : jobs[k] # "RUNNING"
  /\ jobs' = [jobs EXCEPT ![j] = "RUNNING"]
  /\ results' = [t \in Tasks |-> IF t \in stores THEN "open" ELSE results[t]]

Start(j) == \E stores \in SUBSET TasksOf(j) : stores # {} /\ StartWith(j, stores)

(* Some open stores of the running job get their one and only result. *)
Settle ==
  /\ UNCHANGED jobs
  /\ results' \in [Tasks -> Results]
  /\ \A t \in Tasks : results'[t] # results[t] =>
       /\ results[t] = "open"
       /\ jobs[JobOf[t]] = "RUNNING"
       /\ results'[t] \in {"enriched", "failed"}

(* A job whose stores all have a result closes, and its status says which. *)
Close(j) ==
  /\ jobs[j] = "RUNNING"
  /\ \A t \in TasksOf(j) : results[t] \in {"absent", "enriched", "failed"}
  /\ jobs' = [jobs EXCEPT ![j] =
       IF \E t \in TasksOf(j) : results[t] = "failed"
       THEN "COMPLETED_WITH_FAILURES" ELSE "COMPLETED"]
  /\ UNCHANGED results

(* A systemic stop keeps the results there are and gives up on the rest. *)
Stop(j) ==
  /\ jobs[j] = "RUNNING"
  /\ jobs' = [jobs EXCEPT ![j] = "FAILED_SYSTEMIC"]
  /\ results' = [t \in Tasks |->
       IF JobOf[t] = j /\ results[t] = "open" THEN "aborted" ELSE results[t]]

ContractNext ==
  \/ \E j \in Jobs : Start(j) \/ Close(j) \/ Stop(j)
  \/ Settle

ContractSpec == ContractInit /\ [][ContractNext]_contractVars

-----------------------------------------------------------------------------
(* What follows from the contract for whoever reads the tables.             *)

(* A job's status and its stores' results never contradict each other, long *)
(* after the moment the status was derived from them: job.repository.ts     *)
(* computes it once (212-271) and every page shows it next to live counts.  *)
StatusMatchesResults ==
  \A t \in Tasks :
    /\ jobs[JobOf[t]] = "ABSENT" => results[t] = "absent"
    /\ results[t] = "open" => jobs[JobOf[t]] = "RUNNING"
    /\ results[t] = "aborted" => jobs[JobOf[t]] = "FAILED_SYSTEMIC"
    /\ jobs[JobOf[t]] = "COMPLETED" => results[t] \in {"absent", "enriched"}

(* A job reported as completed with failures has a failed store to show in  *)
(* its failures list (job.repository.ts:159-200).                           *)
FailuresHaveACulprit ==
  \A j \in Jobs : jobs[j] = "COMPLETED_WITH_FAILURES" =>
    \E t \in TasksOf(j) : results[t] = "failed"

OneJobAtATime ==
  \A j, k \in Jobs : jobs[j] = "RUNNING" /\ jobs[k] = "RUNNING" => j = k

ContractTypeOK == /\ jobs \in [Jobs -> JobStatuses]
                  /\ results \in [Tasks -> Results]

ContractInv == /\ ContractTypeOK
               /\ StatusMatchesResults
               /\ FailuresHaveACulprit
               /\ OneJobAtATime
=============================================================================
