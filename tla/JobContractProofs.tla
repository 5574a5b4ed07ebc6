-------------------------- MODULE JobContractProofs --------------------------
(***************************************************************************)
(* What JobContract implies, for every number of jobs and stores.          *)
(***************************************************************************)
EXTENDS JobContract, TLAPS

LEMMA ContractInitInv ==
  ASSUME ContractConstants PROVE ContractInit => ContractInv
BY DEF ContractConstants, ContractInit, ContractInv, ContractTypeOK, StatusMatchesResults, FailuresHaveACulprit,
    OneJobAtATime, JobStatuses, Results

LEMMA ContractNextInv ==
  ASSUME ContractConstants
  PROVE  ContractInv /\ [ContractNext]_contractVars => ContractInv'
<1> SUFFICES ASSUME ContractInv, [ContractNext]_contractVars PROVE ContractInv'
  OBVIOUS
<1> USE DEF ContractConstants, ContractInv, ContractTypeOK
<1>1. CASE UNCHANGED contractVars
  BY <1>1 DEF contractVars, StatusMatchesResults, FailuresHaveACulprit, OneJobAtATime
<1>2. ASSUME NEW j \in Jobs, NEW stores \in SUBSET TasksOf(j), StartWith(j, stores)
      PROVE  ContractInv'
  <2>1. ContractTypeOK'
    BY <1>2 DEF StartWith, JobStatuses, Results
  <2>2. StatusMatchesResults'
    BY <1>2 DEF StartWith, StatusMatchesResults, TasksOf
  <2>3. FailuresHaveACulprit' /\ OneJobAtATime'
    BY <1>2 DEF StartWith, FailuresHaveACulprit, StatusMatchesResults, OneJobAtATime, TasksOf
  <2> QED BY <2>1, <2>2, <2>3
<1>3. ASSUME NEW j \in Jobs, Close(j) PROVE ContractInv'
  <2>1. ContractTypeOK'
    BY <1>3 DEF Close, JobStatuses
  <2>2. StatusMatchesResults'
    BY <1>3 DEF Close, StatusMatchesResults, TasksOf
  <2>3. FailuresHaveACulprit' /\ OneJobAtATime'
    BY <1>3 DEF Close, FailuresHaveACulprit, OneJobAtATime, TasksOf
  <2> QED BY <2>1, <2>2, <2>3
<1>4. ASSUME NEW j \in Jobs, Stop(j) PROVE ContractInv'
  <2>1. ContractTypeOK'
    BY <1>4 DEF Stop, JobStatuses, Results
  <2>2. StatusMatchesResults'
    BY <1>4 DEF Stop, StatusMatchesResults
  <2>3. FailuresHaveACulprit' /\ OneJobAtATime'
    BY <1>4 DEF Stop, FailuresHaveACulprit, OneJobAtATime, TasksOf
  <2> QED BY <2>1, <2>2, <2>3
<1>5. CASE Settle
  <2>1. \A t \in Tasks : results'[t] # results[t] =>
          results[t] = "open" /\ results'[t] \in {"enriched", "failed"}
                              /\ jobs[JobOf[t]] = "RUNNING"
    BY <1>5 DEF Settle
  <2>2. StatusMatchesResults'
    BY <1>5, <2>1 DEF Settle, StatusMatchesResults
  <2>3. FailuresHaveACulprit' /\ OneJobAtATime'
    BY <1>5, <2>1 DEF Settle, FailuresHaveACulprit, OneJobAtATime, TasksOf
  <2> QED BY <1>5, <2>2, <2>3 DEF Settle
<1> QED BY <1>1, <1>2, <1>3, <1>4, <1>5 DEF ContractNext, Start

(* Every system that keeps the contract shows statuses that agree with the  *)
(* stores' results, has a failed store for every completed-with-failures    *)
(* job, and runs one job at a time.                                         *)
THEOREM ContractSound ==
  ASSUME ContractConstants
  PROVE  ContractSpec => [](StatusMatchesResults /\ FailuresHaveACulprit /\ OneJobAtATime)
<1>1. ContractInv => StatusMatchesResults /\ FailuresHaveACulprit /\ OneJobAtATime
  BY DEF ContractInv
<1> QED BY <1>1, ContractInitInv, ContractNextInv, PTL DEF ContractSpec
=============================================================================
