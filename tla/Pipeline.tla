------------------------------ MODULE Pipeline ------------------------------
(***************************************************************************)
(* From a file to tiers on a page: uploads (StoreUpload), the jobs started *)
(* from them, which keep JobContract, and scoring (Scoring).  How a job    *)
(* keeps its contract is EnrichmentEngine; here it is all that is known.   *)
(***************************************************************************)
EXTENDS StoreUpload, Scoring

CONSTANT NoUpload    (* the upload of a job that does not exist yet            *)

VARIABLE source      (* enrichment_jobs.upload_id, NoUpload before the insert *)

vars == <<phase, file, accepted, rejected, inserted, uploads, jobs, results, source,
          runs, post, shown, lookup, lists>>

(* A task is a job and a store of its upload.                               *)
ASSUME TasksAssumption == /\ Tasks = Jobs \X ValidStores
                          /\ JobOf = [t \in Tasks |-> t[1]]

(* Text order tells different store ids apart.                              *)
ASSUME RankAssumption ==
  \A t, u \in Tasks : StoreIdOf[t] = StoreIdOf[u] => t[2][IdColumn] = u[2][IdColumn]

Init ==
  /\ UploadInit
  /\ ContractInit
  /\ source = [j \in Jobs |-> NoUpload]
  /\ ScoringInit

(* Nobody can start a job before the upload's answer tells its id.          *)
Offered(u) == phase[u] = "answered"

(* POST /jobs: a PENDING task for every store of the upload.                *)
StartFromUpload(j, u) ==
  /\ Offered(u)
  /\ source' = [source EXCEPT ![j] = u]
  /\ StartWith(j, {<<j, s>> : s \in uploads[u]})

Uploading == (\E u \in Uploads : UploadStep(u)) /\ UNCHANGED <<jobs, results, source, scoringVars>>

Starting == /\ \E j \in Jobs, u \in Uploads : StartFromUpload(j, u)
            /\ UNCHANGED <<uploadVars, scoringVars>>

Enriching == /\ Settle \/ \E j \in Jobs : Close(j) \/ Stop(j)
             /\ UNCHANGED <<uploadVars, source, scoringVars>>

ScoringOrViewing == ScoringStep /\ UNCHANGED <<uploadVars, jobs, results, source>>

Next == Uploading \/ Starting \/ Enriching \/ ScoringOrViewing

Spec == Init /\ [][Next]_vars

-----------------------------------------------------------------------------
(* The jobs started from uploads keep the contract: among other things each *)
(* has a store, without which it could not be told from a finished one      *)
(* (upload.routes.ts:35-41 refuses a file without a valid row).             *)
Contract == INSTANCE JobContract
KeepsContract == Contract!ContractSpec

(* From end to end: when a job is COMPLETED and a run of it was answered as *)
(* complete, every store the file was accepted with has a tier, and no      *)
(* other has (csv-parser.ts, job.repository.ts:87-96, scoring.routes.ts:47).*)
EveryStoreGetsATier ==
  \A n \in DOMAIN runs :
    LET j == runs[n].job
    IN runs[n].claim = "complete" /\ jobs[j] = "COMPLETED" =>
         {s.task[2] : s \in runs[n].scores} = uploads[source[j]]

(* A job has a task for every store of its upload and no other.             *)
JobsCoverUploads ==
  \A j \in Jobs : jobs[j] # "ABSENT" =>
    /\ source[j] \in Uploads
    /\ phase[source[j]] = "answered"
    /\ \A t \in TasksOf(j) : results[t] # "absent" <=> t[2] \in uploads[source[j]]

IndInv ==
  /\ UploadInv
  /\ ContractInv
  /\ ScoringInv
  /\ DOMAIN source = Jobs /\ JobsCoverUploads
=============================================================================
