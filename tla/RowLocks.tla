------------------------------ MODULE RowLocks ------------------------------
(***************************************************************************)
(* The transactions on the job and task tables at the grain of row locks:  *)
(* what EnrichmentEngine takes as atomic steps, as Postgres runs them      *)
(* under READ COMMITTED (task-queue.ts, lease-reaper.ts,                   *)
(* job.repository.ts:206-271).                                             *)
(*                                                                         *)
(* A statement finds its rows in the snapshot it starts with.  It locks    *)
(* them one by one, in whatever order the plan yields them, waits where    *)
(* another transaction holds the lock, and then looks at the row again:    *)
(* its WHERE clause must still hold of the newest version.  Written rows   *)
(* are seen by others, and locks are released, at commit.  Postgres breaks *)
(* a cycle of waits by failing one of its transactions.                    *)
(*                                                                         *)
(* Foreign keys lock the rows they refer to FOR KEY SHARE, which no        *)
(* UPDATE here conflicts with; a row that claimNext passes over for it is  *)
(* one it passes over as locked.  A lease token is the number of the       *)
(* attempt, and leases expire at any moment, as in EnrichmentEngine.       *)
(* Transactions whose snapshot shows them no row to update change nothing  *)
(* here and are left out; the rows may be gone by the time they are looked *)
(* at again.                                                               *)
(***************************************************************************)
EXTENDS Naturals, FiniteSets

CONSTANTS
  Jobs, Tasks, JobOf,   (* as in EnrichmentEngine                           *)
  MaxAttempts,          (* MAX_ATTEMPTS                                     *)
  Txns,                 (* connections, each with one transaction at a time *)
  Nobody,               (* holds a row that is not locked                   *)
  NoRow                 (* what a transaction that does not wait waits for  *)

ASSUME LocksAssumption == /\ JobOf \in [Tasks -> Jobs]
                          /\ \A j \in Jobs : \E t \in Tasks : JobOf[t] = j
                          /\ Jobs \cap Tasks = {}
                          /\ MaxAttempts \in Nat \ {0}
                          /\ Nobody \notin Txns /\ NoRow \notin Jobs \cup Tasks

VARIABLES
  jobStatus, status, attempts,   (* the committed rows, as in EnrichmentEngine *)
  locker,     (* the transaction that has locked, and rewritten, each row   *)
  kind,       (* what each transaction is, "none" between two               *)
  second,     (* a stop has come to its second statement                    *)
  todo,       (* the rows its statement has still to lock                   *)
  waits,      (* the row it waits for                                       *)
  seen,       (* the attempt of each task whose lease it means to end       *)
  verdict     (* the final status it means to give each job                 *)

tables == <<jobStatus, status, attempts>>
vars == <<jobStatus, status, attempts, locker, kind, second, todo, waits, seen, verdict>>

Rows == Jobs \cup Tasks
Open == {"PENDING", "IN_FLIGHT"}
Settled == {"SUCCEEDED", "FAILED", "ABORTED"}
Terminal == {"COMPLETED", "COMPLETED_WITH_FAILURES", "FAILED_SYSTEMIC"}
Recordings == {"success", "failure", "retry"}
Kinds == Recordings \cup {"claim", "reap", "stop", "finalize"}

TasksOf(j) == {t \in Tasks : JobOf[t] = j}

NoTokens == [t \in Tasks |-> 0]
NoVerdict == [j \in Jobs |-> "ABSENT"]

Init ==
  /\ jobStatus = [j \in Jobs |-> "ABSENT"]
  /\ status = [t \in Tasks |-> "ABSENT"]
  /\ attempts = [t \in Tasks |-> 0]
  /\ locker = [r \in Rows |-> Nobody]
  /\ kind = [x \in Txns |-> "none"]
  /\ second = [x \in Txns |-> FALSE]
  /\ todo = [x \in Txns |-> {}]
  /\ waits = [x \in Txns |-> NoRow]
  /\ seen = [x \in Txns |-> NoTokens]
  /\ verdict = [x \in Txns |-> NoVerdict]

Held(x) == {r \in Rows : locker[r] = x}

(* POST /jobs: rows nobody sees before the commit, and a unique index that  *)
(* lets a second job in only after the first.                               *)
StartJob(j) ==
  /\ jobStatus[j] = "ABSENT"
  /\ \A k \in Jobs : jobStatus[k] # "RUNNING"
  /\ jobStatus' = [jobStatus EXCEPT ![j] = "RUNNING"]
  /\ status' = [t \in Tasks |-> IF JobOf[t] = j THEN "PENDING" ELSE status[t]]
  /\ UNCHANGED <<attempts, locker, kind, second, todo, waits, seen, verdict>>

-----------------------------------------------------------------------------
(* A transaction begins: the snapshot of its first statement.               *)
Finished(j) == jobStatus[j] = "RUNNING" /\ \A t \in TasksOf(j) : status[t] \notin Open

ClosedAs(j) == IF \E t \in TasksOf(j) : status[t] \in {"FAILED", "ABORTED"}
               THEN "COMPLETED_WITH_FAILURES" ELSE "COMPLETED"

Begin(x, k, rows) ==
  /\ kind[x] = "none" /\ rows # {}
  /\ kind' = [kind EXCEPT ![x] = k]
  /\ todo' = [todo EXCEPT ![x] = rows]
  /\ seen' = [seen EXCEPT ![x] = [t \in Tasks |->
       IF k \in Recordings \cup {"reap"} /\ t \in rows THEN attempts[t] ELSE 0]]
  /\ verdict' = [verdict EXCEPT ![x] =
       [j \in Jobs |-> IF k = "finalize" /\ j \in rows THEN ClosedAs(j) ELSE "ABSENT"]]
  /\ UNCHANGED <<tables, locker, second, waits>>

(* Only an attempt that was not the last one may be retried.                *)
BeginRecording(x, k, t) ==
  /\ status[t] = "IN_FLIGHT"
  /\ k = "retry" => attempts[t] < MaxAttempts
  /\ Begin(x, k, {t})

BeginReap(x) ==
  \E expired \in SUBSET {t \in Tasks : status[t] = "IN_FLIGHT"} : Begin(x, "reap", expired)

BeginClaim(x) ==
  Begin(x, "claim", {t \in Tasks : status[t] = "PENDING" /\ jobStatus[JobOf[t]] = "RUNNING"})

BeginStop(x) == Begin(x, "stop", {j \in Jobs : jobStatus[j] = "RUNNING"})

BeginFinalize(x) == Begin(x, "finalize", {j \in Jobs : Finished(j)})

-----------------------------------------------------------------------------
(* A statement goes through its rows.                                       *)

(* The WHERE clause on the newest version of the row.                       *)
Matches(x, r) ==
  \/ kind[x] \in {"stop", "finalize"} /\ r \in Jobs /\ jobStatus[r] = "RUNNING"
  \/ kind[x] = "stop" /\ r \in Tasks /\ status[r] \in Open
  \/ kind[x] \notin {"stop", "finalize"} /\ r \in Jobs
  \/ /\ kind[x] \in Recordings \cup {"reap"} /\ r \in Tasks
     /\ status[r] = "IN_FLIGHT" /\ attempts[r] = seen[x][r]
  \/ kind[x] = "claim" /\ r \in Tasks /\ status[r] = "PENDING"

Free(r) == locker[r] = Nobody

(* Mutated form of AndThen: the reaper, too, reports progress on the job,   *)
(* task by task.                                                            *)
AndThenEveryProgress(x, r) ==
  IF r \in Tasks /\ kind[x] \in {"success", "failure", "reap"} THEN {JobOf[r]} ELSE {}

(* A final recording goes on to the last_progress_at of its task's job,     *)
(* which it updates by id: no snapshot matters to it.                       *)
AndThen(x, r) ==
  IF r \in Tasks /\ kind[x] \in {"success", "failure"} THEN {JobOf[r]} ELSE {}

LockRow(x, r) ==
  /\ r \in todo[x] /\ waits[x] \in {r, NoRow}
  /\ Free(r)
  /\ Matches(x, r)
  /\ locker' = [locker EXCEPT ![r] = x]
  /\ todo' = [todo EXCEPT ![x] = IF kind[x] = "claim" THEN {} ELSE (@ \ {r}) \cup AndThen(x, r)]
  /\ waits' = [waits EXCEPT ![x] = NoRow]
  /\ UNCHANGED <<tables, kind, second, seen, verdict>>

(* Mutated form of PassesOver: the stop does not wait for locked rows.      *)
PassesOverLocked(x, r) ==
  IF Free(r) THEN ~Matches(x, r) ELSE kind[x] \in {"claim", "stop"}

(* The row is not, or no longer, one to update, or SKIP LOCKED.             *)
PassesOver(x, r) ==
  IF Free(r) THEN ~Matches(x, r) ELSE kind[x] = "claim"

PassRow(x, r) ==
  /\ r \in todo[x] /\ waits[x] \in {r, NoRow}
  /\ PassesOver(x, r)
  /\ todo' = [todo EXCEPT ![x] = @ \ {r}]
  /\ waits' = [waits EXCEPT ![x] = NoRow]
  /\ UNCHANGED <<tables, locker, kind, second, seen, verdict>>

WaitForRow(x, r) ==
  /\ r \in todo[x] /\ waits[x] = NoRow
  /\ ~Free(r) /\ ~PassesOver(x, r)
  /\ waits' = [waits EXCEPT ![x] = r]
  /\ UNCHANGED <<tables, locker, kind, second, todo, seen, verdict>>

(* Mutated form of Abandoned: a stop only gives up on the queued tasks.     *)
AbandonedQueued(x) == {t \in Tasks : JobOf[t] \in Held(x) /\ status[t] = "PENDING"}

(* The open tasks of the stopped jobs, in a snapshot of its own.            *)
Abandoned(x) == {t \in Tasks : JobOf[t] \in Held(x) /\ status[t] \in Open}

AbandonTasks(x) ==
  /\ kind[x] = "stop" /\ ~second[x] /\ todo[x] = {}
  /\ second' = [second EXCEPT ![x] = TRUE]
  /\ todo' = [todo EXCEPT ![x] = Abandoned(x)]
  /\ UNCHANGED <<tables, locker, kind, waits, seen, verdict>>

End(x) ==
  /\ kind' = [kind EXCEPT ![x] = "none"]
  /\ second' = [second EXCEPT ![x] = FALSE]
  /\ todo' = [todo EXCEPT ![x] = {}]
  /\ waits' = [waits EXCEPT ![x] = NoRow]
  /\ seen' = [seen EXCEPT ![x] = NoTokens]
  /\ verdict' = [verdict EXCEPT ![x] = NoVerdict]
  /\ locker' = [r \in Rows |-> IF locker[r] = x THEN Nobody ELSE locker[r]]

(* What a transaction has written to a task it holds.                       *)
Written(x, t) ==
  CASE kind[x] = "success" -> "SUCCEEDED"
    [] kind[x] = "failure" -> "FAILED"
    [] kind[x] = "retry"   -> "PENDING"
    [] kind[x] = "claim"   -> "IN_FLIGHT"
    [] kind[x] = "stop"    -> "ABORTED"
    [] kind[x] = "reap"    -> IF attempts[t] >= MaxAttempts THEN "FAILED" ELSE "PENDING"
    [] OTHER               -> status[t]

WrittenJob(x, j) ==
  CASE kind[x] = "stop"     -> "FAILED_SYSTEMIC"
    [] kind[x] = "finalize" -> verdict[x][j]
    [] OTHER                -> jobStatus[j]

Commit(x) ==
  /\ kind[x] # "none" /\ todo[x] = {}
  /\ kind[x] = "stop" => second[x]
  /\ status' = [t \in Tasks |-> IF t \in Held(x) THEN Written(x, t) ELSE status[t]]
  /\ attempts' = [t \in Tasks |->
       IF t \in Held(x) /\ kind[x] = "claim" THEN attempts[t] + 1 ELSE attempts[t]]
  /\ jobStatus' = [j \in Jobs |-> IF j \in Held(x) THEN WrittenJob(x, j) ELSE jobStatus[j]]
  /\ End(x)

(* Each waits for a row that another of them, or itself, holds.             *)
Knot(X) == X # {} /\ \A x \in X : waits[x] # NoRow /\ locker[waits[x]] \in X

Deadlock(X) == Knot(X) /\ \A Y \in SUBSET X : Knot(Y) => Y = X

(* Postgres fails a transaction that waits in a cycle: it leaves no trace.  *)
BreakDeadlock(x) ==
  /\ \E X \in SUBSET Txns : x \in X /\ Deadlock(X)
  /\ End(x)
  /\ UNCHANGED tables

BeginAny(x) ==
  \/ \E k \in Recordings, t \in Tasks : BeginRecording(x, k, t)
  \/ BeginReap(x)
  \/ BeginClaim(x)
  \/ BeginStop(x)
  \/ BeginFinalize(x)

TxnStep(x) ==
  \/ \E r \in Rows : LockRow(x, r) \/ PassRow(x, r) \/ WaitForRow(x, r)
  \/ AbandonTasks(x)
  \/ Commit(x)
  \/ BreakDeadlock(x)

Next ==
  \/ \E j \in Jobs : StartJob(j)
  \/ \E x \in Txns : BeginAny(x) \/ TxnStep(x)

Spec == Init /\ [][Next]_vars

-----------------------------------------------------------------------------
(* At this grain, too, jobs and tasks keep the contract: committed, every   *)
(* transaction is one of its steps, although its statements saw different   *)
(* snapshots and others committed between them.                             *)
ResultOf(t) ==
  CASE status[t] = "ABSENT"    -> "absent"
    [] status[t] = "SUCCEEDED" -> "enriched"
    [] status[t] = "FAILED"    -> "failed"
    [] status[t] = "ABORTED"   -> "aborted"
    [] OTHER                   -> "open"

Contract == INSTANCE JobContract
              WITH jobs <- jobStatus, results <- [t \in Tasks |-> ResultOf(t)]

ImplementsContract == Contract!ContractSpec

(* Recordings lock their task and then its job, the systemic stop its job   *)
(* and then its tasks (job.repository.ts:241-266): that is a cycle, and so  *)
(* are two sweeps over many tasks in different orders.  Nothing else is:    *)
(* claims, answers and closing never deadlock among themselves or with one  *)
(* reaper, so no answer is lost to a deadlock while nothing is stopped.     *)
DeadlocksNeedASweep ==
  \A X \in SUBSET Txns : Knot(X) =>
    \/ \E x \in X : kind[x] = "stop"
    \/ \E x, y \in X : x # y /\ kind[x] = "reap" /\ kind[y] = "reap"

-----------------------------------------------------------------------------
(* The inductive invariant behind both.                                     *)

TypeOK ==
  /\ jobStatus \in [Jobs -> {"ABSENT", "RUNNING"} \cup Terminal]
  /\ status \in [Tasks -> {"ABSENT"} \cup Open \cup Settled]
  /\ attempts \in [Tasks -> 0..MaxAttempts]
  /\ locker \in [Rows -> Txns \cup {Nobody}]
  /\ kind \in [Txns -> Kinds \cup {"none"}]
  /\ second \in [Txns -> BOOLEAN]
  /\ todo \in [Txns -> SUBSET Rows]
  /\ waits \in [Txns -> Rows \cup {NoRow}]
  /\ seen \in [Txns -> [Tasks -> 0..MaxAttempts]]
  /\ verdict \in [Txns -> [Jobs -> {"ABSENT"} \cup Terminal]]

TablesAgree ==
  /\ \A j, k \in Jobs : jobStatus[j] = "RUNNING" /\ jobStatus[k] = "RUNNING" => j = k
  /\ \A t \in Tasks :
       /\ jobStatus[JobOf[t]] = "ABSENT" <=> status[t] = "ABSENT"
       /\ status[t] \in Open => jobStatus[JobOf[t]] = "RUNNING"
       /\ status[t] = "ABORTED" => jobStatus[JobOf[t]] = "FAILED_SYSTEMIC"
       /\ status[t] \in {"ABSENT", "PENDING"} => attempts[t] < MaxAttempts

(* The rows a transaction has before it, and those it holds: nobody else    *)
(* rewrites a row between its lock and its commit.                          *)
RowsAhead(x) ==
  /\ kind[x] = "none" => todo[x] = {}
  /\ waits[x] # NoRow => waits[x] \in todo[x] /\ kind[x] # "claim"
  /\ second[x] => kind[x] = "stop"
  /\ kind[x] \in {"claim", "reap"} => todo[x] \subseteq Tasks
  /\ kind[x] = "finalize" => todo[x] \subseteq Jobs
  /\ kind[x] = "stop" => todo[x] \subseteq IF second[x] THEN Tasks ELSE Jobs
  /\ kind[x] = "retry" => \A r \in todo[x] : r \in Tasks /\ seen[x][r] < MaxAttempts
  /\ kind[x] \in Recordings => \A r, s \in todo[x] : r = s

RowsHeld(x) ==
  \A r \in Rows : locker[r] = x =>
    /\ kind[x] # "none"
    /\ r \notin todo[x]
    /\ r \in Tasks => CASE kind[x] = "claim" -> status[r] = "PENDING"
                        [] kind[x] = "stop" -> /\ second[x] /\ status[r] \in Open
                                               /\ locker[JobOf[r]] = x
                        [] kind[x] = "finalize" -> FALSE
                        [] OTHER -> status[r] = "IN_FLIGHT"
    /\ r \in Tasks /\ kind[x] = "retry" => attempts[r] < MaxAttempts
    /\ kind[x] \in Recordings /\ r \in Tasks => todo[x] \subseteq Jobs
    /\ kind[x] \in Recordings /\ r \in Jobs => todo[x] = {}
    /\ r \in Jobs => CASE kind[x] \in {"stop", "finalize"} -> jobStatus[r] = "RUNNING"
                       [] OTHER -> kind[x] \in {"success", "failure"}

(* What a stop or a closing has derived from its snapshots is still true.   *)
SnapshotsHold(x) ==
  /\ second[x] => \A t \in Tasks :
       /\ t \in todo[x] => locker[JobOf[t]] = x
       /\ locker[JobOf[t]] = x /\ status[t] \in Open => t \in todo[x] \/ locker[t] = x
  /\ kind[x] = "finalize" =>
       /\ \A j, k \in todo[x] \cup Held(x) : j = k
       /\ \A j \in todo[x] \cup Held(x) :
            /\ jobStatus[j] # "ABSENT"
            /\ \A t \in TasksOf(j) : status[t] \notin Open
            /\ verdict[x][j] = ClosedAs(j)

IndInv == /\ TypeOK
          /\ TablesAgree
          /\ \A x \in Txns : RowsAhead(x) /\ RowsHeld(x) /\ SnapshotsHold(x)
=============================================================================
