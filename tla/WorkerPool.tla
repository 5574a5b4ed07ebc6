----------------------------- MODULE WorkerPool -----------------------------
(***************************************************************************)
(* One server process from start to exit, beside the job it works on       *)
(* (index.ts, app.ts, worker-pool.ts, job-events.routes.ts): its worker    *)
(* loops and its reaper at the grain of their awaits, the order in which   *)
(* due tasks are handed out, the requests and the event stream it serves,  *)
(* and the signals that shut it down.  One page stands for all connections.*)
(*                                                                         *)
(* Time is the order of next_attempt_at: the PENDING tasks are a sequence, *)
(* the first `ready' of them due.  Leases expire at any moment.  What the  *)
(* breaker does is in EnrichmentEngine, what the limiter does in           *)
(* RateLimiter.  In which order Fastify runs the onClose hooks and waits   *)
(* for open connections is left open (its source is not part of the        *)
(* repository).                                                            *)
(***************************************************************************)
EXTENDS EnrichmentClient, FiniteSets, SequencesExt

CONSTANTS
  Tasks,         (* the job's tasks: enrichment_tasks.id                    *)
  Workers,       (* WORKER_CONCURRENCY loops                                *)
  Signals,       (* SIGINT and SIGTERM                                      *)
  MaxAttempts,   (* MAX_ATTEMPTS                                            *)
  MaxFaults,     (* bound: errors of Postgres or Redis in a behaviour       *)
  NoTask         (* held by a loop that has no task                         *)

ASSUME PoolAssumption == /\ Tasks \subseteq Nat /\ IsFiniteSet(Tasks)
                         /\ NoTask \notin Tasks
                         /\ MaxAttempts \in Nat \ {0} /\ MaxFaults \in Nat

VARIABLES
  job, status, attempts, expired,   (* the rows, as in EnrichmentEngine     *)
  queue,      (* the PENDING tasks by (next_attempt_at, id)                 *)
  ready,      (* how many of them are due                                   *)
  pc,         (* where each loop stands                                     *)
  held, attemptOf,                  (* the task of each loop, its attempt   *)
  reaper,     (* where the reaper stands                                    *)
  main,       (* where main() stands                                        *)
  aborted,    (* the pool's AbortController                                 *)
  shutdown,   (* where the shutdown each signal started stands              *)
  closing,    (* how far app.close() is                                     *)
  hooks,      (* the onClose hooks that have run                            *)
  stream,     (* a page's request, until it is answered: "asking" and then  *)
              (* "starting" if it is to become an event stream, "open" when *)
              (* it has, "deaf" if nothing will tell it of the end          *)
  destroyed,  (* db.destroy() and redis.quit() were called                  *)
  exited,     (* "no", or how the process ended                             *)
  faults,     (* errors so far                                              *)
  lost,       (* history: leased tasks whose attempt came to nothing        *)
  overtook    (* history: who was claimed while each task was due           *)

rows == <<job, status, attempts, expired, queue, ready>>
loops == <<pc, held, attemptOf>>
http == <<closing, hooks, stream>>
process == <<main, aborted, shutdown, destroyed, exited>>
history == <<lost, overtook>>
vars == <<rows, loops, reaper, http, process, faults, history>>

Due == {queue[i] : i \in 1..ready}

(* The one order of tasks that have the same next_attempt_at.               *)
ById(S) == {s \in [1..Cardinality(S) -> S] :
              Range(s) = S /\ \A i, k \in DOMAIN s : i < k => s[i] < s[k]}

(* A job an earlier process may have left behind, some tasks leased by it.  *)
Init ==
  /\ job = "RUNNING"
  /\ lost \in SUBSET Tasks
  /\ status = [t \in Tasks |-> IF t \in lost THEN "IN_FLIGHT" ELSE "PENDING"]
  /\ attempts = [t \in Tasks |-> IF t \in lost THEN 1 ELSE 0]
  /\ expired = [t \in Tasks |-> FALSE]
  /\ queue \in ById(Tasks \ lost)
  /\ ready = Len(queue)
  /\ pc = [w \in Workers |-> "absent"]
  /\ held = [w \in Workers |-> NoTask]
  /\ attemptOf = [w \in Workers |-> 0]
  /\ reaper = "absent"
  /\ main = "listening"
  /\ aborted = FALSE
  /\ shutdown = [s \in Signals |-> "none"]
  /\ closing = "no"
  /\ hooks = {}
  /\ stream = "none"
  /\ destroyed = FALSE
  /\ exited = "no"
  /\ faults = 0
  /\ overtook = [t \in Tasks |-> {}]

-----------------------------------------------------------------------------
(* The rows.                                                                *)

FinalizeFinishedJobs ==
  job' = IF \A t \in Tasks : status[t] \notin {"PENDING", "IN_FLIGHT"} THEN "CLOSED" ELSE job

(* Mutated form of Requeue: next_attempt_at stays as it was.                *)
RequeueUnmoved(t) ==
  \E i \in 1..ready + 1 : queue' = InsertAt(queue, i, t) /\ ready' = ready + 1

(* A retry waits: next_attempt_at lies ahead, somewhere among those of the  *)
(* other tasks that wait.                                                   *)
Requeue(t) ==
  /\ \E i \in ready + 1..Len(queue) + 1 : queue' = InsertAt(queue, i, t)
  /\ UNCHANGED ready

RetryBecomesDue ==
  /\ ready < Len(queue)
  /\ ready' = ready + 1
  /\ UNCHANGED <<job, status, attempts, expired, queue, loops, reaper, http, process,
                 faults, history>>

LeaseExpires(t) ==
  /\ status[t] = "IN_FLIGHT" /\ ~expired[t]
  /\ expired' = [expired EXCEPT ![t] = TRUE]
  /\ UNCHANGED <<job, status, attempts, queue, ready, loops, reaper, http, process,
                 faults, history>>

-----------------------------------------------------------------------------
(* The worker loops.  "idle" is the top of the loop, the sleep before it    *)
(* and the wait for a slot after it: an abort ends each of them, and the    *)
(* loop looks at the signal once more before it claims.  A reservation that *)
(* fails leaves it there.                                                   *)

Goto(w, step) == /\ pc' = [pc EXCEPT ![w] = step]
                 /\ UNCHANGED <<held, attemptOf>>

Release(w, step) == /\ pc' = [pc EXCEPT ![w] = step]
                    /\ held' = [held EXCEPT ![w] = NoTask]
                    /\ attemptOf' = [attemptOf EXCEPT ![w] = 0]

SlotAcquired(w) ==
  /\ pc[w] = "idle"
  /\ Goto(w, IF aborted THEN "ended" ELSE "claiming")
  /\ UNCHANGED <<rows, reaper, http, process, faults, history>>

(* Mutated form of NextDue: ORDER BY id alone.                              *)
LowestIdDue == CHOOSE i \in 1..ready : \A k \in 1..ready : queue[i] <= queue[k]

NextDue == 1

ClaimTask(w) ==
  /\ ready > 0
  /\ LET t == queue[NextDue]
     IN /\ queue' = RemoveAt(queue, NextDue)
        /\ ready' = ready - 1
        /\ status' = [status EXCEPT ![t] = "IN_FLIGHT"]
        /\ attempts' = [attempts EXCEPT ![t] = @ + 1]
        /\ expired' = [expired EXCEPT ![t] = FALSE]
        /\ pc' = [pc EXCEPT ![w] = "calling"]
        /\ held' = [held EXCEPT ![w] = t]
        /\ attemptOf' = [attemptOf EXCEPT ![w] = attempts[t] + 1]
        /\ lost' = lost \ {t}
        /\ overtook' = [u \in Tasks |-> IF u \in Due \ {t} THEN overtook[u] \cup {t} ELSE {}]
        /\ UNCHANGED job

ClaimNothing(w) ==
  /\ ready = 0
  /\ Goto(w, "closing")
  /\ UNCHANGED <<rows, history>>

ClaimNext(w) ==
  /\ pc[w] = "claiming"
  /\ ClaimTask(w) \/ ClaimNothing(w)
  /\ UNCHANGED <<reaper, http, process, faults>>

(* The step that records an outcome.                                        *)
Recording(kind, attempt) ==
  IF kind = "success" THEN "saving"
  ELSE IF DecideAfterFailure(kind, attempt, MaxAttempts) = "retry" THEN "retrying" ELSE "failing"

CallAnswered(w) ==
  /\ pc[w] = "calling"
  /\ \E kind \in EnrichOutcomes :
       IF kind = "throws" THEN Release(w, "idle") /\ lost' = lost \cup {held[w]}
       ELSE Goto(w, Recording(kind, attemptOf[w])) /\ UNCHANGED lost
  /\ UNCHANGED <<rows, reaper, http, process, faults, overtook>>

HoldsLease(w) == status[held[w]] = "IN_FLIGHT" /\ attempts[held[w]] = attemptOf[w]

Saved(w) ==
  /\ HoldsLease(w)
  /\ status' = [status EXCEPT ![held[w]] =
       CASE pc[w] = "saving" -> "SUCCEEDED" [] pc[w] = "failing" -> "FAILED" [] OTHER -> "PENDING"]
  /\ IF pc[w] = "retrying" THEN Requeue(held[w]) ELSE UNCHANGED <<queue, ready>>
  /\ Release(w, IF pc[w] = "retrying" THEN "idle" ELSE "closing")

Stale(w) ==
  /\ ~HoldsLease(w)
  /\ Release(w, "idle")
  /\ UNCHANGED <<status, queue, ready>>

RecordOutcome(w) ==
  /\ pc[w] \in {"saving", "failing", "retrying"}
  /\ Saved(w) \/ Stale(w)
  /\ UNCHANGED <<job, attempts, expired, reaper, http, process, faults, history>>

CloseJobs(w) ==
  /\ pc[w] = "closing"
  /\ FinalizeFinishedJobs
  /\ Goto(w, "idle")
  /\ UNCHANGED <<status, attempts, expired, queue, ready, reaper, http, process, faults, history>>

(* A statement throws: the loop backs off.                                  *)
LoopError(w) ==
  /\ pc[w] \in {"claiming", "saving", "failing", "retrying", "closing"}
  /\ faults < MaxFaults /\ faults' = faults + 1
  /\ lost' = lost \cup ({held[w]} \ {NoTask})
  /\ Release(w, "idle")
  /\ UNCHANGED <<rows, reaper, http, process, overtook>>

LoopStep(w) ==
  \/ SlotAcquired(w) \/ ClaimNext(w)
  \/ CallAnswered(w) \/ RecordOutcome(w) \/ CloseJobs(w)

-----------------------------------------------------------------------------
(* The lease reaper.                                                        *)

ReaperTop ==
  /\ reaper = "idle"
  /\ reaper' = IF aborted THEN "ended" ELSE "reaping"
  /\ UNCHANGED <<rows, loops, http, process, faults, history>>

Expired == {t \in Tasks : status[t] = "IN_FLIGHT" /\ expired[t]}

(* next_attempt_at = now(): behind the tasks that are due, before the rest. *)
Reap ==
  /\ reaper = "reaping"
  /\ LET requeued == {t \in Expired : attempts[t] < MaxAttempts}
     IN /\ status' = [t \in Tasks |-> IF t \in requeued THEN "PENDING"
                                      ELSE IF t \in Expired THEN "FAILED" ELSE status[t]]
        /\ expired' = [t \in Tasks |-> FALSE]
        /\ \E reclaimed \in ById(requeued) :
             queue' = SubSeq(queue, 1, ready) \o reclaimed \o SubSeq(queue, ready + 1, Len(queue))
        /\ ready' = ready + Cardinality(requeued)
        /\ reaper' = IF Expired \subseteq requeued THEN "idle" ELSE "closing"
  /\ lost' = lost \ Expired
  /\ UNCHANGED <<job, attempts, loops, http, process, faults, overtook>>

ReaperCloses ==
  /\ reaper = "closing"
  /\ FinalizeFinishedJobs
  /\ reaper' = "idle"
  /\ UNCHANGED <<status, attempts, expired, queue, ready, loops, http, process, faults, history>>

ReaperError ==
  /\ reaper \in {"reaping", "closing"}
  /\ faults < MaxFaults /\ faults' = faults + 1
  /\ reaper' = "idle"
  /\ UNCHANGED <<rows, loops, http, process, history>>

ReaperStep == ReaperTop \/ Reap \/ ReaperCloses

-----------------------------------------------------------------------------
(* Requests.  One that becomes an event stream subscribes, reads a first    *)
(* snapshot, and only then is hijacked and belongs to the streams to end.   *)

requestsLeave == <<rows, loops, reaper, closing, hooks, process, history>>

Receive ==
  /\ main # "listening" /\ closing # "server"
  /\ stream = "none"
  /\ stream' = "asking"
  /\ UNCHANGED <<requestsLeave, faults>>

FirstRead ==
  /\ stream = "asking"
  /\ stream' \in IF job = "RUNNING" THEN {"none", "starting"} ELSE {"none"}
  /\ UNCHANGED <<requestsLeave, faults>>

(* A hub that was closed meanwhile has forgotten the subscription.          *)
Respond ==
  /\ stream = "starting"
  /\ stream' = IF "events" \in hooks THEN "deaf" ELSE "open"
  /\ UNCHANGED <<requestsLeave, faults>>

(* The job ended: the final event is sent, and the response with it.        *)
StreamDone ==
  /\ stream = "open" /\ job = "CLOSED"
  /\ stream' = "none"
  /\ UNCHANGED <<requestsLeave, faults>>

(* JobEvents shows how a stream may miss the end.                           *)
StreamMissesEnd ==
  /\ stream = "open" /\ job = "CLOSED"
  /\ faults < MaxFaults /\ faults' = faults + 1
  /\ stream' = "deaf"
  /\ UNCHANGED requestsLeave

(* Or a snapshot on its way when the hub was closed ends the stream.        *)
ClientLeaves ==
  /\ stream \in {"open", "deaf"}
  /\ stream' = "none"
  /\ UNCHANGED <<requestsLeave, faults>>

-----------------------------------------------------------------------------
(* main() and shutdown().                                                   *)

(* listen() is rejected when the app was closed meanwhile, and main() with  *)
(* it.                                                                      *)
Listen ==
  /\ main = "listening"
  /\ \/ main' = "waiting" /\ UNCHANGED exited
     \/ closing # "no" /\ exited' = "failed" /\ UNCHANGED main
  /\ UNCHANGED <<rows, loops, reaper, http, aborted, shutdown, destroyed, faults, history>>

(* Redis is ready, or it was given 10 s.                                    *)
StartWorkers ==
  /\ main = "waiting"
  /\ main' = "running"
  /\ pc' = [w \in Workers |-> "idle"]
  /\ reaper' = "idle"
  /\ UNCHANGED <<rows, held, attemptOf, http, aborted, shutdown, destroyed, exited,
                 faults, history>>

(* Mutated form of SignalArrives: the pool is told to stop first.           *)
SignalStopsPool(s) ==
  /\ shutdown[s] = "none"
  /\ shutdown' = [shutdown EXCEPT ![s] = "closing"]
  /\ closing' \in IF closing = "no" THEN {"hooks", "server"} ELSE {closing}
  /\ aborted' = TRUE
  /\ UNCHANGED exited

(* process.once: the second time, a signal does what it does by default.    *)
SignalArrives(s) ==
  \/ /\ shutdown[s] = "none"
     /\ shutdown' = [shutdown EXCEPT ![s] = "closing"]
     /\ closing' \in IF closing = "no" THEN {"hooks", "server"} ELSE {closing}
     /\ UNCHANGED <<aborted, exited>>
  \/ /\ shutdown[s] # "none"
     /\ exited' = "killed"
     /\ UNCHANGED <<shutdown, closing, aborted>>

Signal(s) ==
  /\ SignalArrives(s)
  /\ UNCHANGED <<rows, loops, reaper, hooks, stream, main, destroyed, faults, history>>

(* If the hooks run before connections are waited for, in either order: the *)
(* streams open at that moment are ended, and the hub forgets who listens.  *)
OnCloseHooks == {"streams", "events"}

RunHook(hook) ==
  /\ closing = "hooks" /\ hook \notin hooks
  /\ hooks' = hooks \cup {hook}
  /\ closing' = IF hooks' = OnCloseHooks THEN "server" ELSE closing

EndStreams ==
  /\ RunHook("streams")
  /\ stream' = IF stream \in {"open", "deaf"} THEN "none" ELSE stream
  /\ UNCHANGED <<rows, loops, reaper, process, faults, history>>

CloseHub ==
  /\ RunHook("events")
  /\ stream' = IF stream = "open" THEN "deaf" ELSE stream
  /\ UNCHANGED <<rows, loops, reaper, process, faults, history>>

CloseStep == EndStreams \/ CloseHub

(* app.close() resolves once nothing is being answered and the hooks have   *)
(* run; workers.stop() aborts the loops.                                    *)
AppClosed(s) ==
  /\ shutdown[s] = "closing"
  /\ closing = "server" /\ stream = "none"
  /\ hooks' = OnCloseHooks
  /\ shutdown' = [shutdown EXCEPT ![s] = "stopping"]
  /\ aborted' = TRUE
  /\ UNCHANGED <<rows, loops, reaper, closing, stream, main, destroyed, exited, faults, history>>

(* Mutated form of LoopsEnded: the loops are not awaited.                   *)
LoopsToldToEnd == aborted

(* Loops that start after this end at their first look at the signal.       *)
LoopsEnded ==
  main = "running" => reaper = "ended" /\ \A w \in Workers : pc[w] = "ended"

PoolStopped(s) ==
  /\ shutdown[s] = "stopping"
  /\ LoopsEnded
  /\ shutdown' = [shutdown EXCEPT ![s] = "destroying"]
  /\ destroyed' = TRUE
  /\ UNCHANGED <<rows, loops, reaper, http, main, aborted, exited, faults, history>>

Exit(s) ==
  /\ shutdown[s] = "destroying"
  /\ exited' = "clean"
  /\ UNCHANGED <<rows, loops, reaper, http, main, aborted, shutdown, destroyed, faults, history>>

ShutdownStep(s) == AppClosed(s) \/ PoolStopped(s) \/ Exit(s)

Step ==
  \/ \E w \in Workers : LoopStep(w) \/ LoopError(w)
  \/ ReaperStep \/ ReaperError
  \/ RetryBecomesDue \/ \E t \in Tasks : LeaseExpires(t)
  \/ Receive \/ FirstRead \/ Respond \/ StreamDone \/ StreamMissesEnd \/ ClientLeaves
  \/ Listen \/ StartWorkers \/ CloseStep
  \/ \E s \in Signals : Signal(s) \/ ShutdownStep(s)

Next == exited = "no" /\ Step

Spec == Init /\ [][Next]_vars

(* The event loop gets to every callback, calls end by their timeout, a     *)
(* request is answered, time passes, and the event of a job's end arrives   *)
(* unless it is lost.  Nobody has to connect, to leave or to send a signal. *)
Alive(A) == exited = "no" /\ A

Fairness ==
  /\ \A w \in Workers : WF_vars(Alive(LoopStep(w)))
  /\ WF_vars(Alive(ReaperStep))
  /\ WF_vars(Alive(RetryBecomesDue))
  /\ \A t \in Tasks : WF_vars(Alive(LeaseExpires(t)))
  /\ WF_vars(Alive(FirstRead)) /\ WF_vars(Alive(Respond)) /\ WF_vars(Alive(StreamDone))
  /\ WF_vars(Alive(Listen)) /\ WF_vars(Alive(StartWorkers)) /\ WF_vars(Alive(CloseStep))
  /\ \A s \in Signals : WF_vars(Alive(ShutdownStep(s)))

FairSpec == Spec /\ Fairness

-----------------------------------------------------------------------------
Calling == {"calling", "saving", "failing", "retrying"}

PoolTypeOK ==
  /\ job \in {"RUNNING", "CLOSED"}
  /\ status \in [Tasks -> {"PENDING", "IN_FLIGHT", "SUCCEEDED", "FAILED"}]
  /\ attempts \in [Tasks -> Nat] /\ expired \in [Tasks -> BOOLEAN]
  /\ pc \in [Workers -> Calling \cup {"absent", "idle", "claiming", "closing", "ended"}]
  /\ held \in [Workers -> Tasks \cup {NoTask}] /\ attemptOf \in [Workers -> Nat]
  /\ reaper \in {"absent", "idle", "reaping", "closing", "ended"}
  /\ main \in {"listening", "waiting", "running"}
  /\ aborted \in BOOLEAN /\ destroyed \in BOOLEAN
  /\ shutdown \in [Signals -> {"none", "closing", "stopping", "destroying"}]
  /\ closing \in {"no", "hooks", "server"}
  /\ hooks \in SUBSET OnCloseHooks
  /\ stream \in {"none", "asking", "starting", "open", "deaf"}
  /\ exited \in {"no", "failed", "killed", "clean"}
  /\ faults \in 0..MaxFaults
  /\ lost \in SUBSET Tasks /\ overtook \in [Tasks -> SUBSET Tasks]

(* The queue is exactly the PENDING tasks, each once.                       *)
QueueIsPending ==
  /\ queue \in Seq(Tasks) /\ ready \in 0..Len(queue)
  /\ \A i, k \in DOMAIN queue : i # k => queue[i] # queue[k]
  /\ \A t \in Tasks : status[t] = "PENDING" <=> \E i \in DOMAIN queue : queue[i] = t

(* A closed job has nothing left to claim: ClaimTask need not look at it.   *)
ClosedIsSettled ==
  job = "CLOSED" => \A t \in Tasks : status[t] \in {"SUCCEEDED", "FAILED"}

(* Who was claimed while a due task waited is not in front of it again.     *)
OvertakenOnce ==
  /\ \A t \in Tasks \ Due : overtook[t] = {}
  /\ \A i \in 1..ready : \A k \in 1..i : queue[k] \notin overtook[queue[i]]

(* A lease without an owner is one an error has lost.                       *)
LeaseHasOwner ==
  \A t \in Tasks : status[t] = "IN_FLIGHT" =>
    t \in lost \/ \E w \in Workers : /\ pc[w] \in Calling
                                     /\ held[w] = t /\ attemptOf[w] = attempts[t]

(* What the main loop, the loops and the shutdowns rely on about each other.*)
StopsInOrder ==
  /\ main # "running" => reaper = "absent" /\ \A w \in Workers : pc[w] = "absent"
  /\ \A w \in Workers : pc[w] \in Calling => held[w] \in Tasks
  /\ \A s \in Signals : shutdown[s] \in {"stopping", "destroying"} =>
       aborted /\ closing = "server" /\ stream = "none"
  /\ destroyed => /\ aborted /\ closing = "server" /\ stream = "none"
                  /\ \A w \in Workers : pc[w] \in {"absent", "idle", "ended"}
                  /\ reaper \in {"absent", "idle", "ended"}

(* The inductive invariant of the pool.                                     *)
PoolInv == /\ PoolTypeOK /\ QueueIsPending /\ ClosedIsSettled
           /\ OvertakenOnce /\ LeaseHasOwner /\ StopsInOrder

(* Once the connections are gone nothing needs them: no loop, no reaper and *)
(* no request is at work, whichever signals came in which order and however *)
(* early, and every lease this process took has been recorded unless an     *)
(* error had already lost it (worker-pool.ts:64, "waits for in-flight calls *)
(* to finish recording").                                                   *)
DrainedAtExit ==
  destroyed =>
    /\ \A w \in Workers : pc[w] \in {"absent", "ended"} \/ (pc[w] = "idle" /\ aborted)
    /\ reaper \in {"absent", "ended"} \/ (reaper = "idle" /\ aborted)
    /\ stream = "none"
    /\ \A t \in Tasks : status[t] = "IN_FLIGHT" => t \in lost

(* No store is called twice while another one is due and waits: retries and *)
(* reclaimed stores go behind whatever is due already (task-queue.ts:72).   *)
NoStarvation ==
  [][\A t, u \in Tasks :
       t \in Due \ {u} /\ attempts'[u] > attempts[u] => u \notin overtook[t]]_vars

(* A signal leads to the end of the process without anybody's help, even if *)
(* close() waits for the streams first: the loops go on until the job ends, *)
(* and its end ends the streams.  Only a stream that missed the end, or     *)
(* opened after the hub was closed, holds it up, and only while its client  *)
(* stays (app.ts:89, job-events.routes.ts:33, index.ts:59-65).              *)
ShutdownEnds ==
  (\E s \in Signals : shutdown[s] # "none") ~> (exited # "no" \/ [](stream = "deaf"))
=============================================================================
