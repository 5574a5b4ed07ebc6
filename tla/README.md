# tier-forge in TLA+

tier-forge takes a CSV of stores, enriches every store by calling a slow, rate-limited and
unreliable API, and scores the results into tiers.  This directory specifies the parts of it
that are hard to get right: TLA+ modules translated from the source, TLC configurations that
check them on small instances, and proofs that TLAPS checks for every value of the constants.

Contents: [1 The system](#1-the-system) ·
[2 Modules](#2-modules-and-the-code-they-model) · [3 Runs](#3-runs) ·
[4 Proofs](#4-proofs) · [5 Where code and text disagree](#5-where-code-and-text-disagree) ·
[6 Not modelled](#6-what-is-not-modelled-and-why) · [7 Plan](#7-plan)

Paths are under `src/apps/server/src/` unless they say otherwise.

## 1 The system

One or more server processes share one Postgres and one Redis.  Each process serves the HTTP
API and, with `RUN_WORKERS`, runs a pool of worker loops, a lease reaper and a circuit breaker.
Browsers follow a job over server-sent events.

    browser --- HTTP / SSE --- routes --- job.repository --- Postgres (jobs, tasks, metrics,
       ^                                                       attempts) 
       |                                                        ^   |  NOTIFY job_progress
       +----- job-event-hub <----------- LISTEN ---------------/----+
                                                               /
    worker-pool (N loops) -- task-queue, lease-reaper --------+
       |   \-- circuit-breaker (memory of the process)
       +------ rate-limiter --- Redis (one key)
       +------ enrichment-client --- the enrichment API

| Component | State it keeps | Operations | Talks to |
|---|---|---|---|
| Task queue `enrichment/task-queue.ts` | `enrichment_tasks`, `store_metrics`, `enrichment_attempts` | claimNext, recordSuccess, recordFailure | Postgres; NOTIFY |
| Worker pool `enrichment/worker-pool.ts` | where each loop stands, the task in its hand, whether it was told to stop | tick, process, runLoop's catch, stop | all of the engine |
| Lease reaper `enrichment/lease-reaper.ts` | none | reapExpiredLeases every 5 s and at start | Postgres; NOTIFY |
| Job closing `jobs/job.repository.ts` | `enrichment_jobs.status` | start, finalizeFinishedJobs, failRunningJobsSystemically | Postgres; NOTIFY |
| Retry policy `enrichment/retry-policy.ts` | none (pure) | decideAfterFailure, backoffDelay, attemptOutcomeOf | |
| Circuit breaker `enrichment/circuit-breaker.ts` | two times and a count per process | record | told by every loop |
| Rate limiter `enrichment/rate-limiter.ts` | one Redis key: the next free slot | acquire, pause | Redis scripts |
| API client `enrichment/enrichment-client.ts` | none | enrich: one exchange to one outcome | the API |
| Job reads `jobs/job.repository.ts` | none | snapshot (two queries), list, failures | Postgres |
| Job events `events/*.ts` | subscribers and coalescing timers per job | subscribe, on notification, load and deliver, close | LISTEN; SSE |
| Scoring `scoring/*.ts`, `packages/shared` | `scoring_configs`, `store_scores` | run, latest run, list of stores | Postgres |
| Uploads `uploads/*.ts` | `uploads`, `stores` | parse, validate, insert in chunks, answer | Postgres |
| Lifecycle `index.ts`, `app.ts` | how far start and each shutdown are | main, shutdown, signals | pool, HTTP server, connections |
| Schema, configuration, HTTP | tables; constants | migrate; load; validate | |
| Dashboard `src/apps/web` | cache entries: the job, its latest run, pages of stores | stream, fallback poll, post a run, list | HTTP, SSE |

What is hard, and what makes each part correct:

* **Engine.**  Loops, reapers and processes interleave at every commit.  A loop can lose its
  lease while its API call is out, a process can die between any two statements, a statement can
  throw although it committed, and the breaker of one process can stop a job while others work
  on it.  Correct means: a store's metrics come from the attempt claimed last; no store costs
  more than `MAX_ATTEMPTS` calls; a store fails only for a reason; nothing settled is revised;
  the final status tells the truth about the stores; every job ends.
* **Circuit breaker.**  It keeps a summary of history; correct means that the summary loses
  nothing: a verdict falls on an outage, on every outage, and on nothing else.
* **Rate limiter.**  Slots are reserved ahead of time, by loops that may die, in a key that
  expires.  Correct means: slots are never close together, waits stay bounded, a pause binds
  what comes after it, and the API's window never overflows.
* **Job events.**  A job ends while streams open, close and reconnect, notifications are
  coalesced, loads overlap and a poll is under way.  Correct means: what is shown was true, the end
  of the job reaches every page and stays there, and no subscription outlives the job.
* **Row locks.**  Transactions lock the same rows in different orders and look at snapshots others
  have outdated.  Correct means: what commits is still one step of the engine, and Postgres only
  ever has to fail a transaction for a deadlock where the code expects trouble anyway.
* **Lifecycle.**  Signals arrive at any point of start and shutdown, in a process with calls,
  requests and streams under way.  Correct means: nothing is at work when its connections go, no
  recorded answer is lost, and a shutdown comes to its end.
* **Uploads.**  Bad, good and repeated rows come in any order, and the insert is in chunks.  Correct
  means: the first valid row of each store is kept, and an upload is seen whole or not at all.
* **Scoring and results.**  Numeric rules at their boundaries, a run beside a job that still moves, and
  answers that arrive in any order.  Correct means: an answer that calls a run complete is right,
  tiers follow merit, rows are marked with the bars they were scored with, and paging skips no store
  while the job runs and shows each exactly once when it is over.

The list of hazards, each at its line with the properties that watch it, is in `PROJECT.json`.

## 2 Modules and the code they model

| Module | What it is |
|---|---|
| `JobContract` | What the enrichment side promises everybody else: jobs, one result per store, statuses that tell the truth. No workers, leases or clocks. |
| `RetryPolicy` | Pure decisions after a failed call. |
| `EnrichmentEngine` | Tables, loops, reapers, breakers, crashes. Implements `JobContract`. |
| `CircuitBreaker` | `record()`, branch by branch, on a clock, beside the history it summarises. |
| `RateLimiter` | The two Lua scripts and the loops that sleep, call and pause. |
| `JobEvents` | From the statement that changes a job, over NOTIFY, hub and stream, to the page that shows it. |
| `RowLocks` | The engine's transactions again, lock by lock and snapshot by snapshot.  Implements `JobContract` too. |
| `EnrichmentClient` | Every exchange with the API, and the outcome or error it amounts to. |
| `WorkerPool` | One process from start to exit: loops at the grain of their awaits, due order, requests and streams, signals. |
| `StoreUpload` | `POST /uploads`, from the first record of the file to the answer. |
| `ScoringRule` | The scoring rule on whole numbers. |
| `Scoring` | Scoring requests beside a job that moves, and the results page.  Extends `JobContract`. |
| `Pipeline` | Composes `StoreUpload`, jobs that keep `JobContract`, and `Scoring`: from a file to tiers on a page. |
| `MCEnrichmentEngine`, `MCCircuitBreaker`, `MCRateLimiter`, `MCJobEvents`, `MCRowLocks`, `MCWorkerPool`, `MCPipeline` | Instances for TLC. |
| `*Proofs` | Theorems about the module they are named after. |

`PROJECT.json` maps every definition that models code to the lines it stands for.  Definitions
introduced by "Mutated form of ..." are plausible bugs of the definition that follows; no
specification uses them.  They show that a property notices the bug.

### EnrichmentEngine

*Grain.*  One action per committed transaction, or per stretch of code between two awaits.
A loop's `pc` is the statement it runs next:

| `pc` | the loop is about to | code | actions |
|---|---|---|---|
| `idle` | claim (it has, or will get, a slot) | `tick` | `ClaimNext`, `ClaimNothing` |
| `calling` | get the API's answer | `client.enrich` | `AnswerSuccess`, `AnswerFailure` |
| `saving` | commit `recordSuccess` | task-queue.ts | `RecordSuccess` |
| `recording` | commit `recordFailure` | task-queue.ts | `RecordFailure` |
| `judging` | tell the breaker of the failure | `breaker.record` | `Judge` |
| `stopping` | run `failRunningJobsSystemically` | job.repository.ts | `StopJobs` |
| `closing` | run `finalizeFinishedJobs` | job.repository.ts | `CloseJobs` |

Everything other loops, reapers, crashes and new jobs can do between two of these is explored.

*Abstractions.*  Each keeps more behaviours than the code has, never fewer.

* Time: a retry becomes due and a lease expires at any moment after it was scheduled.  So a
  lease may expire while its loop is alive and its call is out, as it does when a loop stalls.
* A lease token is the number of the attempt whose claim drew it.  `attempts` only grows, so
  the number is as fresh for its task as the UUID.
* Transactions are atomic.  Under READ COMMITTED this holds of these statements because each
  update re-checks its own guard on the row it locks, and because tasks of a job leave
  `PENDING`/`IN_FLIGHT` for good: a snapshot that shows no open task stays right.  `RowLocks`
  models, checks and proves this argument.
* `WorkerError` is `runLoop`'s catch around every awaited statement, at every `pc`.  Because the
  state a statement leaves is reached by its action too, "threw although it committed" is the
  error one step later and "threw instead of committing" the error one step earlier.
* The breaker's clock is left open in `JudgeCounted` and `JudgeTripped`.  That the real
  breaker takes no other step is `CircuitBreaker`'s `EngineAssumption`, checked and proved.
* Failures are the three classes the rest of the system tells apart: `rate_limited`,
  `client_error`, and `unhealthy` for the four kinds that retry and count alike.
* The result of `store_metrics` is the attempt it came from; its numbers are not read here.
* A crash restarts the process at once; a process that stays down is one that takes no step.

### CircuitBreaker

One action per branch of `record`: `RecordSuccess`, `RecordIgnored`, `CountFailure`, `Trip`.
`Stale`, `StartedAt`, `Failures` and `Trips` are the local values of the code.  `log` is not in
the code: it is the history the fields summarise, and `Outage` says what a verdict means in
terms of it alone.  The wall clock is taken to be monotonic.

### RateLimiter

`ReserveScript` and `PauseScript` are the Lua scripts, each atomic in Redis and on Redis' clock
(`README.md` of the repository: "Redis' clock and a Lua script make it exact").  `keyExpires` is
the `PX` both scripts set.  A loop's slot is a promise to itself: `Wake` may come late by up to
`MaxLate`, and the loop may find no task.  A call remembers the slot it was made for.  `Crash`, `ReserveUnanswered` and `LoseKey` are a dead
loop, an answer lost on its way and a Redis that restarts empty.  `granted` and `calls` are the
history of what was handed out and called.  The in-process limiter is the case in which the key never expires.

### JobEvents

One job, whose snapshot is its status (`RUNNING` or `FINAL`) and the number of its settled stores;
any number of pages, each with one stream at a time.  One action per stretch of code between two
awaits or callbacks:

| State | Code | Actions |
|---|---|---|
| `jobStatus`, `settled`, `unsent` | tables; `unsent` counts updates that have committed and whose `pg_notify`, a statement of its own, is still to come (`reapExpiredLeases`, `finalizeFinishedJobs`) | `RecordResult`, `RecordRetry`, `ReapResult`, `FinalizeFinishedJobs`, `FailRunningJobsSystemically`, `NotifyAfterCommit`, `NotifyLost` |
| `conn`, `notices`, `window` | the LISTEN connection, what is on it, `pending` | `Listen`, `Listening`, `ConnectionLost`, `OnNotification`, `Flush` |
| `reads` | every snapshot read that is out: job row to read, counts to read, answer on its way | `ReadSnapshot`, `Deliver`, `LoadFails` |
| `handler`, `buffered`, `leaked`, `wire` | the request handler of each stream, its buffer, its bytes under way | `OpenStream`, `FirstSnapshot`, `FirstSnapshotToNobody`, `FirstSnapshotFails`, `StreamLost` |
| `source`, `cache` | the EventSource and the page's cache entry | `Poll`, `PollAnswered`, `PollFails`, `Receive` |

`Restart` ends the server process and starts it again.  `ReapResult` is a reaper that gives up on a
store; one that requeues it is `RecordRetry` (its NOTIFY changes no count).  A final snapshot on the wire
stands for the `progress` event and the `done` event that follows it.  `leaked` counts
subscriptions whose client left while the first snapshot was read, before the handler asked for
`close`.  A client that leaves an open stream is noticed at once; heartbeats are left out.  A load
delivers to the set of listeners it found, which the hub replaces when it runs empty:
`ForgetLoadsUnlessWatched`.

### RowLocks

One action per row a statement comes to.  A transaction begins with the rows its first statement finds
in its snapshot (`todo`), and takes them in any order: `LockRow` if the row is free and still matches
the WHERE clause, `PassRow` if it no longer does (or is locked, for `claimNext`'s `SKIP LOCKED`),
`WaitForRow` if another transaction holds it.  `AndThen` is the second update of a final recording,
of the job's `last_progress_at`; `AbandonTasks` the second statement of the systemic stop, in a
snapshot of its own.  Rows become visible, and locks free, at `Commit`.  `BreakDeadlock` is Postgres
failing one transaction of a cycle; the code catches it like any other error.

`seen` is the attempt whose lease a recording or the reaper means to end (the lease token), and
`verdict` the status that `finalizeFinishedJobs` computes for a job in the snapshot it finds it in.
Statements whose snapshot shows them nothing to do change nothing and are left out.

### EnrichmentClient and WorkerPool

`Enrich` maps a status and what becomes of the body to one of the outcome classes of `RetryPolicy`,
or to "throws": cancelling the body of a 429 (enrichment-client.ts:72) is outside every `try`.

`WorkerPool` is one process, beside a job that an earlier process may have left with leased tasks.

| State | Code | Actions |
|---|---|---|
| `queue`, `ready` | PENDING tasks by `(next_attempt_at, id)`; the first `ready` are due | `ClaimNext`, `Requeue`, `RetryBecomesDue`, `Reap` |
| `pc`, `held`, `attemptOf` | `runLoop`, `tick`, `process` | `SlotAcquired`, `ClaimNext`, `CallAnswered`, `RecordOutcome`, `CloseJobs`, `LoopError` |
| `reaper` | `runReaper` | `ReaperTop`, `Reap`, `ReaperCloses`, `ReaperError` |
| `main`, `exited` | `main()`, `process.exit` | `Listen`, `StartWorkers`, `Exit` |
| `shutdown`, `aborted`, `destroyed` | `shutdown(signal)`, the pool's AbortController | `Signal`, `AppClosed`, `PoolStopped`, `Exit` |
| `stream` | one connection, from the subscription to its end | `Receive`, `FirstRead`, `Respond`, `StreamDone`, `StreamMissesEnd`, `ClientLeaves` |
| `closing`, `hooks` | `app.close()`, and which of its two `onClose` hooks have run | `EndStreams`, `CloseHub`, `AppClosed` |

The backoff of a retry is any place behind the tasks that are due: the jitter can produce each of
them.  The reaper's `next_attempt_at = now()` puts a reclaimed task behind the due ones and before
the waiting ones.  `lost` and `overtook` are history.  Breaker and limiter are left out here.

Whether the `onClose` hooks run before or after open connections are waited for, and which of them runs
first, is left open: Fastify is not part of the repository.  `EndStreams` is the hook of
job-events.routes.ts:33, which ends the streams open at that moment; `CloseHub` the one of app.ts:89, after
which the hub has forgotten its subscribers and hears of no change any more.  A stream nobody will tell of the
end of its job is "deaf": its last event was lost (`JobEvents` shows how), the hub was closed under it, or it
opened when the hub was closed already, which a request may do that reads its first snapshot meanwhile.

### StoreUpload

`file` holds the records read so far, header first; `accepted` and `rejected` are record numbers.
Header names are what `normalizeHeader` makes of them, and a cell is a value, `Blank` or
`TooLong`.  `ReadRow` checks the row limit before it judges the row, as the parser does.  `InsertChunk` is one
statement of the transaction, `CommitUpload` makes the rows visible, `AnswerUpload` tells the
client.  A file that is cut off is to the parser a shorter file.  A client that goes away without
closing leaves its request reading: no fairness is assumed, and nothing else waits for it.  Requests share
only the tables, and each creates an upload of its own.

### ScoringRule, Scoring and Pipeline

`ScoringRule` is `packages/shared/src/scoring.ts` on whole percentages and whole units.  `Scoring` has
one action per statement whose reads matter: the job's status (`RequireJob`), the insert whose
`created_at` orders the runs (`InsertConfig`), the read of the metrics (`ScoreStores`), the commit, and
the answer, which calls the run partial or not by the status read first.  `runs` is ordered by
`created_at`; `IsLatest` is the query `ORDER BY created_at DESC, id DESC`.

A page has a cache entry for the run of its job (`shown`), written by the answer to its own POST and by
`GET latest`, and one entry of stores per run (`lists`).  `ReadStores` needs no message in flight: an
answer goes to the entry of the run it was asked for, whatever is shown when it arrives.  `Listings` is
every order Postgres may return a list in at a moment, `OnPage` what limit and offset cut out of it, and
`Beyond` what follows that page.

`Pipeline` joins the three: a task of a job is a pair of the job and a store of its upload,
and a job may start from any upload that has been answered.  `Enriching` is whatever `JobContract` allows,
which the engine refines.

## 3 Runs

| Run | Instance | Checks | States |
|---|---|---|---|
| `EngineOneJob` | 1 job, 2 stores, 2 loops of one process, 2 attempts, 1 fault, fairness | `ImplementsContract`, `ContractPromises`, `JobsEnd` | 979 820 |
| `EngineTwoJobs` | 2 jobs of 1 store, 2 processes of 1 loop, 2 attempts, 1 fault | `IndInv`, `MetricsFromLatestAttempt`, `AttemptBudget`, `FailedForAReason`, `AttemptLoggedOnce`, `SystemicStopNeedsFailures`, `NothingSettledChanges` | 2 019 038 |
| `Breaker` | window 2, threshold 3, 5 records, clock to 6 | `TripsOnlyOnOutage`, `TripsOnEveryOutage`, `EngineAssumption`, `IndInv` | 1 079 351 |
| `LimiterSlots` | 2 loops, interval 2, pause 3, time to live 9, 1 fault, 1 restart of Redis | `SlotsSpaced`, `WaitBounded`, `UnderApiLimit`, `PauseBindsNewSlots`, `IndInv` | 215 771 |
| `EventsReachPages` | 1 page, 2 loads at a time, 1 store, 1 retry, 1 fault, fairness | `SnapshotsTruthful`, `NothingMissed`, `PagesLearnTheEnd`, `StreamsAreFreed`, `IndInv` | 1 272 159 |
| `RowLocks` | 1 job, 2 stores, 3 transactions at a time, 2 attempts; symmetry of transactions and of stores | `IndInv`, `DeadlocksNeedASweep`, `ImplementsContract` | 494 493 |
| `WorkerPool` | 1 loop and the reaper, 2 stores, 2 attempts, both signals, 1 connection, 1 fault, fairness | `PoolInv`, `DrainedAtExit`, `NoStarvation`, `ShutdownEnds` | 1 161 632 |
| `Pipeline` | 1 upload of up to 2 rows (5 headers, 5 kinds of record), chunks of 1, 1 job, a page and another client, 2 runs, 2 settings, pages of 1 | `KeepsFirstValidRows`, `UploadsAreWhole`, `IndInv`, `PartialIsTruthful`, `EveryStoreGetsATier`, `RankedByMerit`, `MarksAgreeOnceLoaded`, `PagesSkipNothing`, `KeepsContract` | 1 309 552 |
| `EngineAttemptLost`, `EngineWrongJobStopped`, `EventsGoBack`, `EventsDoneLost` | as their configuration says | one statement of the repository each that the code does not keep (section 5) | |

What each property says is in the comment above its definition.

*Why the bounds are enough.*

* Two jobs are the fewest of which one may be started while the other is active (`IndInv` says it never is).
  Two stores are the fewest with a "last" one and another; two loops the fewest with a race; two
  processes the fewest with two breakers and two reapers.  `MaxAttempts = 2` has a first attempt
  that may be retried and a last one that may not; a third adds another of the first kind.
  `MinFailures = 2` has a failure that does not trip and one that does.
* `MaxFaults` bounds crashes and errors in a behaviour.  One is enough for every window between
  two statements, with the rest of the instance free to move in it.
* The breaker's clock and log are long enough for a streak that is too short in time, one too
  short in number, one broken by silence, one broken by success, a trip, and the start of the next
  streak.  `CHECK_DEADLOCK FALSE` there, because clock and log are bounded and nothing else moves.
* The limiter's clock has no bound: `VIEW SinceNow` identifies states that differ by a shift in
  time or in slots and calls too old to matter (a call of the window keeps its slot: `IndInv` is about those).  The window holds two slots and admits three
  calls, the same "one more than fits" as the code's four slots a second under a limit of five.
  `KeyTtl = 9` is exactly the backlog; at 8 `SlotsSpaced` fails.
* Pages of `JobEvents` share nothing but the hub's window and loads, so one page against the hub
  and the database has every interleaving of its own steps; the proofs cover any number.  Two
  loads are the fewest that overlap.  With one store its last result and the end of the job are two
  changes; `EventsGoBack` has two stores.  One retry is a notification with nothing new to read.
  One fault is any one of: a connection, a statement, a load or a request lost, a restart.
  `CHECK_DEADLOCK FALSE`: when the job has ended and its page knows, nothing is left to do.
* `RowLocks` has three transactions because the deadlocks in question are cycles of two, with a third
  that outdates their snapshots or queues behind them.  The proof covers cycles of any length.  After
  its one job nothing can begin, hence `CHECK_DEADLOCK FALSE`.
* `WorkerPool` has one loop because the reaper is a second actor that claims nothing but moves tasks
  under the loop's hands; two loops at once are in `EngineOneJob` and `EngineTwoJobs`.  Two stores
  are the fewest of which one can overtake the other, two signals as many as there are.  The process exits, hence
  `CHECK_DEADLOCK FALSE`.
* `Pipeline`: two rows are the fewest that can repeat a store, in either order of good and bad; the limit
  `MaxRows = 2` is exceeded by a third.  Chunks of one make two statements of two stores.
  The headers are the right one, its permutation, one too short, one with a repetition and one with an
  extra column; the records are two stores, a row too short, a blank id and a cell too long.  Two runs
  by two clients are the fewest that can overtake each other.  The first settings tie the stores; the second put each
  at a cut-off.  Uploads share nothing, so one stands for many, and the proofs cover any number.
  After the last run nothing need happen, hence `CHECK_DEADLOCK FALSE`.
* In the other runs deadlock is checked: loops poll and clocks tick for ever.

*Symmetry* is used in `RowLocks` only, whose properties are safety properties; transactions, and the
stores of the one job, are interchangeable in the module and in each of them.

*Fairness* (`Fairness` in `EnrichmentEngine`).  Weak fairness of every loop's step: `runLoop`
catches everything and goes round again, and a call ends by its timeout.  Weak fairness of every
reaper: `runReaper` does the same.  Weak fairness of the clock of each task: time passes.  It is
not assumed that any job starts, that a fault happens, or that one answer rather than another
comes back: a job whose every call fails ends as well.  `MaxFaults` makes faults finite, without
which nothing could be promised: a database that is never there closes no job.

`Fairness` in `JobEvents` is one weak fairness, of all the steps of server, connection and browser
together: something that can happen does.  Each of these steps is a timer, an answer or a
connection attempt that comes in the end, and the job only takes finitely many, so
nothing can be put off for ever by the rest.  Job steps and faults are not fair.
`PagesLearnTheEnd` and `StreamsAreFreed` are claimed when no notification and no load of the hub is
lost (`[](~lost)`); `EventsDoneLost` shows what happens otherwise.  Lost streams, polls, LISTEN
connections and restarts are not excluded.  A page whose very first fetch fails twice shows
an error and fetches no more; the model takes it to be reloaded, and with one fault this does not arise.

`Fairness` in `WorkerPool`: weak fairness of every loop and of the reaper, as above; of the clock
behind each due time and lease; of a request's answer, of the event that ends a stream, and of the steps of
`main()`, `app.close()` and `shutdown()`, all of them callbacks the event loop gets to.  No signal, no client and no
fault is fair.  `ShutdownEnds` excepts a connection that stays deaf for ever: `app.close()` waits for it, and
its client alone can end it.  Every other shutdown, under either order of hooks and waiting, ends by itself.

*Mutants.*  Each property of a passing run has a mutant in `PROJECT.json`: a change to a mapped
definition that a slip in the code could make, under which TLC finds that property violated.

## 4 Proofs

All of these hold for every value of the constants that meets the named assumptions.

**EnrichmentEngineProofs** (assumptions: `JobsAssumption`, every task has a job and every job a task;
`WorkersAssumption`, every loop a process; `BudgetAssumption`, `MAX_ATTEMPTS` and
`BREAKER_MIN_FAILURES` positive as `config.ts` demands; `NoTaskAssumption`).

* `TypeCorrect`, then `Invariance`: `IndInv` is inductive.  The safety properties are not by
  themselves.  That metrics come from the latest attempt needs that a lease's token is the attempt
  counted last (`LeaseMatchesStatus`), that no two loops hold the same attempt
  (`ClaimsAreExclusive`), and that no audit row is ahead of the claims (`AuditIsOfClaims`); that
  nothing happens to a job that is over needs that its tasks are not open (`TasksMatchJob`).
  The proof has one lemma per action, and under it one step per conjunct the action can disturb.
* `LateAnswersHarmless`, `BudgetKept`, `FailuresJustified`, `AuditExact` follow from `IndInv`;
  `SettledForever` is the action property `NothingSettledChanges`, from `IndInv` in both states.
* `StopsNeedFailures`, from the last two parts of `IndInv`.  No sum over processes is needed: each
  breaker's streak *plus* the failures recorded and not judged yet, of all loops, is at most the number of
  UNHEALTHY and STALE_IGNORED rows (`StreaksAreOnRecord`).  A failure gets a row of its own before it is judged
  (`AttemptLoggedOnce` says the row is new), a verdict moves one from the second summand to one of the
  streaks, and an error or a crash only lowers the left side.  Sets stay finite because every step adds
  one element at most, so nothing need be assumed of how many loops or stores there are.
* `Refinement`: the engine implements `JobContract`.  A store counts as enriched when its metrics
  are stored, so the mapping rests on `MetricsFromLatestAttempt`.  `StartJob` is `Start`,
  `SaveSuccess`, `FailForGood` and `Reap` are `Settle` (the reaper may settle several), closing is
  `Close`, `StopJobs` is `Stop`; all else stutters.  That at most one job is active makes the
  set-wide updates single steps of the contract.

**JobContractProofs.**  `ContractSound`: statuses agree with results, a job completed with
failures has a failed store, one job runs at a time.  `PromisesKept` carries this to the engine.

**CircuitBreakerProofs** (window and threshold positive).  `Invariance`: as long as a streak runs
there is a record of the history since which the fields are the sums (`Summarises`); extending,
restarting and resetting keep such a record.  From it `NoFalseTrip`.  For the converse, `NoMissedOutage`,
that summary is not enough: an outage may start anywhere.  `RunsAreCounted` speaks of every record that
began a run nothing has cut since: the streak started no later, counts no fewer failures, and its
last failure is the run's last.  A failure within the window of that last one extends all such runs and the
streak alike; one beyond it cuts them all and starts the streak anew.  So the failure that completes an outage
finds both thresholds passed.  `EngineAbstractsBreaker` discharges what the engine assumes of a breaker.

**RateLimiterProofs** (a finite set of loops, positive times).  The argument is an accounting:
seen from any later time, the key is ahead of it by no more than a slot or a pause starting there,
one interval for each loop waiting beyond it and one for each fault (`BacklogAccounted`).  So the key
is never further ahead of the clock than `Backlog`, and a key that lives at least as long as the
backlog never expires while a slot it stands for is still to come (`KeyOutlivesSchedule`).  From
this `Spacing`, `Waiting` and `PausesBind`.  `Headroom` adds the calls: as long as Redis forgets nothing, each
call, made or waiting to be made, has a slot an interval from all the others' and is at most `MaxLate`
behind it (`CallsHaveSlots`, `WaitersHaveSlots`).  So the calls of a window were made for different slots of
a window `MaxLate` longer, and dividing by the interval maps them one-to-one into `ApiLimit` numbers.

All four are proved *under* `KeyOutlivesBacklog`, `Headroom` also under `LimitHasHeadroom`
(`Window + MaxLate <= ApiLimit * Interval`: at the defaults, loops up to one interval late).  The
code does not enforce this condition: `config.ts` bounds neither `RATE_LIMIT_PAUSE_MS` nor the
interval from above.  The defaults (250 ms, 1 s, 8 loops, 60 s) meet it with more than 200 faults
to spare; at 64 loops and a rate of 1/s (an interval of 1 s, a pause of 1 s) 65 s exceed 60 s.

**JobEventsProofs** (assumption: at least one store; any number of pages, loads and faults).
`Invariance`: `IndInv` is inductive.  `SnapshotsTruthful` needs `FinalIsFinal`: the job row is read
before the counts, and a job is final only with every store settled, so counts read after a final
status are complete; `JobForward` says that what was true stays true.  `NothingMissed` is carried
from hand to hand: an update that ends the job leaves a notification or a statement to come; a
notification opens a window, since somebody is subscribed; a window becomes a read that has the
job row still to read; its answer ends an open stream and is buffered by one being opened; and a
connection that comes back opens a window, after LISTEN has run.  `Truthfulness` and `EndNotMissed` follow.

**RowLocksProofs** (assumptions: as the engine's, and that jobs, tasks and transactions differ; any number
of each).  `Invariance`: `IndInv` says of each transaction what it has before it (`RowsAhead`), what it
holds (`RowsHeld`) and what it knows (`SnapshotsHold`).  A row that is held matched its WHERE clause when it
was locked, and nobody else writes it before the commit.  A stop holds the job before it looks for
its tasks, so no task can open behind its back; a closing saw a job whose tasks are all settled, and
settled tasks stay.  `Untouched` carries these facts over the steps of others; only `Commit` and
`StartJob` change the tables.  From the invariant:

* `NoDeadlockOtherwise`: a transaction that waits and holds, and is no stop, holds only tasks.  A claim
  never waits, a closing holds at most the one job it wanted, a retry has one row, a success or a
  failure waits holding its task only, and nobody but a stop or a reaper waits for a task while
  holding anything.  So a cycle without a stop has two reapers.
* `Refinement`: each commit is one step of `JobContract`, or none.  This justifies the grain of
  `EnrichmentEngine`, whose own refinement takes the transactions as atomic.

**PipelineProofs** (assumptions: those of the modules it composes; any number of uploads, jobs,
stores, clients, pages and runs; finitely many columns, `IdColumn` one of them, chunks of at least one,
files of any length; `RankAssumption`, the order of the ids as text tells different
store ids apart).  `Invariance` joins the
parts' invariants by `JobsCoverUploads`.

* `UploadsSound` and `UploadsWhole` are the part for uploads: `UploadInv` is kept by every step of a request.
  `KeepsFirstValidRows` needs `ValidIdsSeen`, the other direction of "an id is seen because its row was
  accepted"; from it follows that the unique constraint never refuses a chunk.  `UploadsAreWhole` is the
  invariant at the commit: the accepted rows are those of the file, and all of them are in.
* `CompleteIsComplete`: each request works on a run of its own (`PostsInOrder`), and the status it
  read is from before the metrics.  A job that was over then is over for good, and its results with it
  (`OverStays`), so the metrics were all there.
* `EndToEnd`: to that it adds that a COMPLETED job has enriched every task, and has a task for every store of its
  upload, which stays as it is.
* `MeritRanks`: totals grow with the set of cleared bars, tiers with totals, and bars with merit.
* `MarksAgree`: a list entry is keyed by its run and holds only that run's tiers (`OwnTiers`), and a run
  never changes once saved.
* `PagingIsStable`: the pages are read at different moments, between which stores are enriched.  Whatever order
  Postgres returns a list in, of those the ORDER BY allows, a store's place in it is one more than the number of
  stores that sort before it: rows of equal sort value are told apart by their id (`RankAssumption`), so the order is
  total (`PlaceInListing`, a bijection between places and rows; no induction).  From one state to the next a
  run keeps its scores (`SavedRunsStay`) and a job its enriched stores (`EnrichedGrows`), so the stores before one
  stay before it and its place never decreases; once the job is over they are the same stores, and it stays.
* `ContractKept`: a job starts with at least one task, since an upload that was answered is not empty.

**WorkerPoolProofs** (assumption: finitely many tasks, numbered by id, an attempt each at least; any number of
loops, signals and faults).  `Invariance`: `PoolInv` is inductive.  Beside the types, and that
a closed job has nothing left to claim (`ClosedIsSettled`), its parts are the queue (`QueueIsPending`: the tasks
that are PENDING, each once), overtaking (`OvertakenOnce`: no task that was claimed while a due one waited is in
front of it now), the leases (`LeaseHasOwner`: a lease is in one loop's hand at its latest attempt, or nobody's, as
an error or an earlier process left it) and the lifecycle (`StopsInOrder`: what has stopped, seen from each point
of a shutdown).  `QueueSteps` names the steps that touch the queue: a claim takes its first element out
(`FirstLeaves`), a retry or the reaper puts tasks in behind the due ones (`OthersComeIn`), and a retry that becomes
due moves the mark between the two by one.  The two lemmas on sequences carry the rest.

* `Drained`: the shutdown that destroys the connections waited for the pool, and the pool for its loops.  If
  several signals came, each of their shutdowns has seen it stopped.
* `NobodyStarves`: a claim takes the first of the queue, so whoever overtakes was in front.  It can be in front
  of a due task again only by coming in among those due before, and both requeueing and reaping come in behind.

**Model-checked only.**  Liveness (`JobsEnd`, `PagesLearnTheEnd`, `StreamsAreFreed`, `ShutdownEnds`):
fairness, and with it ENABLED, is out of the prover's reach.  Every safety invariant and every action property of the
runs that pass is the subject of a theorem.  The statements of section 5 are counterexamples
and have nothing to prove.

## 5 Where code and text disagree

* `EngineAttemptLost`: "Every attempt is also recorded in `enrichment_attempts`" (README.md), "one
  row per HTTP attempt" (0001_initial.ts:90).  An attempt whose process died, or whose recording
  transaction failed, is counted and has no row: the reaper writes none.
* `EngineWrongJobStopped`: "the run is systemically broken. The job becomes `FAILED_SYSTEMIC`"
  (README.md).  The verdict carries no job.  If the job whose calls failed is closed between the
  verdict and its execution, and another is started, that one is stopped without a failed call.
* `EventsGoBack`: "Counts only ever move forward" (test/job-events.test.ts:252).  A load delivered
  while a stream reads its first snapshot is buffered and sent after it, and may be older; so may the
  earlier of two overlapping loads.  The page shows the lower count until the next event.
* `EventsDoneLost`: "`done` ... once the job reaches a final state; stream ends"
  (events/job-events.routes.ts:22), and "every transaction that changes it ... also runs `pg_notify`"
  (README.md).  The update that closes a job commits first and notifies in a second statement; a load
  that fails is only logged.  After either failure at the end of a job, its open streams stay open
  and their pages show it running until something disconnects.

Read off the models, without a run of their own:

* After a trip "the next job starts with a clean slate"
  (circuit-breaker.ts:63).  Calls still out when the breaker trips report their failures
  afterwards, and those start a streak before the next job exists.
* "Pause all workers this long after a 429" (worker-pool.ts:22).  The pause moves
  the next free slot only; a loop that already has one calls the API while the pause lasts.
* "The client never throws" (enrichment/types.ts:17).  `res.body?.cancel()` (enrichment-client.ts:72) is
  outside every `try`; if the body of a 429 has broken off, `enrich` throws, the loop backs off and the
  store waits for its lease (`Enrich` of `EnrichmentClient`, taken by `CallAnswered` of `WorkerPool`).
* "The dashboard and the stored tiers cannot disagree" (README.md:330).  `MarksAgreeOnceLoaded` holds, but until
  the stores of a new run arrive, `keepPreviousData` (ResultsPanel.tsx:110) leaves the rows of the previous run
  under the bars of the new one.
* "The server runs the same rule as one SQL statement" (packages/shared/src/scoring.ts:11).  It runs these
  functions in Node (scoring.repository.ts:97).
* The `onClose` hook of job-events.routes.ts:33 ends the streams open when it runs.  A request that is reading its
  first snapshot then opens its stream afterwards.  If the hub has been closed by then (app.ts:89), no event
  reaches it, not even the end of its job, and the shutdown waits until its client leaves.  If Fastify runs the
  hooks after requests under way have ended, an open stream holds up the shutdown until its job ends.
  `ShutdownEnds` says that these, and streams that lost their last event, are the only ones that hold it up.

Consequences of the design that the models show and no text denies: a slow `GET latest` may replace the run the page
has just posted by an older one until the next refetch; the latest run by `created_at` (the start of its
transaction) may cover fewer stores than an older one that read later; stores without a score come first in a
descending list, so that a store enriched between two page queries of a running job pushes the others back and one
of them is shown twice (never is one left out: `PagesSkipNothing`).  Seen while reading, and not modelled: the page index is kept when the run changes (ResultsPanel.tsx:95), and
the answer to "start job" clears an upload result that came in meanwhile (UploadPanel.tsx:28).

## 6 What is not modelled, and why

* Pure I/O and wording: `config.ts` parsing (its values are the constants), `http/errors.ts`,
  `http/validation.ts`, logging, the text of errors, rendering in `src/apps/web`.
* `last_error`, `last_http_status`, `updated_at`, `last_progress_at`, latencies: written here,
  read only for display.
* Migrations: run once, before anything else.
* Reads that keep no state and see one statement: lists of jobs and failed stores, GET of an upload, of a run,
  the health endpoint.  Filters by tier and the sort columns that work like `score`.
* csv-parse, multipart, Fastify, React Query and the browser: external, modelled by what the code relies on.
* Heartbeats, the hub's own connection at shutdown, form state.
* The arithmetic of the backoff: pure and unit-tested; a retry may come due at any moment, in any order.
* Clocks that run backwards, and Redis or Postgres losing what they acknowledged (a restart of
  Redis, which keeps nothing on disk, is modelled).

## 7 Plan

Order: what decides whether results are right first, then what decides whether people see them,
then pure rules.

1. Done: `RetryPolicy`, `EnrichmentEngine`, `JobContract` and the refinement; `CircuitBreaker` and its
   link to the engine; `RateLimiter`.
2. Done: `JobEvents`, hub, streams and pages, with its invariant proved.
3. Done: `RowLocks`, its refinement of `JobContract` and the theorem on deadlocks.
4. Done: `EnrichmentClient` and `WorkerPool`, with the order of due tasks and the lifecycle.
5. Done: `StoreUpload`, `ScoringRule`, `Scoring` and `Pipeline`, with the proofs from end to end.
6. Done: a theorem for each safety and action property the runs check, `WorkerPool`'s, the breaker's
   converse, the limiter's headroom, the stops' evidence and the paging among them.
7. Left: what bounds the progress behind `JobsEnd` (attempts spent, stores settled) as action
   properties; a page's index and filters beside a change of run; several jobs in `Pipeline`'s instance.
