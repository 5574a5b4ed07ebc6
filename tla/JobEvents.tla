----------------------------- MODULE JobEvents -----------------------------
(***************************************************************************)
(* How the end of a job reaches the pages that show it: the statements     *)
(* that change a job and NOTIFY (task-queue.ts, lease-reaper.ts,           *)
(* job.repository.ts), the hub of one server process (job-event-hub.ts),   *)
(* the server-sent event streams (job-events.routes.ts), and the page with *)
(* its stream, its fallback poll and its one cache entry (useJobEvents.ts, *)
(* JobPanel.tsx).  One job; what a snapshot says of it is its status and   *)
(* how many of its stores are settled.                                     *)
(*                                                                         *)
(* A snapshot is two queries (job row, then counts), on their way for any  *)
(* time: the hub's loads overlap, and a poll may be slower than a stream.  *)
(***************************************************************************)
EXTENDS Naturals, Sequences

CONSTANTS
  Viewers,       (* pages showing the job                                   *)
  Loads,         (* bound: snapshot reads the hub has out at the same time  *)
  Stores,        (* stores of the job                                       *)
  MaxRetries,    (* bound: notifications that change no count               *)
  MaxFaults      (* bound: connections lost, statements and requests failed,*)
                 (* restarts                                                *)

ASSUME CountsAssumption == /\ Stores \in Nat \ {0}
                           /\ MaxRetries \in Nat
                           /\ MaxFaults \in Nat

VARIABLES
  (* the database *)
  jobStatus,
  settled,       (* SUCCEEDED, FAILED and ABORTED tasks                     *)
  unsent,        (* commits whose pg_notify is a statement still to come    *)
  (* the hub *)
  conn,          (* its LISTEN connection                                   *)
  notices,       (* notifications on that connection                        *)
  window,        (* `pending' has a timer for the job                       *)
  (* snapshot reads: the hub's, the streams' first ones, the pages'         *)
  reads,
  (* the streams *)
  handler,       (* where the request handler of each page's stream stands  *)
  buffered,
  leaked,        (* subscriptions of handlers whose client left unnoticed   *)
  wire,          (* snapshots written and not yet received                  *)
  (* the pages *)
  source,        (* the EventSource                                         *)
  cache,         (* the query cache's entry for the job                     *)
  retries, faults,
  lost           (* a notification or a load of the hub was                 *)

database == <<jobStatus, settled, unsent>>
hub      == <<conn, notices, window>>
streams  == <<handler, buffered, leaked, wire>>
pages    == <<source, cache>>
bounds   == <<retries, faults, lost>>
vars     == <<jobStatus, settled, unsent, conn, notices, window, reads, handler,
              buffered, leaked, wire, source, cache, retries, faults, lost>>

Snapshot == [status : {"RUNNING", "FINAL"}, settled : 0..Stores]
NoData   == [status |-> "NONE", settled |-> 0]

FirstOf(v) == <<"first", v>>
PollOf(v)  == <<"poll", v>>
LoadOf(l)  == <<"load", l>>
LoadReaders == {LoadOf(l) : l \in Loads}
Readers == LoadReaders \cup {FirstOf(v) : v \in Viewers} \cup {PollOf(v) : v \in Viewers}

(* off; the job row is to be read; the counts are; the answer is on its way *)
Read == [step : {"off", "job", "counts", "answer"},
         status : {"RUNNING", "FINAL"}, settled : 0..Stores]
Off  == [step |-> "off", status |-> "RUNNING", settled |-> 0]
Begun == [Off EXCEPT !.step = "job"]
Answer(r) == [status |-> reads[r].status, settled |-> reads[r].settled]

(* none; first snapshot being read; the same but the client has left; open  *)
Handlers == {"none", "reading", "abandoned", "open"}
(* off; first attempt; live; reconnecting; given up (the page polls in the  *)
(* last two)                                                                *)
Sources == {"off", "connecting", "open", "retrying", "dead"}

TypeOK ==
  /\ jobStatus \in {"RUNNING", "FINAL"}
  /\ settled \in 0..Stores
  /\ unsent \in Nat
  /\ conn \in {"down", "listening", "up"}
  /\ notices \in Nat
  /\ window \in BOOLEAN
  /\ reads \in [Readers -> Read]
  /\ handler \in [Viewers -> Handlers]
  /\ buffered \in [Viewers -> Seq(Snapshot)]
  /\ leaked \in Nat
  /\ wire \in [Viewers -> Seq(Snapshot)]
  /\ source \in [Viewers -> Sources]
  /\ cache \in [Viewers -> Snapshot \cup {NoData}]
  /\ retries \in 0..MaxRetries
  /\ faults \in 0..MaxFaults
  /\ lost \in BOOLEAN

Fault == faults < MaxFaults /\ faults' = faults + 1

Init ==
  /\ jobStatus = "RUNNING" /\ settled = 0 /\ unsent = 0
  /\ conn = "down" /\ notices = 0 /\ window = FALSE
  /\ reads = [r \in Readers |-> Off]
  /\ handler = [v \in Viewers |-> "none"]
  /\ buffered = [v \in Viewers |-> <<>>]
  /\ leaked = 0
  /\ wire = [v \in Viewers |-> <<>>]
  /\ source = [v \in Viewers |-> "off"]
  /\ cache = [v \in Viewers |-> NoData]
  /\ retries = 0 /\ faults = 0 /\ lost = FALSE

-----------------------------------------------------------------------------
(* The database.                                                            *)

(* pg_notify, as its transaction commits: heard by whoever listens.         *)
Notify == notices' = IF conn = "down" THEN notices ELSE notices + 1

(* recordSuccess, or recordFailure for good: notified in the transaction.   *)
RecordResult ==
  /\ jobStatus = "RUNNING" /\ settled < Stores
  /\ settled' = settled + 1
  /\ Notify
  /\ UNCHANGED <<jobStatus, unsent, conn, window, reads, streams, pages, bounds>>

(* A retry is scheduled, or the reaper requeues: no count here changes.     *)
RecordRetry ==
  /\ jobStatus = "RUNNING" /\ settled < Stores
  /\ retries < MaxRetries
  /\ retries' = retries + 1
  /\ Notify
  /\ UNCHANGED <<database, conn, window, reads, streams, pages, faults, lost>>

(* reapExpiredLeases gives up on a store; its NOTIFY is another statement.  *)
ReapResult ==
  /\ jobStatus = "RUNNING" /\ settled < Stores
  /\ settled' = settled + 1
  /\ unsent' = unsent + 1
  /\ UNCHANGED <<jobStatus, hub, reads, streams, pages, bounds>>

(* finalizeFinishedJobs; its NOTIFY is another statement.                   *)
FinalizeFinishedJobs ==
  /\ jobStatus = "RUNNING" /\ settled = Stores
  /\ jobStatus' = "FINAL"
  /\ unsent' = unsent + 1
  /\ UNCHANGED <<settled, hub, reads, streams, pages, bounds>>

(* failRunningJobsSystemically gives up on every store left.                *)
FailRunningJobsSystemically ==
  /\ jobStatus = "RUNNING"
  /\ jobStatus' = "FINAL"
  /\ settled' = Stores
  /\ Notify
  /\ UNCHANGED <<unsent, conn, window, reads, streams, pages, bounds>>

NotifyAfterCommit ==
  /\ unsent > 0
  /\ unsent' = unsent - 1
  /\ Notify
  /\ UNCHANGED <<jobStatus, settled, conn, window, reads, streams, pages, bounds>>

(* The process died in between, or the statement failed.                    *)
NotifyLost ==
  /\ unsent > 0
  /\ Fault
  /\ lost' = TRUE
  /\ unsent' = unsent - 1
  /\ UNCHANGED <<jobStatus, settled, hub, reads, streams, pages, retries>>

-----------------------------------------------------------------------------
(* jobs.snapshot: the job row, then the counts.                             *)

(* Mutated form of ReadSnapshot: the counts first.                          *)
ReadCountsFirst(r) ==
  /\ \/ /\ reads[r].step = "job"
        /\ reads' = [reads EXCEPT ![r].step = "counts", ![r].settled = settled]
     \/ /\ reads[r].step = "counts"
        /\ reads' = [reads EXCEPT ![r].step = "answer", ![r].status = jobStatus]
  /\ UNCHANGED <<database, hub, streams, pages, bounds>>

ReadSnapshot(r) ==
  /\ \/ /\ reads[r].step = "job"
        /\ reads' = [reads EXCEPT ![r].step = "counts", ![r].status = jobStatus]
     \/ /\ reads[r].step = "counts"
        /\ reads' = [reads EXCEPT ![r].step = "answer", ![r].settled = settled]
  /\ UNCHANGED <<database, hub, streams, pages, bounds>>

-----------------------------------------------------------------------------
(* The hub.                                                                 *)

(* subscribers.has(jobId).                                                  *)
Watched == leaked > 0 \/ \E v \in Viewers : handler[v] # "none"

(* schedule().                                                              *)
Schedule == window' = (window \/ Watched)

(* listen() has run LISTEN; notifications arrive before it returns.         *)
Listen ==
  /\ conn = "down"
  /\ conn' = "listening"
  /\ UNCHANGED <<database, notices, window, reads, streams, pages, bounds>>

(* Mutated form of Listening: what was missed meanwhile is not fetched.     *)
ListeningOnly ==
  /\ conn = "listening"
  /\ conn' = "up"
  /\ UNCHANGED <<database, notices, window, reads, streams, pages, bounds>>

(* "Anything missed while disconnected: refresh every watched job once."    *)
Listening ==
  /\ conn = "listening"
  /\ conn' = "up"
  /\ Schedule
  /\ UNCHANGED <<database, notices, reads, streams, pages, bounds>>

(* onConnectionLost; start() runs again when its timer fires.               *)
ConnectionLost ==
  /\ conn # "down"
  /\ Fault
  /\ conn' = "down"
  /\ notices' = 0
  /\ UNCHANGED <<database, window, reads, streams, pages, retries, lost>>

OnNotification ==
  /\ notices > 0
  /\ notices' = notices - 1
  /\ Schedule
  /\ UNCHANGED <<database, conn, reads, streams, pages, bounds>>

(* The window closes: flush() up to its await.                              *)
Flush(l) ==
  /\ window
  /\ reads[LoadOf(l)].step = "off"
  /\ window' = FALSE
  /\ reads' = IF Watched THEN [reads EXCEPT ![LoadOf(l)] = Begun] ELSE reads
  /\ UNCHANGED <<database, conn, notices, streams, pages, bounds>>

(* A load delivers to the set of listeners flush() found.  That set is      *)
(* replaced once it runs empty: loads begun before then reach nobody.       *)
ForgetLoadsUnlessWatched(updated) ==
  reads' = [r \in Readers |->
              IF r \in LoadReaders /\ ~Watched' THEN Off ELSE updated[r]]

(* push() n times: nothing is sent after a final snapshot.                  *)
PushedUpTo(s, n) == /\ \A i \in 1..(n - 1) : s[i].status # "FINAL"
                    /\ n = Len(s) \/ s[n].status = "FINAL"
EndsStream(s) == \E i \in 1..Len(s) : s[i].status = "FINAL"

(* flush() after its await: every listener is called.  A stream that is     *)
(* still being opened buffers; an open one writes, a final snapshot ends it.*)
Deliver(l) ==
  LET s == Answer(LoadOf(l))
  IN /\ reads[LoadOf(l)].step = "answer"
     /\ buffered' = [v \in Viewers |->
          IF handler[v] \in {"reading", "abandoned"} THEN Append(buffered[v], s) ELSE buffered[v]]
     /\ wire' = [v \in Viewers |->
          IF handler[v] = "open" THEN Append(wire[v], s) ELSE wire[v]]
     /\ handler' = [v \in Viewers |->
          IF handler[v] = "open" /\ s.status = "FINAL" THEN "none" ELSE handler[v]]
     /\ leaked' = IF s.status = "FINAL" THEN 0 ELSE leaked
     /\ UNCHANGED <<database, hub, pages, bounds>>
     /\ ForgetLoadsUnlessWatched([reads EXCEPT ![LoadOf(l)] = Off])

(* The error is logged, and that is all.                                    *)
LoadFails(l) ==
  /\ reads[LoadOf(l)].step \in {"job", "counts"}
  /\ Fault
  /\ lost' = TRUE
  /\ reads' = [reads EXCEPT ![LoadOf(l)] = Off]
  /\ UNCHANGED <<database, hub, streams, pages, retries>>

-----------------------------------------------------------------------------
(* The streams: GET /jobs/:id/events.                                       *)

(* "Subscribe before reading the snapshot, so a change in between isn't     *)
(* missed."                                                                 *)
OpenStream(v) ==
  /\ source[v] \in {"connecting", "retrying"}
  /\ handler[v] = "none"
  /\ wire[v] = <<>>
  /\ handler' = [handler EXCEPT ![v] = "reading"]
  /\ buffered' = [buffered EXCEPT ![v] = <<>>]
  /\ reads' = [reads EXCEPT ![FirstOf(v)] = Begun]
  /\ UNCHANGED <<database, hub, leaked, wire, pages, bounds>>

(* Mutated form of FirstSnapshot: what was buffered is not sent.            *)
FirstSnapshotOnly(v) ==
  LET first == Answer(FirstOf(v))
  IN /\ reads[FirstOf(v)].step = "answer"
     /\ handler[v] = "reading"
     /\ wire' = [wire EXCEPT ![v] = <<first>>]
     /\ handler' = [handler EXCEPT ![v] = IF first.status = "FINAL" THEN "none" ELSE "open"]
     /\ buffered' = [buffered EXCEPT ![v] = <<>>]
     /\ UNCHANGED <<database, hub, leaked, pages, bounds>>
     /\ ForgetLoadsUnlessWatched([reads EXCEPT ![FirstOf(v)] = Off])

(* The first snapshot is there: it is sent, then what was buffered.         *)
FirstSnapshot(v) ==
  LET all == <<Answer(FirstOf(v))>> \o buffered[v]
  IN /\ reads[FirstOf(v)].step = "answer"
     /\ handler[v] = "reading"
     /\ \E n \in 1..Len(all) : /\ PushedUpTo(all, n)
                               /\ wire' = [wire EXCEPT ![v] = SubSeq(all, 1, n)]
     /\ handler' = [handler EXCEPT ![v] = IF EndsStream(all) THEN "none" ELSE "open"]
     /\ buffered' = [buffered EXCEPT ![v] = <<>>]
     /\ UNCHANGED <<database, hub, leaked, pages, bounds>>
     /\ ForgetLoadsUnlessWatched([reads EXCEPT ![FirstOf(v)] = Off])

(* Mutated form of FirstSnapshotToNobody: a final snapshot ends nothing.    *)
FirstSnapshotLeaks(v) ==
  /\ reads[FirstOf(v)].step = "answer"
  /\ handler[v] = "abandoned"
  /\ handler' = [handler EXCEPT ![v] = "none"]
  /\ leaked' = leaked + 1
  /\ buffered' = [buffered EXCEPT ![v] = <<>>]
  /\ UNCHANGED <<database, hub, wire, pages, bounds>>
  /\ ForgetLoadsUnlessWatched([reads EXCEPT ![FirstOf(v)] = Off])

(* The same for a client that left before: "close" was emitted before the   *)
(* handler asked for it, so the subscription stays until a final snapshot.  *)
FirstSnapshotToNobody(v) ==
  LET all == <<Answer(FirstOf(v))>> \o buffered[v]
  IN /\ reads[FirstOf(v)].step = "answer"
     /\ handler[v] = "abandoned"
     /\ handler' = [handler EXCEPT ![v] = "none"]
     /\ leaked' = IF EndsStream(all) THEN leaked ELSE leaked + 1
     /\ buffered' = [buffered EXCEPT ![v] = <<>>]
     /\ UNCHANGED <<database, hub, wire, pages, bounds>>
     /\ ForgetLoadsUnlessWatched([reads EXCEPT ![FirstOf(v)] = Off])

(* unsubscribe() and a 500, at which an EventSource gives up.               *)
FirstSnapshotFails(v) ==
  /\ reads[FirstOf(v)].step \in {"job", "counts"}
  /\ Fault
  /\ source' = [source EXCEPT ![v] = IF handler[v] = "reading" THEN "dead" ELSE @]
  /\ handler' = [handler EXCEPT ![v] = "none"]
  /\ buffered' = [buffered EXCEPT ![v] = <<>>]
  /\ UNCHANGED <<database, hub, leaked, wire, cache, retries, lost>>
  /\ ForgetLoadsUnlessWatched([reads EXCEPT ![FirstOf(v)] = Off])

(* The connection of v's stream is gone, what was on it is lost.            *)
Disconnect(v) ==
  /\ wire' = [wire EXCEPT ![v] = <<>>]
  /\ handler' = [handler EXCEPT ![v] =
       CASE @ = "reading" -> "abandoned" [] @ = "open" -> "none" [] OTHER -> @]

StreamLost(v) ==
  /\ source[v] \in {"connecting", "open"}
  /\ Fault
  /\ Disconnect(v)
  /\ source' = [source EXCEPT ![v] = "retrying"]
  /\ UNCHANGED <<database, hub, buffered, leaked, cache, retries, lost>>
  /\ ForgetLoadsUnlessWatched(reads)

(* The server process stops (close() of the hub and of its streams, or a    *)
(* crash) and starts again: requests fail, streams end.                     *)
Restart ==
  /\ Fault
  /\ conn' = "down" /\ notices' = 0 /\ window' = FALSE
  /\ reads' = [r \in Readers |-> Off]
  /\ handler' = [v \in Viewers |-> "none"]
  /\ buffered' = [v \in Viewers |-> <<>>]
  /\ leaked' = 0
  /\ wire' = [v \in Viewers |-> <<>>]
  /\ source' = [v \in Viewers |->
       IF source[v] \in {"connecting", "open"} THEN "retrying" ELSE source[v]]
  /\ UNCHANGED <<database, cache, retries, lost>>

-----------------------------------------------------------------------------
(* The pages.                                                               *)

Running(s) == s.status = "RUNNING"

(* The page fetches the job when it opens, and every 5 s while its stream   *)
(* is down; one request at a time.  A page that never got an answer is      *)
(* taken to be reloaded in the end: the code itself retries once.           *)
Poll(v) ==
  /\ cache[v] = NoData \/ (Running(cache[v]) /\ source[v] \in {"retrying", "dead"})
  /\ reads[PollOf(v)].step = "off"
  /\ reads' = [reads EXCEPT ![PollOf(v)] = Begun]
  /\ UNCHANGED <<database, hub, streams, pages, bounds>>

PollFails(v) ==
  /\ reads[PollOf(v)].step # "off"
  /\ Fault
  /\ reads' = [reads EXCEPT ![PollOf(v)] = Off]
  /\ UNCHANGED <<database, hub, streams, pages, retries, lost>>

(* useJobEvents: its effect runs again when the job turns out to run, or    *)
(* not to run any more.                                                     *)
OpenSource(v) ==
  /\ source' = [source EXCEPT ![v] = IF Running(cache[v]) THEN @ ELSE "connecting"]
  /\ UNCHANGED <<handler, wire>>
CloseSource(v) ==
  /\ source' = [source EXCEPT ![v] = "off"]
  /\ Disconnect(v)

(* Mutated form of PollAnswered: the stream is not opened again.            *)
PollAnsweredOnly(v) ==
  LET s == Answer(PollOf(v))
  IN /\ reads[PollOf(v)].step = "answer"
     /\ cache' = [cache EXCEPT ![v] = s]
     /\ IF Running(s) THEN UNCHANGED <<source, handler, wire>> ELSE CloseSource(v)
     /\ UNCHANGED <<database, hub, buffered, leaked, bounds>>
     /\ ForgetLoadsUnlessWatched([reads EXCEPT ![PollOf(v)] = Off])

(* The answer replaces what the stream wrote meanwhile, older or not.       *)
PollAnswered(v) ==
  LET s == Answer(PollOf(v))
  IN /\ reads[PollOf(v)].step = "answer"
     /\ cache' = [cache EXCEPT ![v] = s]
     /\ IF Running(s) THEN OpenSource(v) ELSE CloseSource(v)
     /\ UNCHANGED <<database, hub, buffered, leaked, bounds>>
     /\ ForgetLoadsUnlessWatched([reads EXCEPT ![PollOf(v)] = Off])

(* An event of the stream; a final one ("done") closes the source.          *)
Receive(v) ==
  LET s == Head(wire[v])
  IN /\ wire[v] # <<>>
     /\ cache' = [cache EXCEPT ![v] = s]
     /\ IF Running(s)
          THEN /\ source' = [source EXCEPT ![v] = "open"]
               /\ wire' = [wire EXCEPT ![v] = Tail(@)]
               /\ UNCHANGED handler
          ELSE CloseSource(v)
     /\ UNCHANGED <<database, hub, buffered, leaked, bounds>>
     /\ ForgetLoadsUnlessWatched(reads)

-----------------------------------------------------------------------------
JobStep == \/ RecordResult \/ RecordRetry \/ ReapResult
           \/ FinalizeFinishedJobs \/ FailRunningJobsSystemically

HubStep == \/ Listen \/ Listening \/ OnNotification
           \/ \E l \in Loads : Flush(l) \/ Deliver(l)

StreamStep(v) == OpenStream(v) \/ FirstSnapshot(v) \/ FirstSnapshotToNobody(v)

PageStep(v) == Poll(v) \/ PollAnswered(v) \/ Receive(v)

SystemStep == \/ NotifyAfterCommit
              \/ \E r \in Readers : ReadSnapshot(r)
              \/ HubStep
              \/ \E v \in Viewers : StreamStep(v) \/ PageStep(v)

Failure == \/ NotifyLost \/ ConnectionLost \/ Restart
           \/ \E l \in Loads : LoadFails(l)
           \/ \E v \in Viewers : StreamLost(v) \/ FirstSnapshotFails(v) \/ PollFails(v)

Next == JobStep \/ SystemStep \/ Failure

Spec == Init /\ [][Next]_vars

(* Statements and requests end, timers fire, EventSource and the hub        *)
(* reconnect, bytes arrive: something that can happen does.  Nothing makes  *)
(* the job move or anything fail.                                           *)
Fairness == WF_vars(SystemStep)

FairSpec == Spec /\ Fairness
-----------------------------------------------------------------------------
(* Safety.                                                                  *)

(* Whatever a page shows, or is about to be sent, was true: no store counts *)
(* as settled before it is, and a job that shows a final status shows every *)
(* store settled, although status and counts are read by two queries while  *)
(* the job moves (job.repository.ts:133-136).                               *)
Truthful(s) == /\ s.settled <= settled
               /\ s.status = "FINAL" => jobStatus = "FINAL" /\ s.settled = Stores
SnapshotsTruthful ==
  /\ \A r \in Readers : reads[r].step = "answer" => Truthful(Answer(r))
  /\ \A v \in Viewers :
       /\ cache[v] # NoData => Truthful(cache[v])
       /\ \A i \in 1..Len(wire[v]) : Truthful(wire[v][i])
       /\ \A i \in 1..Len(buffered[v]) : Truthful(buffered[v][i])

(* As long as none was lost, an open stream of a job that ended has the     *)
(* final state on its way to it: a notification, a window, a read that      *)
(* will see it, or a refresh of the LISTEN connection, whenever the stream  *)
(* was opened and whatever connection dropped ("a change in between isn't   *)
(* missed", job-events.routes.ts:41; job-event-hub.ts:50).                  *)
SeesFinal(r) == \/ reads[r].step = "job"
                \/ reads[r].step \in {"counts", "answer"} /\ reads[r].status = "FINAL"
FinalOnItsWay(v) ==
  \/ unsent > 0 \/ notices > 0 \/ conn # "up" \/ window
  \/ \E l \in Loads : SeesFinal(LoadOf(l))
  \/ handler[v] # "open" /\ (SeesFinal(FirstOf(v)) \/ EndsStream(buffered[v]))
NothingMissed ==
  ~lost /\ jobStatus = "FINAL" =>
    \A v \in Viewers : handler[v] # "none" => FinalOnItsWay(v)

(* The inductive invariant behind these two.                                *)

(* A job row read as final was final, and a final job is settled.           *)
FinalIsFinal ==
  /\ jobStatus = "FINAL" => settled = Stores
  /\ \A r \in Readers :
       reads[r].step \in {"counts", "answer"} /\ reads[r].status = "FINAL" => jobStatus = "FINAL"

IndInv == TypeOK /\ FinalIsFinal /\ SnapshotsTruthful /\ NothingMissed

-----------------------------------------------------------------------------
(* Liveness, under FairSpec, as long as no notification or load is lost.    *)

Shows(v, status) == cache[v].status = status

(* Once the job has ended, every page ends up showing it, for good: neither *)
(* dropped connections nor a slow poll answer that overwrites the final     *)
(* state leave a page behind (README, "Live progress").                     *)
PagesLearnTheEnd ==
  [](~lost) /\ <>(jobStatus = "FINAL") =>
    <>[](\A v \in Viewers : Shows(v, "FINAL"))

(* And no subscription outlives the job for long, not even one whose client *)
(* left before its handler could notice (job-events.routes.ts:79).          *)
StreamsAreFreed == [](~lost) => (jobStatus = "FINAL" ~> ~Watched)

-----------------------------------------------------------------------------
(* What the repository says of the streams and the code does not do.        *)

(* job-events.test.ts:252: "Counts only ever move forward", in the events   *)
(* of one stream.                                                           *)
CountsMoveForward ==
  \A v \in Viewers : \A i, k \in 1..Len(wire[v]) :
    i < k => wire[v][i].settled <= wire[v][k].settled

(* job-events.routes.ts:22: "done ... once the job reaches a final state;   *)
(* stream ends".  An open stream of a job that ended does end.              *)
EveryStreamEnds ==
  \A v \in Viewers : jobStatus = "FINAL" /\ handler[v] = "open" ~> handler[v] # "open"
=============================================================================
