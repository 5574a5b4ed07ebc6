-------------------------- MODULE JobEventsProofs --------------------------
(***************************************************************************)
(* Theorems about JobEvents, for any number of pages, loads, stores and    *)
(* faults: what pages are sent is true, and the end of a job is never      *)
(* missed as long as no notification or load is lost.                      *)
(***************************************************************************)
EXTENDS JobEvents, TLAPS

(* The readers are told apart.                                              *)
LEMMA ReadersDiffer ==
  /\ \A v \in Viewers : FirstOf(v) \in Readers /\ PollOf(v) \in Readers
  /\ \A l \in Loads : LoadOf(l) \in Readers /\ LoadOf(l) \in LoadReaders
  /\ \A v \in Viewers, l \in Loads : FirstOf(v) # LoadOf(l) /\ PollOf(v) # LoadOf(l)
  /\ \A v, u \in Viewers : FirstOf(v) # PollOf(u)
  /\ \A v, u \in Viewers : FirstOf(v) = FirstOf(u) => v = u
  /\ \A l, k \in Loads : LoadOf(l) = LoadOf(k) => l = k
  BY DEF Readers, LoadReaders, FirstOf, PollOf, LoadOf

LEMMA RecordTypes ==
  /\ Off \in Read /\ Begun \in Read
  /\ Off.step = "off" /\ Begun.step = "job"
  /\ NoData \notin Snapshot /\ NoData.status = "NONE"
  BY CountsAssumption DEF Off, Begun, Read, NoData, Snapshot

LEMMA AnswerType ==
  ASSUME TypeOK, NEW r \in Readers
  PROVE  Answer(r) \in Snapshot
  BY DEF TypeOK, Answer, Read, Snapshot

LEMMA LoadsForgotten ==
  ASSUME NEW updated \in [Readers -> Read], ForgetLoadsUnlessWatched(updated)
  PROVE  /\ reads' \in [Readers -> Read]
         /\ \A r \in Readers : reads'[r] = updated[r] \/ reads'[r] = Off
  BY RecordTypes DEF ForgetLoadsUnlessWatched

-----------------------------------------------------------------------------
LEMMA TypeInit == ASSUME Init PROVE TypeOK
<1>1. reads \in [Readers -> Read] /\ cache \in [Viewers -> Snapshot \cup {NoData}]
  BY RecordTypes DEF Init
<1>2. /\ buffered \in [Viewers -> Seq(Snapshot)] /\ wire \in [Viewers -> Seq(Snapshot)]
      /\ handler \in [Viewers -> Handlers] /\ source \in [Viewers -> Sources]
  BY DEF Init, Handlers, Sources
<1>3. /\ jobStatus \in {"RUNNING", "FINAL"} /\ settled \in 0..Stores /\ unsent \in Nat
      /\ conn \in {"down", "listening", "up"} /\ notices \in Nat
      /\ leaked \in Nat /\ retries \in 0..MaxRetries /\ faults \in 0..MaxFaults
  BY CountsAssumption DEF Init
<1>4. window \in BOOLEAN /\ lost \in BOOLEAN
  BY Zenon DEF Init
<1> QED
  BY <1>1, <1>2, <1>3, <1>4 DEF TypeOK

LEMMA TypeJob == ASSUME TypeOK, JobStep \/ NotifyAfterCommit \/ NotifyLost PROVE TypeOK'
<1> USE CountsAssumption DEF TypeOK, Notify, database, hub, streams, pages, bounds, Fault
<1>1. CASE RecordResult
  BY <1>1 DEF RecordResult
<1>2. CASE RecordRetry
  BY <1>2 DEF RecordRetry
<1>3. CASE ReapResult
  BY <1>3 DEF ReapResult
<1>4. CASE FinalizeFinishedJobs
  BY <1>4 DEF FinalizeFinishedJobs
<1>5. CASE FailRunningJobsSystemically
  BY <1>5 DEF FailRunningJobsSystemically
<1>6. CASE NotifyAfterCommit
  BY <1>6 DEF NotifyAfterCommit
<1>7. CASE NotifyLost
  BY <1>7 DEF NotifyLost
<1> QED
  BY <1>1, <1>2, <1>3, <1>4, <1>5, <1>6, <1>7 DEF JobStep

LEMMA TypeRead == ASSUME TypeOK, NEW r \in Readers, ReadSnapshot(r) PROVE TypeOK'
<1>1. PICK rd \in Read : reads' = [reads EXCEPT ![r] = rd]
  <2>1. reads[r] \in Read /\ jobStatus \in {"RUNNING", "FINAL"} /\ settled \in 0..Stores
    BY DEF TypeOK
  <2>2. CASE reads' = [reads EXCEPT ![r].step = "counts", ![r].status = jobStatus]
    <3>1. [reads[r] EXCEPT !.step = "counts", !.status = jobStatus] \in Read
      BY <2>1 DEF Read
    <3> QED
      BY <2>2, <3>1 DEF TypeOK
  <2>3. CASE reads' = [reads EXCEPT ![r].step = "answer", ![r].settled = settled]
    <3>1. [reads[r] EXCEPT !.step = "answer", !.settled = settled] \in Read
      BY <2>1 DEF Read
    <3> QED
      BY <2>3, <3>1 DEF TypeOK
  <2> QED
    BY <2>2, <2>3 DEF ReadSnapshot
<1>2. reads' \in [Readers -> Read]
  BY <1>1 DEF TypeOK
<1> QED
  BY <1>2 DEF ReadSnapshot, TypeOK, database, hub, streams, pages, bounds

LEMMA TypeDisconnect ==
  ASSUME TypeOK, NEW v \in Viewers, Disconnect(v)
  PROVE  wire' \in [Viewers -> Seq(Snapshot)] /\ handler' \in [Viewers -> Handlers]
<1>1. CASE handler[v] = "reading"
  BY <1>1 DEF Disconnect, TypeOK, Handlers
<1>2. CASE handler[v] = "open"
  BY <1>2 DEF Disconnect, TypeOK, Handlers
<1>3. CASE handler[v] \notin {"reading", "open"}
  BY <1>3 DEF Disconnect, TypeOK, Handlers
<1> QED
  BY <1>1, <1>2, <1>3

LEMMA TypeHub ==
  ASSUME TypeOK,
         \/ Listen \/ Listening \/ OnNotification \/ ConnectionLost
         \/ \E l \in Loads : Flush(l) \/ LoadFails(l)
  PROVE  TypeOK'
<1> USE CountsAssumption, RecordTypes, ReadersDiffer
    DEF TypeOK, Schedule, database, hub, streams, pages, bounds, Fault
<1>0. Watched \in BOOLEAN
  BY DEF Watched
<1>1. CASE Listen
  BY <1>1 DEF Listen
<1>2. CASE Listening
  BY <1>2, <1>0 DEF Listening
<1>3. CASE OnNotification
  BY <1>3, <1>0 DEF OnNotification
<1>4. CASE ConnectionLost
  BY <1>4 DEF ConnectionLost
<1>5. ASSUME NEW l \in Loads, Flush(l) PROVE TypeOK'
  BY <1>5 DEF Flush
<1>6. ASSUME NEW l \in Loads, LoadFails(l) PROVE TypeOK'
  BY <1>6 DEF LoadFails
<1> QED
  BY <1>1, <1>2, <1>3, <1>4, <1>5, <1>6

LEMMA TypeDeliver == ASSUME TypeOK, NEW l \in Loads, Deliver(l) PROVE TypeOK'
<1> DEFINE s == Answer(LoadOf(l))
<1>1. s \in Snapshot
  BY AnswerType, ReadersDiffer
<1>2. reads' \in [Readers -> Read]
  <2>1. [reads EXCEPT ![LoadOf(l)] = Off] \in [Readers -> Read]
    BY RecordTypes DEF TypeOK
  <2> QED
    BY <2>1, LoadsForgotten DEF Deliver
<1>3. /\ buffered' \in [Viewers -> Seq(Snapshot)]
      /\ wire' \in [Viewers -> Seq(Snapshot)]
  BY <1>1 DEF Deliver, TypeOK
<1>4. handler' \in [Viewers -> Handlers] /\ leaked' \in Nat
  BY <1>1 DEF Deliver, TypeOK, Handlers
<1> QED
  BY <1>2, <1>3, <1>4 DEF Deliver, TypeOK, database, hub, pages, bounds

LEMMA TypeStream ==
  ASSUME TypeOK, NEW v \in Viewers,
         OpenStream(v) \/ FirstSnapshotToNobody(v) \/ FirstSnapshotFails(v) \/ StreamLost(v)
  PROVE  TypeOK'
<1> USE CountsAssumption, RecordTypes, ReadersDiffer
    DEF TypeOK, database, hub, streams, pages, bounds, Fault, Handlers, Sources
<1>0. [reads EXCEPT ![FirstOf(v)] = Off] \in [Readers -> Read]
  OBVIOUS
<1>1. CASE OpenStream(v)
  BY <1>1 DEF OpenStream
<1>2. CASE FirstSnapshotToNobody(v)
  <2>1. reads' \in [Readers -> Read]
    BY <1>0, <1>2, LoadsForgotten DEF FirstSnapshotToNobody
  <2> QED
    BY <1>2, <2>1 DEF FirstSnapshotToNobody
<1>3. CASE FirstSnapshotFails(v)
  <2>1. reads' \in [Readers -> Read]
    BY <1>0, <1>3, LoadsForgotten DEF FirstSnapshotFails
  <2> QED
    BY <1>3, <2>1 DEF FirstSnapshotFails
<1>4. CASE StreamLost(v)
  <2>1. reads' \in [Readers -> Read]
    BY <1>4, LoadsForgotten DEF StreamLost
  <2>2. wire' \in [Viewers -> Seq(Snapshot)] /\ handler' \in [Viewers -> Handlers]
    BY <1>4, TypeDisconnect DEF StreamLost
  <2>3. source' \in [Viewers -> Sources]
    BY <1>4 DEF StreamLost
  <2>4. faults' \in 0..MaxFaults
    BY <1>4 DEF StreamLost
  <2> QED
    BY <1>4, <2>1, <2>2, <2>3, <2>4 DEF StreamLost
<1> QED
  BY <1>1, <1>2, <1>3, <1>4

(* The events a stream starts with.                                         *)
Initially(v) == <<Answer(FirstOf(v))>> \o buffered[v]

LEMMA InitialEvents ==
  ASSUME TypeOK, NEW v \in Viewers
  PROVE  /\ Initially(v) \in Seq(Snapshot)
         /\ Len(Initially(v)) = Len(buffered[v]) + 1
         /\ Initially(v)[1] = Answer(FirstOf(v))
         /\ \A i \in 1..Len(buffered[v]) : Initially(v)[i + 1] = buffered[v][i]
         /\ \A i \in 2..Len(Initially(v)) : Initially(v)[i] = buffered[v][i - 1]
<1>1. Answer(FirstOf(v)) \in Snapshot /\ buffered[v] \in Seq(Snapshot)
  BY AnswerType, ReadersDiffer DEF TypeOK
<1> QED
  BY <1>1 DEF Initially

LEMMA TypeFirst == ASSUME TypeOK, NEW v \in Viewers, FirstSnapshot(v) PROVE TypeOK'
<1>1. PICK n \in 1..Len(Initially(v)) :
        wire' = [wire EXCEPT ![v] = SubSeq(Initially(v), 1, n)]
  BY DEF FirstSnapshot, Initially
<1>2. wire' \in [Viewers -> Seq(Snapshot)]
  BY <1>1, InitialEvents DEF TypeOK
<1>3. reads' \in [Readers -> Read]
  <2>1. [reads EXCEPT ![FirstOf(v)] = Off] \in [Readers -> Read]
    BY RecordTypes DEF TypeOK
  <2> QED
    BY <2>1, LoadsForgotten DEF FirstSnapshot
<1>4. handler' \in [Viewers -> Handlers] /\ buffered' \in [Viewers -> Seq(Snapshot)]
  BY DEF FirstSnapshot, TypeOK, Handlers
<1> QED
  BY <1>2, <1>3, <1>4 DEF FirstSnapshot, TypeOK, database, hub, pages, bounds

LEMMA TypePage ==
  ASSUME TypeOK, NEW v \in Viewers, PageStep(v) \/ PollFails(v)
  PROVE  TypeOK'
<1> USE CountsAssumption, RecordTypes, ReadersDiffer
    DEF TypeOK, database, hub, streams, pages, bounds, Fault, Handlers, Sources
<1>0. [reads EXCEPT ![PollOf(v)] = Off] \in [Readers -> Read]
  OBVIOUS
<1>1. CASE Poll(v)
  BY <1>1 DEF Poll
<1>2. CASE PollFails(v)
  BY <1>2 DEF PollFails
<1>3. CASE PollAnswered(v)
  <2>1. reads' \in [Readers -> Read]
    BY <1>0, <1>3, LoadsForgotten DEF PollAnswered
  <2>2. Answer(PollOf(v)) \in Snapshot
    BY AnswerType
  <2>3. cache' \in [Viewers -> Snapshot \cup {NoData}]
    BY <2>2, <1>3 DEF PollAnswered
  <2>4. /\ source' \in [Viewers -> Sources]
        /\ handler' \in [Viewers -> Handlers]
        /\ wire' \in [Viewers -> Seq(Snapshot)]
    <3>1. CASE Running(Answer(PollOf(v)))
      BY <1>3, <3>1 DEF PollAnswered, OpenSource
    <3>2. CASE ~Running(Answer(PollOf(v)))
      BY <1>3, <3>2, TypeDisconnect DEF PollAnswered, CloseSource
    <3> QED
      BY <3>1, <3>2
  <2> QED
    BY <1>3, <2>1, <2>3, <2>4 DEF PollAnswered
<1>4. CASE Receive(v)
  <2>1. reads' \in [Readers -> Read]
    BY <1>4, LoadsForgotten DEF Receive
  <2>2. wire[v] \in Seq(Snapshot) /\ wire[v] # <<>>
    BY <1>4 DEF Receive
  <2>3. Head(wire[v]) \in Snapshot /\ Tail(wire[v]) \in Seq(Snapshot)
    BY <2>2
  <2>4. cache' \in [Viewers -> Snapshot \cup {NoData}]
    BY <2>3, <1>4 DEF Receive
  <2>5. /\ source' \in [Viewers -> Sources]
        /\ handler' \in [Viewers -> Handlers]
        /\ wire' \in [Viewers -> Seq(Snapshot)]
    <3>1. CASE Running(Head(wire[v]))
      BY <1>4, <2>3, <3>1 DEF Receive
    <3>2. CASE ~Running(Head(wire[v]))
      BY <1>4, <3>2, TypeDisconnect DEF Receive, CloseSource
    <3> QED
      BY <3>1, <3>2
  <2> QED
    BY <1>4, <2>1, <2>4, <2>5 DEF Receive
<1> QED
  BY <1>1, <1>2, <1>3, <1>4 DEF PageStep

LEMMA TypeRestart == ASSUME TypeOK, Restart PROVE TypeOK'
<1>1. reads' \in [Readers -> Read]
  BY RecordTypes DEF Restart
<1>2. /\ handler' \in [Viewers -> Handlers] /\ buffered' \in [Viewers -> Seq(Snapshot)]
      /\ wire' \in [Viewers -> Seq(Snapshot)]
  BY DEF Restart, Handlers
<1>3. source' \in [Viewers -> Sources]
  BY DEF Restart, TypeOK, Sources
<1>4. /\ jobStatus' \in {"RUNNING", "FINAL"} /\ settled' \in 0..Stores /\ unsent' \in Nat
      /\ conn' \in {"down", "listening", "up"} /\ notices' \in Nat
      /\ leaked' \in Nat /\ retries' \in 0..MaxRetries /\ faults' \in 0..MaxFaults
  BY CountsAssumption DEF Restart, TypeOK, database, Fault
<1>5. cache' \in [Viewers -> Snapshot \cup {NoData}]
  BY DEF Restart, TypeOK
<1>6. window' \in BOOLEAN /\ lost' \in BOOLEAN
  BY Zenon DEF Restart, TypeOK
<1> QED
  BY <1>1, <1>2, <1>3, <1>4, <1>5, <1>6 DEF TypeOK

LEMMA TypeNext == TypeOK /\ [Next]_vars => TypeOK'
<1> SUFFICES ASSUME TypeOK, [Next]_vars PROVE TypeOK'
  OBVIOUS
<1>1. CASE UNCHANGED vars
  BY <1>1 DEF TypeOK, vars
<1>2. CASE JobStep
  BY <1>2, TypeJob
<1>3. CASE SystemStep
  BY <1>3, TypeJob, TypeRead, TypeHub, TypeDeliver, TypeStream, TypeFirst, TypePage
  DEF SystemStep, HubStep, StreamStep
<1>4. CASE Failure
  BY <1>4, TypeJob, TypeHub, TypeStream, TypePage, TypeRestart DEF Failure
<1> QED
  BY <1>1, <1>2, <1>3, <1>4 DEF Next

(* Every reachable state is well typed.                                     *)
THEOREM TypeCorrect == Spec => []TypeOK
  BY TypeInit, TypeNext, PTL DEF Spec

-----------------------------------------------------------------------------
(* What was true of the job stays true: it only moves forward.              *)
LEMMA JobForward ==
  ASSUME TypeOK, FinalIsFinal, [Next]_vars
  PROVE  /\ settled <= settled'
         /\ jobStatus = "FINAL" => jobStatus' = "FINAL"
         /\ jobStatus' = "FINAL" => settled' = Stores
<1> USE CountsAssumption DEF TypeOK, FinalIsFinal, database
<1>1. CASE JobStep
  BY <1>1 DEF JobStep, RecordResult, RecordRetry, ReapResult, FinalizeFinishedJobs,
              FailRunningJobsSystemically
<1>2. CASE NotifyAfterCommit \/ NotifyLost
  BY <1>2 DEF NotifyAfterCommit, NotifyLost
<1>3. ASSUME NEW r \in Readers, ReadSnapshot(r) PROVE UNCHANGED database
  BY <1>3 DEF ReadSnapshot
<1>4. ASSUME HubStep \/ ConnectionLost \/ Restart \/ \E l \in Loads : LoadFails(l)
      PROVE  UNCHANGED database
  BY <1>4 DEF HubStep, Listen, Listening, OnNotification, Flush, Deliver, LoadFails,
              ConnectionLost, Restart
<1>5. ASSUME NEW v \in Viewers,
             StreamStep(v) \/ PageStep(v) \/ StreamLost(v) \/ FirstSnapshotFails(v) \/ PollFails(v)
      PROVE  UNCHANGED database
  BY <1>5 DEF StreamStep, OpenStream, FirstSnapshot, FirstSnapshotToNobody, PageStep, Poll,
              PollAnswered, Receive, StreamLost, FirstSnapshotFails, PollFails
<1>6. CASE UNCHANGED vars
  BY <1>6 DEF vars
<1>7. CASE UNCHANGED database
  BY <1>7
<1> QED
  BY <1>1, <1>2, <1>3, <1>4, <1>5, <1>6, <1>7 DEF Next, SystemStep, Failure

(* Reads are begun, answered or dropped; only ReadSnapshot fills one in.    *)
LEMMA ReadsChange ==
  ASSUME TypeOK, [Next]_vars, NEW r \in Readers
  PROVE  \/ reads'[r] = reads[r] \/ reads'[r] = Off \/ reads'[r] = Begun
         \/ ReadSnapshot(r)
<1> USE DEF TypeOK
<1>0. ASSUME NEW f \in Readers, ForgetLoadsUnlessWatched([reads EXCEPT ![f] = Off])
      PROVE  reads'[r] = reads[r] \/ reads'[r] = Off
  BY <1>0 DEF ForgetLoadsUnlessWatched
<1>1. CASE JobStep \/ NotifyAfterCommit \/ NotifyLost
  BY <1>1 DEF JobStep, RecordResult, RecordRetry, ReapResult, FinalizeFinishedJobs,
              FailRunningJobsSystemically, NotifyAfterCommit, NotifyLost
<1>2. ASSUME NEW k \in Readers, ReadSnapshot(k)
      PROVE  reads'[r] = reads[r] \/ ReadSnapshot(r)
  <2>1. CASE k = r
    BY <1>2, <2>1
  <2>2. CASE k # r
    BY <1>2, <2>2 DEF ReadSnapshot
  <2> QED
    BY <2>1, <2>2
<1>3. CASE Listen \/ Listening \/ OnNotification \/ ConnectionLost \/ Restart
  BY <1>3 DEF Listen, Listening, OnNotification, ConnectionLost, Restart
<1>4. ASSUME NEW l \in Loads, Flush(l) \/ LoadFails(l)
      PROVE  reads'[r] = reads[r] \/ reads'[r] = Off \/ reads'[r] = Begun
  BY <1>4, ReadersDiffer DEF Flush, LoadFails
<1>5. ASSUME NEW l \in Loads, Deliver(l) PROVE reads'[r] = reads[r] \/ reads'[r] = Off
  BY <1>5, <1>0, ReadersDiffer DEF Deliver
<1>6. ASSUME NEW v \in Viewers, OpenStream(v) \/ Poll(v) \/ PollFails(v)
      PROVE  reads'[r] = reads[r] \/ reads'[r] = Off \/ reads'[r] = Begun
  BY <1>6, ReadersDiffer DEF OpenStream, Poll, PollFails
<1>7. ASSUME NEW v \in Viewers,
             \/ FirstSnapshot(v) \/ FirstSnapshotToNobody(v) \/ FirstSnapshotFails(v)
             \/ PollAnswered(v)
      PROVE  reads'[r] = reads[r] \/ reads'[r] = Off
  BY <1>7, <1>0, ReadersDiffer
  DEF FirstSnapshot, FirstSnapshotToNobody, FirstSnapshotFails, PollAnswered
<1>8. ASSUME NEW v \in Viewers, StreamLost(v) \/ Receive(v)
      PROVE  reads'[r] = reads[r] \/ reads'[r] = Off
  BY <1>8 DEF StreamLost, Receive, ForgetLoadsUnlessWatched
<1>9. CASE UNCHANGED vars
  BY <1>9 DEF vars
<1> QED
  BY <1>1, <1>2, <1>3, <1>4, <1>5, <1>6, <1>7, <1>8, <1>9
  DEF Next, SystemStep, HubStep, StreamStep, PageStep, Failure

-----------------------------------------------------------------------------
(* Truthful, of a job with this status and this many settled stores.        *)
Holds(s, status, n) == /\ s.settled <= n
                       /\ s.status = "FINAL" => status = "FINAL" /\ s.settled = Stores
AllHold(q, status, n) == \A i \in 1..Len(q) : Holds(q[i], status, n)

LEMMA HoldsLater ==
  ASSUME NEW status, NEW n \in Nat, NEW later, NEW m \in Nat,
         n <= m, status = "FINAL" => later = "FINAL"
  PROVE  /\ \A s \in Snapshot : Holds(s, status, n) => Holds(s, later, m)
         /\ \A q \in Seq(Snapshot) : AllHold(q, status, n) => AllHold(q, later, m)
<1>1. ASSUME NEW s \in Snapshot, Holds(s, status, n) PROVE Holds(s, later, m)
  BY <1>1, CountsAssumption DEF Holds, Snapshot
<1>2. ASSUME NEW q \in Seq(Snapshot), AllHold(q, status, n) PROVE AllHold(q, later, m)
  BY <1>1, <1>2 DEF AllHold
<1> QED
  BY <1>1, <1>2

LEMMA HoldsInSequences ==
  ASSUME NEW q \in Seq(Snapshot), NEW s \in Snapshot, NEW status, NEW n,
         AllHold(q, status, n), Holds(s, status, n)
  PROVE  /\ AllHold(Append(q, s), status, n)
         /\ AllHold(<<s>> \o q, status, n)
         /\ \A k \in 1..Len(q) : AllHold(SubSeq(q, 1, k), status, n)
<1> USE DEF AllHold
<1>1. AllHold(Append(q, s), status, n)
  OBVIOUS
<1>2. AllHold(<<s>> \o q, status, n)
  <2>1. \A i \in 1..Len(<<s>> \o q) :
          (<<s>> \o q)[i] = IF i = 1 THEN s ELSE q[i - 1]
    OBVIOUS
  <2>2. \A i \in 1..Len(<<s>> \o q) : i # 1 => i - 1 \in 1..Len(q)
    OBVIOUS
  <2> QED
    BY <2>1, <2>2
<1>3. ASSUME NEW k \in 1..Len(q) PROVE AllHold(SubSeq(q, 1, k), status, n)
  <2>1. \A i \in 1..Len(SubSeq(q, 1, k)) : i \in 1..Len(q) /\ SubSeq(q, 1, k)[i] = q[i]
    OBVIOUS
  <2> QED
    BY <2>1
<1> QED
  BY <1>1, <1>2, <1>3

LEMMA HoldsInTail ==
  ASSUME NEW q \in Seq(Snapshot), q # <<>>, NEW status, NEW n, AllHold(q, status, n)
  PROVE  Holds(Head(q), status, n) /\ AllHold(Tail(q), status, n)
<1>1. 1 \in 1..Len(q) /\ Head(q) = q[1]
  OBVIOUS
<1>2. \A i \in 1..Len(Tail(q)) : Tail(q)[i] = q[i + 1] /\ i + 1 \in 1..Len(q)
  OBVIOUS
<1> QED
  BY <1>1, <1>2 DEF AllHold

(* SnapshotsTruthful in these terms.                                        *)
ReadsHold(status, n) ==
  \A r \in Readers : reads[r].step = "answer" => Holds(Answer(r), status, n)
PagesHold(status, n) ==
  \A v \in Viewers : /\ cache[v] # NoData => Holds(cache[v], status, n)
                     /\ AllHold(wire[v], status, n)
                     /\ AllHold(buffered[v], status, n)

LEMMA TruthfulHolds ==
  SnapshotsTruthful <=> ReadsHold(jobStatus, settled) /\ PagesHold(jobStatus, settled)
  BY DEF SnapshotsTruthful, Truthful, ReadsHold, PagesHold, AllHold, Holds

(* What was truthful still is after the job has moved on.                   *)
LEMMA StillTruthful ==
  ASSUME TypeOK, FinalIsFinal, SnapshotsTruthful, [Next]_vars
  PROVE  ReadsHold(jobStatus', settled') /\ PagesHold(jobStatus', settled')
<1>1. /\ settled \in Nat /\ settled' \in Nat /\ settled <= settled'
      /\ jobStatus = "FINAL" => jobStatus' = "FINAL"
  BY TypeNext, JobForward, CountsAssumption DEF TypeOK
<1>2. /\ \A s \in Snapshot : Holds(s, jobStatus, settled) => Holds(s, jobStatus', settled')
      /\ \A q \in Seq(Snapshot) :
           AllHold(q, jobStatus, settled) => AllHold(q, jobStatus', settled')
  BY <1>1, HoldsLater
<1>3. ReadsHold(jobStatus', settled')
  BY <1>2, TruthfulHolds, AnswerType DEF ReadsHold
<1>4. PagesHold(jobStatus', settled')
  BY <1>2, TruthfulHolds DEF PagesHold, TypeOK
<1> QED
  BY <1>3, <1>4

(* No read ends with what is not true.                                      *)
LEMMA ReadsTruthful ==
  ASSUME TypeOK, FinalIsFinal, SnapshotsTruthful, [Next]_vars
  PROVE  FinalIsFinal' /\ ReadsHold(jobStatus, settled)'
<1>1. /\ jobStatus = "FINAL" => jobStatus' = "FINAL"
      /\ jobStatus' = "FINAL" => settled' = Stores
  BY JobForward
<1> SUFFICES ASSUME NEW r \in Readers
             PROVE  /\ reads'[r].step \in {"counts", "answer"} /\ reads'[r].status = "FINAL"
                         => jobStatus' = "FINAL"
                    /\ reads'[r].step = "answer" => Holds(Answer(r)', jobStatus', settled')
  BY <1>1 DEF FinalIsFinal, ReadsHold
<1>2. CASE reads'[r] = reads[r]
  <2>1. Answer(r)' = Answer(r)
    BY <1>2 DEF Answer
  <2> QED
    BY <1>1, <1>2, <2>1, StillTruthful DEF FinalIsFinal, ReadsHold
<1>3. CASE reads'[r] = Off \/ reads'[r] = Begun
  BY <1>3, RecordTypes
<1>4. CASE ReadSnapshot(r)
  <2>1. reads[r] \in Read /\ settled' = settled /\ jobStatus' = jobStatus
    BY <1>4 DEF TypeOK, ReadSnapshot, database
  <2>2. CASE reads[r].step = "job"
    <3>1. reads'[r].step = "counts" /\ reads'[r].status = jobStatus
      BY <1>4, <2>1, <2>2 DEF ReadSnapshot, TypeOK, Read
    <3> QED
      BY <2>1, <3>1
  <2>3. CASE reads[r].step = "counts"
    <3>1. /\ reads'[r].step = "answer" /\ reads'[r].settled = settled
          /\ reads'[r].status = reads[r].status
      BY <1>4, <2>1, <2>3 DEF ReadSnapshot, TypeOK, Read
    <3>2. settled <= settled
      BY CountsAssumption DEF TypeOK
    <3>3. Answer(r)' = [status |-> reads[r].status, settled |-> settled]
      BY <3>1 DEF Answer
    <3>4. reads[r].status = "FINAL" => jobStatus = "FINAL" /\ settled = Stores
      BY <2>3 DEF FinalIsFinal
    <3> QED
      BY <2>1, <3>1, <3>2, <3>3, <3>4 DEF Holds
  <2> QED
    BY <1>4, <2>2, <2>3 DEF ReadSnapshot
<1> QED
  BY <1>2, <1>3, <1>4, ReadsChange
(* The first snapshot of a stream and what was buffered meanwhile.          *)
LEMMA InitialTruthful ==
  ASSUME TypeOK, NEW v \in Viewers, NEW status, NEW n,
         reads[FirstOf(v)].step = "answer", ReadsHold(status, n), PagesHold(status, n)
  PROVE  /\ AllHold(Initially(v), status, n)
         /\ \A k \in 1..Len(Initially(v)) : AllHold(SubSeq(Initially(v), 1, k), status, n)
<1>1. Answer(FirstOf(v)) \in Snapshot /\ buffered[v] \in Seq(Snapshot)
  BY AnswerType, ReadersDiffer DEF TypeOK
<1>2. Holds(Answer(FirstOf(v)), status, n) /\ AllHold(buffered[v], status, n)
  BY ReadersDiffer DEF ReadsHold, PagesHold
<1>3. AllHold(Initially(v), status, n)
  BY <1>1, <1>2, HoldsInSequences DEF Initially
<1> QED
  BY <1>1, <1>2, <1>3, HoldsInSequences, InitialEvents

LEMMA DisconnectedWire ==
  ASSUME TypeOK, NEW v \in Viewers, Disconnect(v), NEW u \in Viewers
  PROVE  wire'[u] = wire[u] \/ wire'[u] = <<>>
  BY DEF TypeOK, Disconnect

(* No page is sent, or shows, what is not true.                             *)
LEMMA PagesTruthful ==
  ASSUME TypeOK, FinalIsFinal, SnapshotsTruthful, [Next]_vars
  PROVE  PagesHold(jobStatus, settled)'
<1>1. ReadsHold(jobStatus', settled') /\ PagesHold(jobStatus', settled')
  BY StillTruthful
<1> SUFFICES ASSUME NEW u \in Viewers
             PROVE  /\ cache'[u] # NoData => Holds(cache'[u], jobStatus', settled')
                    /\ AllHold(wire'[u], jobStatus', settled')
                    /\ AllHold(buffered'[u], jobStatus', settled')
  BY DEF PagesHold
<1> DEFINE Kept == /\ cache'[u] = cache[u]
                   /\ wire'[u] = wire[u] \/ wire'[u] = <<>>
                   /\ buffered'[u] = buffered[u] \/ buffered'[u] = <<>>
           Good == /\ cache'[u] # NoData => Holds(cache'[u], jobStatus', settled')
                   /\ AllHold(wire'[u], jobStatus', settled')
                   /\ AllHold(buffered'[u], jobStatus', settled')
<1>2. AllHold(<<>>, jobStatus', settled')
  BY DEF AllHold
<1>3. CASE Kept
  BY <1>1, <1>2, <1>3 DEF PagesHold
<1>4. CASE JobStep \/ NotifyAfterCommit \/ NotifyLost
  <2>1. UNCHANGED <<cache, wire, buffered>>
    BY <1>4 DEF JobStep, RecordResult, RecordRetry, ReapResult, FinalizeFinishedJobs,
                FailRunningJobsSystemically, NotifyAfterCommit, NotifyLost, streams, pages
  <2> QED
    BY <2>1, <1>3
<1>5. CASE Listen \/ Listening \/ OnNotification \/ ConnectionLost \/ Restart
  <2>1. CASE Restart
    BY <2>1, <1>3 DEF Restart
  <2>2. CASE ~Restart
    BY <1>5, <2>2, <1>3 DEF Listen, Listening, OnNotification, ConnectionLost, streams, pages
  <2> QED
    BY <2>1, <2>2
<1>6. ASSUME NEW l \in Loads, Flush(l) \/ LoadFails(l) PROVE Good
  BY <1>6, <1>3 DEF Flush, LoadFails, streams, pages
<1>7. ASSUME NEW r \in Readers, ReadSnapshot(r) PROVE Good
  BY <1>7, <1>3 DEF ReadSnapshot, streams, pages
<1>8. ASSUME NEW l \in Loads, Deliver(l) PROVE Good
  <2> DEFINE s == Answer(LoadOf(l))
  <2>1. s \in Snapshot /\ Holds(s, jobStatus', settled')
    BY <1>1, <1>8, AnswerType, ReadersDiffer DEF Deliver, ReadsHold
  <2>2. /\ wire'[u] = wire[u] \/ wire'[u] = Append(wire[u], s)
        /\ buffered'[u] = buffered[u] \/ buffered'[u] = Append(buffered[u], s)
        /\ cache'[u] = cache[u]
    BY <1>8 DEF Deliver, pages
  <2>3. wire[u] \in Seq(Snapshot) /\ buffered[u] \in Seq(Snapshot)
    BY DEF TypeOK
  <2>4. /\ AllHold(wire[u], jobStatus', settled') /\ AllHold(buffered[u], jobStatus', settled')
        /\ cache[u] # NoData => Holds(cache[u], jobStatus', settled')
    BY <1>1 DEF PagesHold
  <2>5. /\ AllHold(Append(wire[u], s), jobStatus', settled')
        /\ AllHold(Append(buffered[u], s), jobStatus', settled')
    BY <2>1, <2>3, <2>4, HoldsInSequences
  <2> QED
    BY <2>2, <2>4, <2>5
<1>9. ASSUME NEW v \in Viewers, FirstSnapshot(v) PROVE Good
  <2>1. PICK n \in 1..Len(Initially(v)) :
          wire' = [wire EXCEPT ![v] = SubSeq(Initially(v), 1, n)]
    BY <1>9 DEF FirstSnapshot, Initially
  <2>2. AllHold(SubSeq(Initially(v), 1, n), jobStatus', settled')
    BY <1>1, <1>9, InitialTruthful DEF FirstSnapshot
  <2>3. /\ cache'[u] = cache[u]
        /\ buffered'[u] = buffered[u] \/ buffered'[u] = <<>>
    BY <1>9 DEF FirstSnapshot, pages, TypeOK
  <2>4. wire'[u] = wire[u] \/ wire'[u] = SubSeq(Initially(v), 1, n)
    BY <2>1 DEF TypeOK
  <2> QED
    BY <1>1, <1>2, <2>2, <2>3, <2>4 DEF PagesHold
<1>10. ASSUME NEW v \in Viewers,
              \/ OpenStream(v) \/ FirstSnapshotToNobody(v) \/ FirstSnapshotFails(v)
              \/ StreamLost(v) \/ Poll(v) \/ PollFails(v)
       PROVE  Good
  <2>1. /\ cache'[u] = cache[u]
        /\ buffered'[u] = buffered[u] \/ buffered'[u] = <<>>
    BY <1>10 DEF OpenStream, FirstSnapshotToNobody, FirstSnapshotFails, StreamLost, Poll,
                 PollFails, pages, streams, TypeOK
  <2>2. wire'[u] = wire[u] \/ wire'[u] = <<>>
    BY <1>10, DisconnectedWire
    DEF OpenStream, FirstSnapshotToNobody, FirstSnapshotFails, StreamLost, Poll, PollFails,
        pages, streams
  <2> QED
    BY <2>1, <2>2, <1>3
<1>11. ASSUME NEW v \in Viewers, PollAnswered(v) PROVE Good
  <2> DEFINE s == Answer(PollOf(v))
  <2>1. Holds(s, jobStatus', settled')
    BY <1>1, <1>11, ReadersDiffer DEF PollAnswered, ReadsHold
  <2>2. cache'[u] = cache[u] \/ cache'[u] = s
    BY <1>11 DEF PollAnswered, TypeOK
  <2>3. wire'[u] = wire[u] \/ wire'[u] = <<>>
    BY <1>11, DisconnectedWire DEF PollAnswered, OpenSource, CloseSource
  <2>4. buffered'[u] = buffered[u]
    BY <1>11 DEF PollAnswered
  <2> QED
    BY <1>1, <1>2, <2>1, <2>2, <2>3, <2>4 DEF PagesHold
<1>12. ASSUME NEW v \in Viewers, Receive(v) PROVE Good
  <2>1. wire[v] \in Seq(Snapshot) /\ wire[v] # <<>> /\ AllHold(wire[v], jobStatus', settled')
    BY <1>1, <1>12 DEF Receive, TypeOK, PagesHold
  <2>2. /\ Holds(Head(wire[v]), jobStatus', settled')
        /\ AllHold(Tail(wire[v]), jobStatus', settled')
    BY <2>1, HoldsInTail
  <2>3. cache'[u] = cache[u] \/ cache'[u] = Head(wire[v])
    BY <1>12 DEF Receive, TypeOK
  <2>4. wire'[u] = wire[u] \/ wire'[u] = <<>> \/ wire'[u] = Tail(wire[v])
    <3>1. CASE Running(Head(wire[v]))
      BY <1>12, <3>1 DEF Receive, TypeOK
    <3>2. CASE ~Running(Head(wire[v]))
      BY <1>12, <3>2, DisconnectedWire DEF Receive, CloseSource
    <3> QED
      BY <3>1, <3>2
  <2>5. buffered'[u] = buffered[u]
    BY <1>12 DEF Receive
  <2> QED
    BY <1>1, <1>2, <2>2, <2>3, <2>4, <2>5 DEF PagesHold
<1>13. CASE UNCHANGED vars
  BY <1>13, <1>3 DEF vars
<1> QED
  BY <1>4, <1>5, <1>6, <1>7, <1>8, <1>9, <1>10, <1>11, <1>12, <1>13
  DEF Next, SystemStep, HubStep, StreamStep, PageStep, Failure

LEMMA TruthNext ==
  ASSUME TypeOK, FinalIsFinal, SnapshotsTruthful, [Next]_vars
  PROVE  FinalIsFinal' /\ SnapshotsTruthful'
<1>1. (ReadsHold(jobStatus, settled) /\ PagesHold(jobStatus, settled))' => SnapshotsTruthful'
  BY TruthfulHolds, PTL
<1> QED
  BY <1>1, ReadsTruthful, PagesTruthful
-----------------------------------------------------------------------------
(* While somebody is subscribed no load is forgotten.                       *)
LEMMA WatchedKeepsLoads ==
  ASSUME NEW updated, ForgetLoadsUnlessWatched(updated),
         NEW v \in Viewers, handler'[v] # "none"
  PROVE  \A r \in Readers : reads'[r] = updated[r]
  BY DEF ForgetLoadsUnlessWatched, Watched

(* A final state on its way to v stays so while nothing on its way moves.   *)
LEMMA Carried ==
  ASSUME NEW v \in Viewers, FinalOnItsWay(v),
         UNCHANGED <<unsent, hub>>,
         \A l \in Loads : reads'[LoadOf(l)] = reads[LoadOf(l)],
         reads'[FirstOf(v)] = reads[FirstOf(v)],
         buffered'[v] = buffered[v],
         handler[v] # "open" => handler'[v] # "open"
  PROVE  FinalOnItsWay(v)'
  BY DEF FinalOnItsWay, SeesFinal, EndsStream, hub

(* The end of the job has just been written, or was before.                 *)
LEMMA MissedJob ==
  ASSUME TypeOK, NothingMissed, JobStep \/ NotifyAfterCommit \/ NotifyLost
  PROVE  NothingMissed'
<1> USE DEF TypeOK
<1>1. CASE RecordResult \/ RecordRetry \/ ReapResult
  <2>1. jobStatus' # "FINAL"
    BY <1>1 DEF RecordResult, RecordRetry, ReapResult, database
  <2> QED
    BY <2>1 DEF NothingMissed
<1>2. CASE FinalizeFinishedJobs
  <2>1. unsent' > 0
    BY <1>2 DEF FinalizeFinishedJobs
  <2> QED
    BY <2>1 DEF NothingMissed, FinalOnItsWay
<1>3. CASE FailRunningJobsSystemically \/ NotifyAfterCommit
  <2>1. conn' # "up" \/ notices' > 0
    BY <1>3 DEF FailRunningJobsSystemically, NotifyAfterCommit, Notify
  <2> QED
    BY <2>1 DEF NothingMissed, FinalOnItsWay
<1>4. CASE NotifyLost
  BY <1>4 DEF NotifyLost, NothingMissed
<1> QED
  BY <1>1, <1>2, <1>3, <1>4 DEF JobStep

LEMMA MissedRead ==
  ASSUME TypeOK, NothingMissed, NEW r \in Readers, ReadSnapshot(r)
  PROVE  NothingMissed'
<1>1. /\ UNCHANGED <<jobStatus, unsent, hub, handler, buffered, lost>>
  BY DEF ReadSnapshot, database, streams, bounds
<1>2. ASSUME jobStatus = "FINAL", NEW k \in Readers, SeesFinal(k) PROVE SeesFinal(k)'
  <2>1. CASE k # r
    BY <1>2, <2>1 DEF ReadSnapshot, SeesFinal, TypeOK
  <2>2. CASE k = r
    BY <1>2, <2>2 DEF ReadSnapshot, SeesFinal, TypeOK, Read
  <2> QED
    BY <2>1, <2>2
<1>3. ASSUME jobStatus = "FINAL", NEW v \in Viewers, FinalOnItsWay(v) PROVE FinalOnItsWay(v)'
  BY <1>1, <1>2, <1>3, ReadersDiffer DEF FinalOnItsWay, EndsStream, hub
<1> QED
  BY <1>1, <1>3 DEF NothingMissed

LEMMA MissedHub ==
  ASSUME TypeOK, NothingMissed, Listen \/ Listening \/ OnNotification \/ ConnectionLost
  PROVE  NothingMissed'
<1>1. CASE Listen \/ ConnectionLost
  <2>1. conn' # "up"
    BY <1>1 DEF Listen, ConnectionLost
  <2> QED
    BY <2>1 DEF NothingMissed, FinalOnItsWay
<1>2. CASE Listening \/ OnNotification
  <2>1. handler' = handler /\ Schedule
    BY <1>2 DEF Listening, OnNotification, streams
  <2>2. ASSUME NEW v \in Viewers, handler'[v] # "none" PROVE window'
    BY <2>1, <2>2 DEF Schedule, Watched
  <2> QED
    BY <2>2 DEF NothingMissed, FinalOnItsWay
<1> QED
  BY <1>1, <1>2

(* The window turns into a read that is still to see the job.               *)
LEMMA MissedFlush ==
  ASSUME TypeOK, NothingMissed, NEW l \in Loads, Flush(l)
  PROVE  NothingMissed'
<1>1. handler' = handler
  BY DEF Flush, streams
<1>2. ASSUME NEW v \in Viewers, handler'[v] # "none" PROVE SeesFinal(LoadOf(l))'
  <2>1. Watched
    BY <1>1, <1>2 DEF Watched
  <2>2. reads' = [reads EXCEPT ![LoadOf(l)] = Begun]
    BY <2>1 DEF Flush
  <2> QED
    BY <2>2, ReadersDiffer, RecordTypes DEF TypeOK, SeesFinal
<1> QED
  BY <1>2 DEF NothingMissed, FinalOnItsWay

(* A final snapshot is buffered, or ends the stream; another one leaves     *)
(* whatever else was on its way.                                            *)
LEMMA MissedDeliver ==
  ASSUME TypeOK, NothingMissed, NEW l \in Loads, Deliver(l)
  PROVE  NothingMissed'
<1> DEFINE s == Answer(LoadOf(l))
<1>1. UNCHANGED <<jobStatus, unsent, hub, lost>>
  BY DEF Deliver, database, bounds
<1> SUFFICES ASSUME ~lost, jobStatus = "FINAL", NEW v \in Viewers, handler'[v] # "none"
             PROVE  FinalOnItsWay(v)'
  BY <1>1 DEF NothingMissed
<1>2. handler'[v] = handler[v] /\ (s.status = "FINAL" => handler[v] # "open")
  BY DEF Deliver
<1>3. /\ buffered[v] \in Seq(Snapshot) /\ s \in Snapshot
      /\ handler[v] \in Handlers
  BY AnswerType, ReadersDiffer DEF TypeOK
<1>4. CASE s.status = "FINAL"
  <2>1. handler[v] \in {"reading", "abandoned"}
    BY <1>2, <1>3, <1>4 DEF Handlers
  <2>2. buffered'[v] = Append(buffered[v], s)
    BY <2>1 DEF Deliver
  <2>3. /\ Len(Append(buffered[v], s)) \in 1..Len(Append(buffered[v], s))
        /\ Append(buffered[v], s)[Len(Append(buffered[v], s))] = s
    BY <1>3
  <2>4. EndsStream(buffered'[v])
    BY <2>2, <2>3, <1>4 DEF EndsStream
  <2>5. handler'[v] # "open"
    BY <2>1, <1>2
  <2> QED
    BY <2>4, <2>5 DEF FinalOnItsWay, EndsStream
<1>5. CASE s.status # "FINAL"
  <2>1. FinalOnItsWay(v)
    BY <1>2 DEF NothingMissed
  <2>2. ~SeesFinal(LoadOf(l))
    BY <1>5 DEF Deliver, SeesFinal, Answer
  <2>3. \A r \in Readers : reads'[r] = [reads EXCEPT ![LoadOf(l)] = Off][r]
    BY WatchedKeepsLoads DEF Deliver
  <2>4. \A r \in Readers : r # LoadOf(l) => (SeesFinal(r) => SeesFinal(r)')
    BY <2>3 DEF SeesFinal, TypeOK
  <2>5. EndsStream(buffered[v]) => EndsStream(buffered'[v])
    <3>1. buffered'[v] = buffered[v] \/ buffered'[v] = Append(buffered[v], s)
      BY DEF Deliver
    <3>2. \A i \in 1..Len(buffered[v]) :
            /\ i \in 1..Len(Append(buffered[v], s))
            /\ Append(buffered[v], s)[i] = buffered[v][i]
      BY <1>3
    <3> QED
      BY <3>1, <3>2 DEF EndsStream
  <2>6. EndsStream(buffered[v])' <=> EndsStream(buffered'[v])
    BY DEF EndsStream
  <2>7. ASSUME NEW k \in Loads, SeesFinal(LoadOf(k))
        PROVE  \E j \in Loads : SeesFinal(LoadOf(j))'
    BY <2>2, <2>4, <2>7, ReadersDiffer
  <2>8. SeesFinal(FirstOf(v)) => SeesFinal(FirstOf(v))'
    BY <2>4, ReadersDiffer
  <2> QED
    BY <1>1, <1>2, <2>1, <2>5, <2>6, <2>7, <2>8 DEF FinalOnItsWay, hub
<1> QED
  BY <1>4, <1>5
(* The actions that change one stream: the others carry on.                 *)
LEMMA MissedStream ==
  ASSUME TypeOK, NothingMissed, NEW u \in Viewers,
         OpenStream(u) \/ FirstSnapshot(u) \/ FirstSnapshotToNobody(u) \/ FirstSnapshotFails(u)
  PROVE  NothingMissed'
<1>1. /\ UNCHANGED <<jobStatus, unsent, hub, lost>>
      /\ \A v \in Viewers : v # u => handler'[v] = handler[v] /\ buffered'[v] = buffered[v]
  BY DEF OpenStream, FirstSnapshot, FirstSnapshotToNobody, FirstSnapshotFails, database, bounds,
         TypeOK
<1> SUFFICES ASSUME ~lost, jobStatus = "FINAL", NEW v \in Viewers, handler'[v] # "none"
             PROVE  FinalOnItsWay(v)'
  BY <1>1 DEF NothingMissed
<1>2. \A r \in Readers : r # FirstOf(u) => reads'[r] = reads[r]
  <2>1. CASE OpenStream(u)
    BY <2>1 DEF OpenStream, TypeOK
  <2>2. CASE ~OpenStream(u)
    <3>1. ForgetLoadsUnlessWatched([reads EXCEPT ![FirstOf(u)] = Off])
      BY <2>2 DEF FirstSnapshot, FirstSnapshotToNobody, FirstSnapshotFails
    <3> QED
      BY <3>1, WatchedKeepsLoads DEF TypeOK
  <2> QED
    BY <2>1, <2>2
<1>3. \A l \in Loads : reads'[LoadOf(l)] = reads[LoadOf(l)]
  BY <1>2, ReadersDiffer
<1>4. CASE v # u
  <2>1. /\ reads'[FirstOf(v)] = reads[FirstOf(v)]
        /\ handler'[v] = handler[v] /\ buffered'[v] = buffered[v]
    BY <1>1, <1>2, <1>4, ReadersDiffer
  <2>2. FinalOnItsWay(v)
    BY <2>1 DEF NothingMissed
  <2> QED
    BY <1>1, <1>3, <2>1, <2>2, Carried
<1>5. CASE v = u
  <2>1. ~FirstSnapshotToNobody(u) /\ ~FirstSnapshotFails(u)
    BY <1>5 DEF FirstSnapshotToNobody, FirstSnapshotFails, TypeOK
  <2>2. CASE OpenStream(u)
    <3>1. handler'[v] = "reading" /\ reads'[FirstOf(v)] = Begun
      BY <1>5, <2>2, ReadersDiffer DEF OpenStream, TypeOK
    <3> QED
      BY <3>1, RecordTypes DEF FinalOnItsWay, SeesFinal
  <2>3. CASE FirstSnapshot(u)
    <3>1. ~EndsStream(Initially(v)) /\ handler[v] = "reading"
      BY <1>5, <2>3 DEF FirstSnapshot, Initially, TypeOK
    <3>2. ~EndsStream(buffered[v])
      <4>1. \A i \in 1..Len(buffered[v]) :
              i + 1 \in 1..Len(Initially(v)) /\ Initially(v)[i + 1] = buffered[v][i]
        BY InitialEvents DEF TypeOK
      <4> QED
        BY <3>1, <4>1 DEF EndsStream
    <3>3. ~SeesFinal(FirstOf(v))
      <4>1. 1 \in 1..Len(Initially(v)) /\ Initially(v)[1] = Answer(FirstOf(v))
        BY InitialEvents DEF TypeOK
      <4>2. Answer(FirstOf(v)).status # "FINAL"
        BY <3>1, <4>1 DEF EndsStream
      <4> QED
        BY <1>5, <2>3, <4>2 DEF FirstSnapshot, SeesFinal, Answer
    <3>4. FinalOnItsWay(v)
      BY <3>1 DEF NothingMissed
    <3>5. \/ unsent > 0 \/ notices > 0 \/ conn # "up" \/ window
          \/ \E l \in Loads : SeesFinal(LoadOf(l))
      BY <3>2, <3>3, <3>4 DEF FinalOnItsWay
    <3> QED
      BY <1>1, <1>3, <3>5 DEF FinalOnItsWay, SeesFinal, hub
  <2> QED
    BY <2>1, <2>2, <2>3
<1> QED
  BY <1>4, <1>5

LEMMA DisconnectedHandler ==
  ASSUME TypeOK, NEW v \in Viewers, Disconnect(v), NEW u \in Viewers, handler'[u] # "none"
  PROVE  handler[u] # "none" /\ (handler'[u] # "open" \/ handler'[u] = handler[u])
<1>1. CASE u = v
  BY <1>1 DEF TypeOK, Disconnect, Handlers
<1>2. CASE u # v
  BY <1>2 DEF TypeOK, Disconnect
<1> QED
  BY <1>1, <1>2

(* The actions that change no read of the hub or of a stream.               *)
LEMMA MissedPage ==
  ASSUME TypeOK, NothingMissed, NEW u \in Viewers,
         StreamLost(u) \/ PageStep(u) \/ PollFails(u)
  PROVE  NothingMissed'
<1>1. UNCHANGED <<jobStatus, unsent, hub, lost, buffered>>
  BY DEF PageStep, StreamLost, Poll, PollFails, PollAnswered, Receive, database, bounds, streams
<1> SUFFICES ASSUME ~lost, jobStatus = "FINAL", NEW v \in Viewers, handler'[v] # "none"
             PROVE  FinalOnItsWay(v)'
  BY <1>1 DEF NothingMissed
<1>2. handler' = handler \/ Disconnect(u)
  BY DEF PageStep, StreamLost, Poll, PollFails, PollAnswered, Receive, OpenSource, CloseSource,
         streams
<1>3. handler[v] # "none" /\ (handler'[v] # "open" \/ handler'[v] = handler[v])
  BY <1>2, DisconnectedHandler
<1>4. \A r \in Readers : r # PollOf(u) => reads'[r] = reads[r]
  <2>1. CASE Poll(u) \/ PollFails(u)
    BY <2>1 DEF Poll, PollFails, TypeOK
  <2>2. CASE PollAnswered(u)
    <3>1. ForgetLoadsUnlessWatched([reads EXCEPT ![PollOf(u)] = Off])
      BY <2>2 DEF PollAnswered
    <3> QED
      BY <3>1, WatchedKeepsLoads DEF TypeOK
  <2>3. CASE StreamLost(u) \/ Receive(u)
    BY <2>3, WatchedKeepsLoads DEF StreamLost, Receive
  <2> QED
    BY <2>1, <2>2, <2>3 DEF PageStep
<1>5. FinalOnItsWay(v)
  BY <1>3 DEF NothingMissed
<1>6. /\ \A l \in Loads : reads'[LoadOf(l)] = reads[LoadOf(l)]
      /\ reads'[FirstOf(v)] = reads[FirstOf(v)]
  BY <1>4, ReadersDiffer
<1> QED
  BY <1>1, <1>3, <1>5, <1>6, Carried

LEMMA MissedNext == ASSUME TypeOK, NothingMissed, [Next]_vars PROVE NothingMissed'
<1>1. CASE Restart
  <2>1. \A v \in Viewers : handler'[v] = "none"
    BY <1>1 DEF Restart
  <2> QED
    BY <2>1 DEF NothingMissed
<1>2. ASSUME NEW l \in Loads, LoadFails(l) PROVE NothingMissed'
  BY <1>2 DEF LoadFails, NothingMissed
<1>3. CASE UNCHANGED vars
  BY <1>3 DEF vars, NothingMissed, FinalOnItsWay, SeesFinal, EndsStream
<1>4. CASE JobStep \/ NotifyAfterCommit \/ NotifyLost
  BY <1>4, MissedJob
<1>5. CASE \E r \in Readers : ReadSnapshot(r)
  BY <1>5, MissedRead
<1>6. CASE HubStep \/ ConnectionLost
  BY <1>6, MissedHub, MissedFlush, MissedDeliver DEF HubStep
<1>7. ASSUME NEW v \in Viewers,
             StreamStep(v) \/ PageStep(v) \/ StreamLost(v) \/ FirstSnapshotFails(v) \/ PollFails(v)
      PROVE  NothingMissed'
  BY <1>7, MissedStream, MissedPage DEF StreamStep
<1> QED
  BY <1>1, <1>2, <1>3, <1>4, <1>5, <1>6, <1>7 DEF Next, SystemStep, Failure

-----------------------------------------------------------------------------
LEMMA InitInv == ASSUME Init PROVE IndInv
<1>1. TypeOK
  BY TypeInit
<1>2. \A r \in Readers : reads[r].step = "off"
  BY RecordTypes DEF Init
<1>3. FinalIsFinal /\ NothingMissed
  BY <1>2 DEF Init, FinalIsFinal, NothingMissed
<1>4. SnapshotsTruthful
  BY <1>2 DEF Init, SnapshotsTruthful
<1> QED
  BY <1>1, <1>3, <1>4 DEF IndInv

(* The inductive invariant: types, final jobs are settled and reads of a    *)
(* final job row are right, snapshots are truthful, the end is never missed *)
(* unless a notification or a load was lost.                                *)
THEOREM Invariance == Spec => []IndInv
<1>1. Init => IndInv
  BY InitInv
<1>2. IndInv /\ [Next]_vars => IndInv'
  BY TypeNext, TruthNext, MissedNext DEF IndInv
<1> QED
  BY <1>1, <1>2, PTL DEF Spec

(* Whatever a page shows or is about to be sent was true, although status   *)
(* and counts come from two queries, for any number of pages and reads.     *)
THEOREM Truthfulness == Spec => []SnapshotsTruthful
<1>1. IndInv => SnapshotsTruthful
  BY DEF IndInv
<1> QED
  BY <1>1, Invariance, PTL

(* Unless a notification or a load was lost, a stream of a job that ended   *)
(* has the final state on its way, whenever it was opened.                  *)
THEOREM EndNotMissed == Spec => []NothingMissed
<1>1. IndInv => NothingMissed
  BY DEF IndInv
<1> QED
  BY <1>1, Invariance, PTL
=============================================================================
