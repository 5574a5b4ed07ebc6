--------------------------- MODULE RowLocksProofs ---------------------------
(***************************************************************************)
(* Proofs about RowLocks for every number of jobs, stores, transactions    *)
(* and attempts.  The invariant is a conjunction over transactions: a step *)
(* of one leaves what is said of the others alone unless it commits.       *)
(***************************************************************************)
EXTENDS RowLocks, TLAPS

(* What the invariant says of one transaction. *)
Sound(x) == RowsAhead(x) /\ RowsHeld(x) /\ SnapshotsHold(x)

-----------------------------------------------------------------------------
(* The initial states.                                                      *)

LEMMA InitInv == Init => IndInv
<1> SUFFICES ASSUME Init PROVE IndInv
  OBVIOUS
<1>1. 0 \in 0..MaxAttempts /\ 0 < MaxAttempts
  BY LocksAssumption
<1>2. TypeOK
  BY <1>1 DEF Init, TypeOK, NoTokens, NoVerdict, Terminal
<1>3. TablesAgree
  BY <1>1, LocksAssumption DEF Init, TablesAgree, Open
<1>4. ASSUME NEW x \in Txns PROVE Sound(x)
  BY LocksAssumption DEF Init, Sound, RowsAhead, RowsHeld, SnapshotsHold, Recordings
<1> QED BY <1>2, <1>3, <1>4 DEF IndInv, Sound

-----------------------------------------------------------------------------
(* Steps of one transaction that change no table.                           *)

(* What holds of a transaction depends on its own variables, the rows it    *)
(* holds and the tables.                                                    *)
Untouched(y) ==
  /\ kind'[y] = kind[y] /\ second'[y] = second[y] /\ todo'[y] = todo[y]
  /\ waits'[y] = waits[y] /\ seen'[y] = seen[y] /\ verdict'[y] = verdict[y]
  /\ \A r \in Rows : locker'[r] = y <=> locker[r] = y

LEMMA OthersSound ==
  ASSUME TypeOK, UNCHANGED tables, NEW y \in Txns, Sound(y), Untouched(y)
  PROVE  Sound(y)'
<1> USE DEF Untouched, tables
<1>1. RowsAhead(y)'
  BY DEF Sound, RowsAhead
<1>2. \A t \in Tasks : JobOf[t] \in Rows /\ t \in Rows
  BY LocksAssumption DEF Rows
<1>3. RowsHeld(y)'
  BY <1>2 DEF Sound, RowsHeld
<1>4. Held(y)' = Held(y)
  BY DEF Held
<1>5. \A j \in Jobs : ClosedAs(j)' = ClosedAs(j)
  BY DEF ClosedAs
<1>6. kind[y] = "finalize" => todo[y] \cup Held(y) \subseteq Jobs
  BY DEF Sound, RowsAhead, RowsHeld, Held, Rows
<1>7. SnapshotsHold(y)'
  BY <1>2, <1>4, <1>5, <1>6 DEF Sound, SnapshotsHold
<1> QED BY <1>1, <1>3, <1>7 DEF Sound

(* A step of x alone keeps the invariant if it keeps x sound. *)
LEMMA StepOfOne ==
  ASSUME IndInv, UNCHANGED tables, NEW x \in Txns, TypeOK', Sound(x)',
         \A y \in Txns \ {x} : Untouched(y)
  PROVE  IndInv'
<1>1. TablesAgree'
  BY DEF IndInv, TablesAgree, tables
<1>2. ASSUME NEW y \in Txns PROVE Sound(y)'
  BY <1>2, OthersSound DEF IndInv, Sound
<1> QED BY <1>1, <1>2 DEF IndInv, Sound

LEMMA BeginKeepsInv ==
  ASSUME IndInv, NEW x \in Txns, BeginAny(x)
  PROVE  IndInv'
<1>1. PICK k \in Kinds, rows \in SUBSET Rows :
        /\ Begin(x, k, rows)
        /\ k \in {"claim", "reap"} \cup Recordings => rows \subseteq Tasks
        /\ k \in {"stop", "finalize"} => rows \subseteq Jobs
        /\ k = "retry" => \A t \in rows : attempts[t] < MaxAttempts
        /\ k \in Recordings => \A r, s \in rows : r = s
        /\ k = "finalize" => \A j \in rows : Finished(j)
  <2>1. ASSUME NEW k \in Recordings, NEW t \in Tasks, BeginRecording(x, k, t)
        PROVE  /\ Begin(x, k, {t})
               /\ k = "retry" => attempts[t] < MaxAttempts
    BY <2>1 DEF BeginRecording
  <2>2. CASE \E k \in Recordings, t \in Tasks : BeginRecording(x, k, t)
    BY <2>1, <2>2 DEF Kinds, Recordings, Rows
  <2>3. CASE BeginReap(x)
    BY <2>3 DEF BeginReap, Kinds, Recordings, Rows
  <2>4. CASE BeginClaim(x)
    BY <2>4 DEF BeginClaim, Kinds, Recordings, Rows
  <2>5. CASE BeginStop(x)
    BY <2>5 DEF BeginStop, Kinds, Recordings, Rows
  <2>6. CASE BeginFinalize(x)
    BY <2>6 DEF BeginFinalize, Kinds, Recordings, Rows
  <2> QED BY <2>2, <2>3, <2>4, <2>5, <2>6 DEF BeginAny
<1>2. /\ kind[x] = "none" /\ ~second[x] /\ waits[x] = NoRow
      /\ \A r \in Rows : locker[r] # x
  BY <1>1 DEF Begin, IndInv, RowsAhead, RowsHeld, TypeOK
<1>3. TypeOK'
  <2>1. seen' \in [Txns -> [Tasks -> 0..MaxAttempts]]
    BY <1>1, LocksAssumption DEF Begin, IndInv, TypeOK
  <2>2. verdict' \in [Txns -> [Jobs -> {"ABSENT"} \cup Terminal]]
    BY <1>1 DEF Begin, IndInv, TypeOK, ClosedAs, Terminal
  <2> QED BY <1>1, <2>1, <2>2 DEF Begin, IndInv, TypeOK, tables
<1>4. /\ kind'[x] = k /\ todo'[x] = rows /\ ~second'[x] /\ waits'[x] = NoRow
      /\ \A r \in Rows : locker'[r] # x
      /\ k = "retry" => \A t \in rows : seen'[x][t] = attempts[t]
      /\ k = "finalize" => \A j \in rows : verdict'[x][j] = ClosedAs(j)
  <2>1. kind'[x] = k /\ todo'[x] = rows /\ UNCHANGED <<locker, second, waits>>
    BY <1>1 DEF Begin, IndInv, TypeOK
  <2>2. k = "retry" => \A t \in rows : seen'[x][t] = attempts[t]
    BY <1>1 DEF Begin, IndInv, TypeOK, Recordings
  <2>3. k = "finalize" => \A j \in rows : verdict'[x][j] = ClosedAs(j)
    BY <1>1 DEF Begin, IndInv, TypeOK
  <2> QED BY <1>2, <2>1, <2>2, <2>3
<1>5. RowsAhead(x)'
  <2>1. k = "retry" => \A r \in rows : r \in Tasks /\ seen'[x][r] < MaxAttempts
    BY <1>1, <1>4 DEF Recordings
  <2>2. rows # {} /\ k # "none"
    BY <1>1 DEF Begin, Kinds, Recordings
  <2> QED BY <1>1, <1>4, <2>1, <2>2 DEF RowsAhead
<1>6. RowsHeld(x)'
  BY <1>4 DEF RowsHeld
<1>7. SnapshotsHold(x)'
  <2>1. Held(x)' = {}
    BY <1>4 DEF Held
  <2>2. k = "finalize" => \A j, l \in rows : j = l
    BY <1>1 DEF Finished, IndInv, TablesAgree
  <2>3. UNCHANGED tables
    BY <1>1 DEF Begin
  <2>4. \A j \in Jobs : ClosedAs(j)' = ClosedAs(j)
    BY <2>3 DEF ClosedAs, tables
  <2> QED BY <1>1, <1>4, <2>1, <2>2, <2>3, <2>4 DEF SnapshotsHold, Finished, tables
<1>8. \A y \in Txns \ {x} : Untouched(y)
  BY <1>1 DEF Begin, IndInv, TypeOK, Untouched
<1> QED BY <1>1, <1>3, <1>5, <1>6, <1>7, <1>8, StepOfOne DEF Begin, Sound

(* Rows in hand, one way or the other: never a job for a task. *)
LEMMA RowsDiffer ==
  /\ \A t \in Tasks : t \in Rows /\ t \notin Jobs /\ JobOf[t] \in Jobs /\ JobOf[t] \in Rows
  /\ \A j \in Jobs : j \in Rows /\ j \notin Tasks
  /\ \A r \in Rows : r \in Jobs \/ r \in Tasks
  /\ NoRow \notin Rows
BY LocksAssumption DEF Rows

LEMMA LockKeepsInv ==
  ASSUME IndInv, NEW x \in Txns, NEW r \in Rows, LockRow(x, r)
  PROVE  IndInv'
<1> USE RowsDiffer
<1>1. /\ r \in todo[x] /\ Free(r) /\ Matches(x, r)
      /\ locker' = [locker EXCEPT ![r] = x]
      /\ todo'[x] = IF kind[x] = "claim" THEN {} ELSE (todo[x] \ {r}) \cup AndThen(x, r)
      /\ waits'[x] = NoRow
      /\ UNCHANGED <<tables, kind, second, seen, verdict>>
  BY DEF LockRow, IndInv, TypeOK
<1>2. Sound(x) /\ TypeOK /\ kind[x] # "none" /\ AndThen(x, r) \subseteq Jobs
  BY <1>1 DEF IndInv, Sound, RowsAhead, AndThen
<1>3. TypeOK'
  <2>1. todo'[x] \subseteq Rows
    BY <1>1, <1>2 DEF TypeOK
  <2>2. todo' = [todo EXCEPT ![x] = todo'[x]] /\ waits' = [waits EXCEPT ![x] = NoRow]
    BY <1>1 DEF LockRow, TypeOK, IndInv
  <2>3. todo' \in [Txns -> SUBSET Rows] /\ waits' \in [Txns -> Rows \cup {NoRow}]
    BY <1>2, <2>1, <2>2 DEF TypeOK
  <2>4. locker' \in [Rows -> Txns \cup {Nobody}]
    BY <1>1, <1>2 DEF TypeOK
  <2> QED BY <1>1, <1>2, <2>3, <2>4 DEF TypeOK, tables
<1>4. \A s \in Rows : locker'[s] = IF s = r THEN x ELSE locker[s]
  BY <1>1, <1>2 DEF TypeOK
<1>5. locker[r] # x
  BY <1>1, LocksAssumption DEF Free
<1>6. RowsAhead(x)'
  BY <1>1, <1>2 DEF Sound, RowsAhead, AndThen, Recordings
<1>7. RowsHeld(x)'
  <2>1. ASSUME NEW s \in Rows, locker'[s] = x PROVE s \notin todo'[x]
    BY <2>1, <1>1, <1>2, <1>4 DEF Sound, RowsAhead, RowsHeld, AndThen, Recordings
  <2>2. ASSUME NEW s \in Rows, locker'[s] = x, s # r
        PROVE  /\ locker[s] = x
               /\ kind[x] \in Recordings /\ s \in Tasks => todo'[x] \subseteq Jobs
               /\ kind[x] \in Recordings /\ s \in Jobs => todo'[x] = {}
    BY <2>2, <1>1, <1>2, <1>4 DEF Sound, RowsHeld, AndThen, Recordings
  <2>3. /\ kind[x] \in Recordings /\ r \in Tasks => todo'[x] \subseteq Jobs
        /\ kind[x] \in Recordings /\ r \in Jobs => todo'[x] = {}
    BY <1>1, <1>2 DEF Sound, RowsAhead, AndThen, Recordings
  <2>4. ASSUME r \in Tasks
        PROVE  /\ CASE kind[x] = "claim" -> status[r] = "PENDING"
                     [] kind[x] = "stop" -> /\ second[x] /\ status[r] \in Open
                                            /\ locker[JobOf[r]] = x
                     [] kind[x] = "finalize" -> FALSE
                     [] OTHER -> status[r] = "IN_FLIGHT"
               /\ kind[x] = "retry" => attempts[r] < MaxAttempts
    <3>1. kind[x] \in Recordings \cup {"reap"} =>
            status[r] = "IN_FLIGHT" /\ attempts[r] = seen[x][r]
      BY <2>4, <1>1 DEF Matches, Recordings
    <3>2. kind[x] = "claim" => status[r] = "PENDING"
      BY <2>4, <1>1 DEF Matches, Recordings
    <3>3. kind[x] = "stop" => second[x] /\ status[r] \in Open /\ locker[JobOf[r]] = x
      BY <2>4, <1>1, <1>2 DEF Matches, Recordings, Sound, RowsAhead, SnapshotsHold
    <3>4. kind[x] # "finalize"
      BY <2>4, <1>1, <1>2 DEF Sound, RowsAhead
    <3>5. kind[x] = "retry" => seen[x][r] < MaxAttempts
      BY <1>1, <1>2 DEF Sound, RowsAhead
    <3> QED BY <1>2, <3>1, <3>2, <3>3, <3>4, <3>5 DEF TypeOK, Kinds, Recordings
  <2>5. ASSUME r \in Jobs
        PROVE  CASE kind[x] \in {"stop", "finalize"} -> jobStatus[r] = "RUNNING"
                 [] OTHER -> kind[x] \in {"success", "failure"}
    BY <2>5, <1>1, <1>2 DEF Sound, RowsAhead, Matches, TypeOK, Kinds, Recordings
  <2>6. \A t \in Tasks : locker[JobOf[t]] = x => locker'[JobOf[t]] = x
    BY <1>4
  <2>7. UNCHANGED <<status, attempts, jobStatus, kind, second>>
    BY <1>1 DEF tables
  <2>8. ASSUME NEW s \in Rows, locker'[s] = x, s # r
        PROVE  /\ s \in Tasks => CASE kind[x] = "claim" -> status[s] = "PENDING"
                     [] kind[x] = "stop" -> /\ second[x] /\ status[s] \in Open
                                            /\ locker'[JobOf[s]] = x
                     [] kind[x] = "finalize" -> FALSE
                     [] OTHER -> status[s] = "IN_FLIGHT"
               /\ s \in Tasks /\ kind[x] = "retry" => attempts[s] < MaxAttempts
               /\ s \in Jobs => CASE kind[x] \in {"stop", "finalize"} -> jobStatus[s] = "RUNNING"
                                  [] OTHER -> kind[x] \in {"success", "failure"}
    BY <2>8, <2>2, <2>6, <1>2 DEF Sound, RowsHeld
  <2>9. ASSUME NEW s \in Rows, locker'[s] = x
        PROVE  /\ s \in Tasks => CASE kind[x] = "claim" -> status[s] = "PENDING"
                     [] kind[x] = "stop" -> /\ second[x] /\ status[s] \in Open
                                            /\ locker'[JobOf[s]] = x
                     [] kind[x] = "finalize" -> FALSE
                     [] OTHER -> status[s] = "IN_FLIGHT"
               /\ s \in Tasks /\ kind[x] = "retry" => attempts[s] < MaxAttempts
               /\ s \in Jobs => CASE kind[x] \in {"stop", "finalize"} -> jobStatus[s] = "RUNNING"
                                  [] OTHER -> kind[x] \in {"success", "failure"}
    BY <2>4, <2>5, <2>6, <2>8, <2>9
  <2> QED BY <2>1, <2>2, <2>3, <2>7, <2>9, <1>2 DEF RowsHeld
<1>8. SnapshotsHold(x)'
  <2>1. kind[x] = "finalize" => todo'[x] \cup Held(x)' = todo[x] \cup Held(x)
    BY <1>1, <1>4 DEF AndThen, Held
  <2>2. \A j \in Jobs : ClosedAs(j)' = ClosedAs(j)
    BY <1>1 DEF ClosedAs, tables
  <2>3. kind[x] = "finalize" => todo[x] \cup Held(x) \subseteq Jobs
    BY <1>2 DEF Sound, RowsAhead, RowsHeld, Held, Rows
  <2>4. CASE kind[x] = "finalize"
    BY <2>1, <2>2, <2>3, <2>4, <1>1, <1>2 DEF Sound, RowsAhead, SnapshotsHold, tables
  <2>5. CASE kind[x] # "finalize"
    <3>1. second[x] => r \in Tasks /\ todo'[x] = todo[x] \ {r}
      BY <1>1, <1>2 DEF Sound, RowsAhead, AndThen
    <3>2. second[x] => \A t \in Tasks : locker'[JobOf[t]] = locker[JobOf[t]]
      BY <3>1, <1>4
    <3>3. UNCHANGED <<kind, second, status>>
      BY <1>1 DEF tables
    <3> QED BY <2>5, <3>1, <3>2, <3>3, <1>2, <1>4 DEF Sound, SnapshotsHold
  <2> QED BY <2>4, <2>5
<1>9. \A y \in Txns \ {x} : Untouched(y)
  BY <1>1, <1>2, <1>4, LocksAssumption DEF LockRow, Free, TypeOK, Untouched
<1> QED BY <1>1, <1>3, <1>6, <1>7, <1>8, <1>9, StepOfOne DEF Sound

LEMMA PassKeepsInv ==
  ASSUME IndInv, NEW x \in Txns, NEW r \in Rows, PassRow(x, r)
  PROVE  IndInv'
<1> USE RowsDiffer
<1>1. /\ r \in todo[x] /\ PassesOver(x, r)
      /\ todo'[x] = todo[x] \ {r}
      /\ waits'[x] = NoRow
      /\ UNCHANGED <<tables, locker, kind, second, seen, verdict>>
  BY DEF PassRow, IndInv, TypeOK
<1>2. Sound(x) /\ TypeOK
  BY DEF IndInv, Sound
<1>3. TypeOK'
  BY <1>2 DEF PassRow, TypeOK, tables
<1>4. RowsAhead(x)'
  BY <1>1, <1>2 DEF Sound, RowsAhead
<1>5. RowsHeld(x)'
  BY <1>1, <1>2 DEF Sound, RowsHeld, tables
<1>6. SnapshotsHold(x)'
  <2>1. Held(x)' = Held(x) /\ \A j \in Jobs : ClosedAs(j)' = ClosedAs(j)
    BY <1>1 DEF Held, ClosedAs, tables
  <2>2. kind[x] = "finalize" => todo[x] \cup Held(x) \subseteq Jobs
    BY <1>2 DEF Sound, RowsAhead, RowsHeld, Held, Rows
  <2>3. second[x] /\ r \in Tasks => status[r] \notin Open
    BY <1>1, <1>2 DEF PassesOver, Matches, Sound, RowsAhead
  <2>4. CASE kind[x] = "finalize"
    BY <2>1, <2>2, <2>4, <1>1, <1>2 DEF Sound, RowsAhead, SnapshotsHold, tables
  <2>5. CASE kind[x] # "finalize"
    BY <2>3, <2>5, <1>1, <1>2 DEF Sound, SnapshotsHold, tables
  <2> QED BY <2>4, <2>5
<1>7. \A y \in Txns \ {x} : Untouched(y)
  BY <1>2 DEF PassRow, TypeOK, Untouched
<1> QED BY <1>1, <1>3, <1>4, <1>5, <1>6, <1>7, StepOfOne DEF Sound

LEMMA WaitKeepsInv ==
  ASSUME IndInv, NEW x \in Txns, NEW r \in Rows, WaitForRow(x, r)
  PROVE  IndInv'
<1>1. /\ r \in todo[x] /\ kind[x] # "claim"
      /\ waits'[x] = r
      /\ UNCHANGED <<tables, locker, kind, second, todo, seen, verdict>>
  BY DEF WaitForRow, PassesOver, IndInv, TypeOK
<1>2. Sound(x) /\ TypeOK
  BY DEF IndInv, Sound
<1>3. TypeOK'
  BY <1>2 DEF WaitForRow, TypeOK, tables
<1>4. RowsAhead(x)'
  BY <1>1, <1>2 DEF Sound, RowsAhead
<1>5. RowsHeld(x)'
  BY <1>1, <1>2 DEF Sound, RowsHeld, tables
<1>6. SnapshotsHold(x)'
  <2>1. Held(x)' = Held(x) /\ \A j \in Jobs : ClosedAs(j)' = ClosedAs(j)
    BY <1>1 DEF Held, ClosedAs, tables
  <2>2. kind[x] = "finalize" => todo[x] \cup Held(x) \subseteq Jobs
    BY <1>2, RowsDiffer DEF Sound, RowsAhead, RowsHeld, Held, Rows
  <2> QED BY <2>1, <2>2, <1>1, <1>2 DEF Sound, SnapshotsHold, tables
<1>7. \A y \in Txns \ {x} : Untouched(y)
  BY <1>2 DEF WaitForRow, TypeOK, Untouched
<1> QED BY <1>1, <1>3, <1>4, <1>5, <1>6, <1>7, StepOfOne DEF Sound

(* The second statement of a stop finds every open task of the jobs it has  *)
(* locked; nobody else holds their jobs, and none of them is held by itself *)
(* yet.                                                                     *)
LEMMA AbandonKeepsInv ==
  ASSUME IndInv, NEW x \in Txns, AbandonTasks(x)
  PROVE  IndInv'
<1> USE RowsDiffer
<1>1. /\ kind[x] = "stop" /\ ~second[x] /\ todo[x] = {}
      /\ second'[x] /\ todo'[x] = Abandoned(x)
      /\ UNCHANGED <<tables, locker, kind, waits, seen, verdict>>
  BY DEF AbandonTasks, IndInv, TypeOK
<1>2. Sound(x) /\ TypeOK
  BY DEF IndInv, Sound
<1>3. Abandoned(x) \subseteq Tasks
  BY DEF Abandoned
<1>4. TypeOK'
  BY <1>2, <1>3 DEF AbandonTasks, TypeOK, tables
<1>5. RowsAhead(x)'
  BY <1>1, <1>2, <1>3 DEF Sound, RowsAhead, Recordings
<1>6. RowsHeld(x)'
  <2>1. \A t \in Tasks : locker[t] # x
    BY <1>1, <1>2 DEF Sound, RowsHeld
  <2> QED BY <2>1, <1>1, <1>2, <1>3 DEF Sound, RowsHeld, Recordings, tables
<1>7. SnapshotsHold(x)'
  BY <1>1, <1>2 DEF SnapshotsHold, Abandoned, Held, tables
<1>8. \A y \in Txns \ {x} : Untouched(y)
  BY <1>2 DEF AbandonTasks, TypeOK, Untouched
<1> QED BY <1>1, <1>4, <1>5, <1>6, <1>7, <1>8, StepOfOne DEF Sound

-----------------------------------------------------------------------------
(* The end of a transaction.                                                *)

LEMMA EndedIsSound ==
  ASSUME TypeOK, NEW x \in Txns, End(x)
  PROVE  /\ Sound(x)'
         /\ \A y \in Txns \ {x} : Untouched(y)
         /\ locker' \in [Rows -> Txns \cup {Nobody}]
         /\ kind' \in [Txns -> Kinds \cup {"none"}]
         /\ second' \in [Txns -> BOOLEAN]
         /\ todo' \in [Txns -> SUBSET Rows]
         /\ waits' \in [Txns -> Rows \cup {NoRow}]
         /\ seen' \in [Txns -> [Tasks -> 0..MaxAttempts]]
         /\ verdict' \in [Txns -> [Jobs -> {"ABSENT"} \cup Terminal]]
<1>1. /\ kind'[x] = "none" /\ ~second'[x] /\ todo'[x] = {} /\ waits'[x] = NoRow
      /\ \A r \in Rows : locker'[r] # x
  BY LocksAssumption DEF End, TypeOK
<1>2. Sound(x)'
  BY <1>1 DEF Sound, RowsAhead, RowsHeld, SnapshotsHold, Recordings
<1>3. \A y \in Txns \ {x} : Untouched(y)
  BY LocksAssumption DEF End, TypeOK, Untouched
<1>4. /\ NoTokens \in [Tasks -> 0..MaxAttempts]
      /\ NoVerdict \in [Jobs -> {"ABSENT"} \cup Terminal]
  BY LocksAssumption DEF NoTokens, NoVerdict
<1> QED BY <1>2, <1>3, <1>4 DEF End, TypeOK

LEMMA BreakKeepsInv ==
  ASSUME IndInv, NEW x \in Txns, BreakDeadlock(x)
  PROVE  IndInv'
<1>1. UNCHANGED tables /\ End(x) /\ TypeOK
  BY DEF BreakDeadlock, IndInv
<1>2. TypeOK'
  BY <1>1, EndedIsSound DEF TypeOK, tables
<1> QED BY <1>1, <1>2, EndedIsSound, StepOfOne

(* What a commit writes, row by row. *)
LEMMA CommitWrites ==
  ASSUME IndInv, NEW x \in Txns, Commit(x)
  PROVE  /\ \A r \in Rows : r \in Held(x) <=> locker[r] = x
         /\ \A t \in Tasks : locker[t] # x => status'[t] = status[t] /\ attempts'[t] = attempts[t]
         /\ \A t \in Tasks : locker[t] = x =>
              /\ status[t] \in Open /\ status'[t] = Written(x, t)
              /\ status'[t] \in {"FAILED", "ABORTED", "SUCCEEDED"} \cup Open
              /\ attempts'[t] = IF kind[x] = "claim" THEN attempts[t] + 1 ELSE attempts[t]
         /\ \A j \in Jobs : locker[j] # x => jobStatus'[j] = jobStatus[j]
         /\ \A j \in Jobs : locker[j] = x =>
              jobStatus'[j] = IF kind[x] = "stop" THEN "FAILED_SYSTEMIC"
                              ELSE IF kind[x] = "finalize" THEN ClosedAs(j) ELSE jobStatus[j]
<1> USE RowsDiffer
<1>1. \A r \in Rows : r \in Held(x) <=> locker[r] = x
  BY DEF Held
<1>2. /\ Sound(x) /\ TypeOK
      /\ status' = [t \in Tasks |-> IF t \in Held(x) THEN Written(x, t) ELSE status[t]]
      /\ attempts' = [t \in Tasks |->
           IF t \in Held(x) /\ kind[x] = "claim" THEN attempts[t] + 1 ELSE attempts[t]]
      /\ jobStatus' = [j \in Jobs |-> IF j \in Held(x) THEN WrittenJob(x, j) ELSE jobStatus[j]]
  BY DEF Commit, IndInv, Sound
<1>3. ASSUME NEW t \in Tasks, locker[t] = x
      PROVE  /\ status[t] \in Open
             /\ Written(x, t) \in {"FAILED", "ABORTED", "SUCCEEDED"} \cup Open
  <2>1. status[t] \in Open /\ kind[x] \in Kinds /\ kind[x] # "finalize"
    BY <1>2, <1>3 DEF Sound, RowsHeld, Open, TypeOK, Kinds, Recordings
  <2> QED BY <2>1 DEF Written, Open, Kinds, Recordings
<1>4. ASSUME NEW j \in Jobs, locker[j] = x
      PROVE  WrittenJob(x, j) = IF kind[x] = "stop" THEN "FAILED_SYSTEMIC"
                                ELSE IF kind[x] = "finalize" THEN ClosedAs(j) ELSE jobStatus[j]
  BY <1>1, <1>2, <1>4 DEF Sound, SnapshotsHold, WrittenJob
<1> QED BY <1>1, <1>2, <1>3, <1>4

(* A commit opens no task, and settles every open task of a job it ends.    *)
LEMMA CommitOpensNothing ==
  ASSUME IndInv, NEW x \in Txns, Commit(x)
  PROVE  \A t \in Tasks : status'[t] \in Open =>
           /\ status[t] \in Open
           /\ jobStatus'[JobOf[t]] = jobStatus[JobOf[t]]
<1> USE RowsDiffer
<1>1. Sound(x) /\ TypeOK /\ todo[x] = {} /\ (kind[x] = "stop" => second[x])
  BY DEF Commit, IndInv, Sound
<1> SUFFICES ASSUME NEW t \in Tasks, status'[t] \in Open
             PROVE  status[t] \in Open /\ jobStatus'[JobOf[t]] = jobStatus[JobOf[t]]
  OBVIOUS
<1>2. status[t] \in Open
  BY CommitWrites
<1>3. CASE locker[JobOf[t]] = x
  <2>1. CASE kind[x] = "stop"
    <3>1. locker[t] = x
      BY <1>1, <1>2, <1>3, <2>1 DEF Sound, SnapshotsHold
    <3>2. status'[t] = "ABORTED"
      BY <2>1, <3>1, CommitWrites DEF Written
    <3> QED BY <3>2 DEF Open
  <2>2. CASE kind[x] = "finalize"
    <3>1. status[t] \notin Open
      BY <1>1, <1>3, <2>2, CommitWrites DEF Sound, SnapshotsHold, TasksOf
    <3> QED BY <1>2, <3>1
  <2>3. CASE kind[x] \notin {"stop", "finalize"}
    BY <1>2, <1>3, <2>3, CommitWrites
  <2> QED BY <2>1, <2>2, <2>3
<1>4. CASE locker[JobOf[t]] # x
  BY <1>2, <1>4, CommitWrites
<1> QED BY <1>3, <1>4

LEMMA CommitKeepsTables ==
  ASSUME IndInv, NEW x \in Txns, Commit(x)
  PROVE  TypeOK' /\ TablesAgree'
<1> USE RowsDiffer
<1>1. Sound(x) /\ TypeOK /\ TablesAgree /\ End(x) /\ todo[x] = {} /\ kind[x] # "none"
  BY DEF Commit, IndInv, Sound
<1>2. \A t \in Tasks : locker[t] = x /\ kind[x] = "claim" => attempts[t] < MaxAttempts
  BY <1>1 DEF Sound, RowsHeld, TablesAgree
<1>3. TypeOK'
  <2>1. jobStatus' \in [Jobs -> {"ABSENT", "RUNNING"} \cup Terminal]
    <3>1. \A j \in Jobs : jobStatus'[j] \in {"ABSENT", "RUNNING"} \cup Terminal
      BY <1>1, CommitWrites DEF TypeOK, ClosedAs, Terminal
    <3> QED BY <3>1 DEF Commit
  <2>2. status' \in [Tasks -> {"ABSENT"} \cup Open \cup Settled]
    <3>1. \A t \in Tasks : status'[t] \in {"ABSENT"} \cup Open \cup Settled
      BY <1>1, CommitWrites DEF TypeOK, Settled
    <3> QED BY <3>1 DEF Commit
  <2>3. attempts' \in [Tasks -> 0..MaxAttempts]
    <3>1. ASSUME NEW t \in Tasks PROVE attempts'[t] \in 0..MaxAttempts
      <4>1. attempts[t] \in 0..MaxAttempts /\ MaxAttempts \in Nat
        BY <1>1, LocksAssumption DEF TypeOK
      <4>2. \/ attempts'[t] = attempts[t]
            \/ attempts[t] < MaxAttempts /\ attempts'[t] = attempts[t] + 1
        <5>1. attempts'[t] = IF t \in Held(x) /\ kind[x] = "claim" THEN attempts[t] + 1 ELSE attempts[t]
          BY DEF Commit
        <5>2. t \in Held(x) => locker[t] = x
          BY DEF Held
        <5> QED BY <1>2, <5>1, <5>2
      <4> QED BY <4>1, <4>2
    <3> QED BY <3>1 DEF Commit
  <2> QED BY <1>1, <2>1, <2>2, <2>3, EndedIsSound DEF TypeOK
<1>4. \A j \in Jobs : jobStatus'[j] = "RUNNING" => jobStatus[j] = "RUNNING"
  BY <1>1, CommitWrites DEF ClosedAs
<1>5. \A j \in Jobs : jobStatus'[j] = "ABSENT" <=> jobStatus[j] = "ABSENT"
  <2>1. ASSUME NEW j \in Jobs, locker[j] = x, kind[x] \in {"stop", "finalize"}
        PROVE  jobStatus[j] = "RUNNING" /\ jobStatus'[j] # "ABSENT"
    BY <1>1, <2>1, CommitWrites DEF Sound, RowsHeld, ClosedAs
  <2> QED BY <2>1, CommitWrites
<1>6. ASSUME NEW t \in Tasks
      PROVE  /\ (jobStatus[JobOf[t]] = "ABSENT" <=> status[t] = "ABSENT")'
             /\ (status[t] \in Open => jobStatus[JobOf[t]] = "RUNNING")'
             /\ (status[t] = "ABORTED" => jobStatus[JobOf[t]] = "FAILED_SYSTEMIC")'
             /\ (status[t] \in {"ABSENT", "PENDING"} => attempts[t] < MaxAttempts)'
  <2>1. status'[t] = "ABSENT" <=> status[t] = "ABSENT"
    BY CommitWrites DEF Open
  <2>2. (status[t] \in Open => jobStatus[JobOf[t]] = "RUNNING")'
    BY <1>1, CommitOpensNothing DEF TablesAgree
  <2>3. (status[t] = "ABORTED" => jobStatus[JobOf[t]] = "FAILED_SYSTEMIC")'
    <3>1. CASE locker[t] = x
      <4>1. kind[x] = "stop" => locker[JobOf[t]] = x
        BY <1>1, <3>1 DEF Sound, RowsHeld
      <4>2. kind[x] # "stop" => Written(x, t) # "ABORTED"
        BY <1>1, <3>1 DEF Written, Sound, RowsHeld, TypeOK, Kinds, Recordings
      <4> QED BY <3>1, <4>1, <4>2, CommitWrites
    <3>2. CASE locker[t] # x
      <4>1. status'[t] = "ABORTED" => jobStatus[JobOf[t]] = "FAILED_SYSTEMIC"
        BY <1>1, <3>2, CommitWrites DEF TablesAgree
      <4>2. locker[JobOf[t]] = x /\ kind[x] \in {"stop", "finalize"} =>
              jobStatus[JobOf[t]] = "RUNNING"
        BY <1>1 DEF Sound, RowsHeld
      <4> QED BY <4>1, <4>2, CommitWrites
    <3> QED BY <3>1, <3>2
  <2>4. (status[t] \in {"ABSENT", "PENDING"} => attempts[t] < MaxAttempts)'
    <3>1. CASE locker[t] # x
      BY <1>1, <3>1, CommitWrites DEF TablesAgree
    <3>2. CASE locker[t] = x
      <4>1. attempts[t] \in 0..MaxAttempts /\ kind[x] \in Kinds
        BY <1>1 DEF TypeOK
      <4>2. kind[x] = "retry" => attempts[t] < MaxAttempts
        BY <1>1, <3>2 DEF Sound, RowsHeld
      <4>3. Written(x, t) = "PENDING" => attempts[t] < MaxAttempts /\ kind[x] # "claim"
        BY <1>1, <3>2, <4>1, <4>2, LocksAssumption
        DEF Written, Sound, RowsHeld, Kinds, Recordings
      <4> QED BY <2>1, <3>2, <4>3, CommitWrites DEF Open
    <3> QED BY <3>1, <3>2
  <2> QED BY <1>1, <1>5, <2>1, <2>2, <2>3, <2>4 DEF TablesAgree
<1>7. \A j, k \in Jobs : jobStatus'[j] = "RUNNING" /\ jobStatus'[k] = "RUNNING" => j = k
  BY <1>1, <1>4 DEF TablesAgree
<1> QED BY <1>3, <1>6, <1>7 DEF TablesAgree

(* The rows another transaction holds are not written, and what it derived  *)
(* from its snapshots stays true.                                           *)
LEMMA CommitKeepsOthers ==
  ASSUME IndInv, NEW x \in Txns, Commit(x), NEW y \in Txns \ {x}
  PROVE  Sound(y)'
<1> USE RowsDiffer
<1>1. /\ Sound(x) /\ Sound(y) /\ TypeOK /\ TablesAgree /\ Untouched(y)
      /\ kind[x] # "none" /\ todo[x] = {}
  BY EndedIsSound DEF Commit, IndInv, Sound
<1>2. \A r \in Rows : locker[r] = y => locker[r] # x
  OBVIOUS
<1>3. RowsAhead(y)'
  BY <1>1 DEF Sound, RowsAhead, Untouched
<1>4. RowsHeld(y)'
  <2>1. ASSUME NEW r \in Rows, locker'[r] = y
        PROVE  /\ locker[r] = y
               /\ r \in Tasks => status'[r] = status[r] /\ attempts'[r] = attempts[r]
               /\ r \in Jobs => jobStatus'[r] = jobStatus[r]
    BY <1>1, <2>1, CommitWrites DEF Untouched
  <2>2. \A t \in Tasks : locker[JobOf[t]] = y => locker'[JobOf[t]] = y
    BY <1>1 DEF Untouched
  <2> QED BY <1>1, <2>1, <2>2 DEF Sound, RowsHeld, Untouched
<1>5. SnapshotsHold(y)'
  <2>1. ASSUME second[y], NEW t \in Tasks
        PROVE  /\ t \in todo[y] => locker'[JobOf[t]] = y
               /\ locker'[JobOf[t]] = y /\ status'[t] \in Open =>
                    t \in todo[y] \/ locker'[t] = y
    BY <1>1, <2>1, CommitOpensNothing DEF Sound, SnapshotsHold, Untouched
  <2>2. Held(y)' = Held(y)
    BY <1>1 DEF Held, Untouched
  <2>3. ASSUME kind[y] = "finalize", NEW j \in todo[y] \cup Held(y)
        PROVE  /\ j \in Jobs
               /\ jobStatus'[j] # "ABSENT"
               /\ \A t \in TasksOf(j) : status'[t] = status[t] /\ status[t] \notin Open
               /\ verdict[y][j] = ClosedAs(j)
    <3>1. j \in Jobs /\ jobStatus[j] # "ABSENT"
      BY <1>1, <2>3 DEF Sound, RowsAhead, RowsHeld, SnapshotsHold, Held, Rows
    <3>2. jobStatus'[j] # "ABSENT"
      BY <1>1, <3>1, CommitWrites DEF ClosedAs
    <3>3. \A t \in TasksOf(j) : status[t] \notin Open
      BY <1>1, <2>3 DEF Sound, SnapshotsHold
    <3>4. \A t \in TasksOf(j) : status'[t] = status[t]
      BY <3>3, CommitWrites DEF TasksOf
    <3> QED BY <1>1, <2>3, <3>1, <3>2, <3>3, <3>4 DEF Sound, SnapshotsHold
  <2>4. ASSUME kind[y] = "finalize", NEW j \in todo[y] \cup Held(y)
        PROVE  ClosedAs(j)' = ClosedAs(j)
    BY <2>3, <2>4 DEF ClosedAs
  <2>5. CASE kind[y] = "finalize"
    <3>1. \A j \in todo[y] \cup Held(y) :
            /\ jobStatus'[j] # "ABSENT"
            /\ \A t \in TasksOf(j) : status'[t] \notin Open
            /\ verdict[y][j] = ClosedAs(j)'
      BY <2>3, <2>4, <2>5
    <3>2. ~second[y] /\ \A j, k \in todo[y] \cup Held(y) : j = k
      BY <1>1, <2>5 DEF Sound, RowsAhead, SnapshotsHold
    <3> QED BY <1>1, <2>2, <2>5, <3>1, <3>2 DEF SnapshotsHold, Untouched
  <2>6. CASE kind[y] # "finalize"
    BY <1>1, <2>1, <2>6 DEF SnapshotsHold, Untouched
  <2> QED BY <2>5, <2>6
<1> QED BY <1>3, <1>4, <1>5 DEF Sound

LEMMA StartKeepsInv ==
  ASSUME IndInv, NEW j \in Jobs, StartJob(j)
  PROVE  IndInv'
<1> USE RowsDiffer
<1>1. /\ jobStatus[j] = "ABSENT" /\ \A k \in Jobs : jobStatus[k] # "RUNNING"
      /\ jobStatus' = [jobStatus EXCEPT ![j] = "RUNNING"]
      /\ status' = [t \in Tasks |-> IF JobOf[t] = j THEN "PENDING" ELSE status[t]]
      /\ UNCHANGED <<attempts, locker, kind, second, todo, waits, seen, verdict>>
      /\ TypeOK /\ TablesAgree
  BY DEF StartJob, IndInv
<1>2. TypeOK'
  BY <1>1 DEF TypeOK, Open
<1>3. TablesAgree'
  BY <1>1 DEF TypeOK, TablesAgree, Open
<1>4. ASSUME NEW y \in Txns PROVE Sound(y)'
  <2>1. Sound(y)
    BY DEF IndInv, Sound
  <2>2. RowsAhead(y)'
    BY <1>1, <2>1 DEF Sound, RowsAhead
  <2>3. RowsHeld(y)'
    <3>1. ASSUME NEW r \in Rows, locker[r] = y
          PROVE  /\ r \in Tasks => status'[r] = status[r]
                 /\ r \in Jobs /\ kind[y] \in {"stop", "finalize"} => jobStatus'[r] = jobStatus[r]
      <4>1. r \in Tasks => status[r] \in Open
        BY <2>1, <3>1, <1>1 DEF Sound, RowsHeld, Open, TypeOK, Kinds, Recordings
      <4> QED BY <1>1, <2>1, <3>1, <4>1 DEF Sound, RowsHeld, TablesAgree, Open, TypeOK
    <3> QED BY <1>1, <2>1, <3>1 DEF Sound, RowsHeld
  <2>4. SnapshotsHold(y)'
    <3>1. CASE kind[y] # "finalize"
      <4>1. ASSUME second[y], NEW t \in Tasks, locker[JobOf[t]] = y
            PROVE  status'[t] = status[t]
        BY <1>1, <2>1, <4>1 DEF Sound, RowsAhead, RowsHeld
      <4> QED BY <1>1, <2>1, <3>1, <4>1 DEF Sound, SnapshotsHold
    <3>2. CASE kind[y] = "finalize"
      <4>1. ASSUME NEW k \in todo[y] \cup Held(y)
            PROVE  k \in Jobs /\ k # j /\ jobStatus'[k] # "ABSENT"
        BY <1>1, <2>1, <3>2 DEF Sound, RowsAhead, RowsHeld, SnapshotsHold, Held, Rows, TypeOK
      <4>2. ASSUME NEW k \in todo[y] \cup Held(y)
            PROVE  /\ \A t \in TasksOf(k) : status'[t] = status[t]
                   /\ ClosedAs(k)' = ClosedAs(k)
        BY <1>1, <4>1 DEF TasksOf, ClosedAs
      <4>3. Held(y)' = Held(y) /\ ~second[y]
        BY <1>1, <2>1, <3>2 DEF Held, Sound, RowsAhead
      <4> QED BY <1>1, <2>1, <3>2, <4>1, <4>2, <4>3 DEF Sound, SnapshotsHold
    <3> QED BY <3>1, <3>2
  <2> QED BY <2>2, <2>3, <2>4 DEF Sound
<1> QED BY <1>2, <1>3, <1>4 DEF IndInv, Sound

LEMMA NextInv == IndInv /\ [Next]_vars => IndInv'
<1> SUFFICES ASSUME IndInv, [Next]_vars PROVE IndInv'
  OBVIOUS
<1>1. CASE UNCHANGED vars
  BY <1>1 DEF vars, IndInv, TypeOK, TablesAgree, RowsAhead, RowsHeld, SnapshotsHold, Held, ClosedAs
<1>2. ASSUME NEW x \in Txns, Commit(x) PROVE IndInv'
  <2>1. Sound(x)'
    BY <1>2, EndedIsSound DEF Commit, IndInv
  <2>2. \A y \in Txns : Sound(y)'
    BY <1>2, <2>1, CommitKeepsOthers
  <2> QED BY <1>2, <2>2, CommitKeepsTables DEF IndInv, Sound
<1> QED BY <1>1, <1>2, StartKeepsInv, BeginKeepsInv, LockKeepsInv, PassKeepsInv, WaitKeepsInv,
           AbandonKeepsInv, BreakKeepsInv DEF Next, TxnStep

(* Rows ahead and rows held, for any number of transactions: nobody writes  *)
(* a row that somebody else has locked, and what a stop or a closing has    *)
(* read stays true until it commits.                                        *)
THEOREM Invariance == Spec => []IndInv
BY InitInv, NextInv, PTL DEF Spec

-----------------------------------------------------------------------------
(* Deadlocks.                                                               *)

(* Whoever waits for a row and holds another, among transactions of which   *)
(* none is a stop, holds tasks only, and does not wait for what it holds.   *)
LEMMA HoldAndWait ==
  ASSUME IndInv, NEW y \in Txns, kind[y] # "stop", waits[y] # NoRow,
         NEW r \in Rows, locker[r] = y
  PROVE  /\ r \in Tasks /\ r # waits[y]
         /\ kind[y] = "reap" \/ waits[y] \in Jobs
<1> USE RowsDiffer
<1>1. /\ Sound(y) /\ kind[y] \in Kinds \ {"claim", "stop"}
      /\ waits[y] \in todo[y] /\ r \notin todo[y]
  BY DEF IndInv, TypeOK, Sound, RowsAhead, RowsHeld
<1>2. kind[y] # "finalize"
  BY <1>1 DEF Sound, SnapshotsHold, Held
<1>3. CASE kind[y] = "reap"
  BY <1>1, <1>3 DEF Sound, RowsHeld, Rows
<1>4. CASE kind[y] \in Recordings
  BY <1>1, <1>4 DEF Sound, RowsHeld, Rows
<1> QED BY <1>1, <1>2, <1>3, <1>4 DEF Kinds

(* Claims, answers and closing never deadlock among themselves or with one  *)
(* reaper, however many of them there are: no answer is lost to a deadlock  *)
(* unless a stop or two sweeps for expired leases are under way.            *)
THEOREM NoDeadlockOtherwise == Spec => []DeadlocksNeedASweep
<1>1. IndInv => DeadlocksNeedASweep
  <2> SUFFICES ASSUME IndInv, NEW X \in SUBSET Txns, Knot(X), \A x \in X : kind[x] # "stop"
               PROVE  \E x, y \in X : x # y /\ kind[x] = "reap" /\ kind[y] = "reap"
    BY DEF DeadlocksNeedASweep
  <2>1. \A x \in X : waits[x] \in Rows /\ waits[x] # NoRow /\ locker[waits[x]] \in X
    BY DEF Knot, IndInv, TypeOK
  <2>2. \A x \in X : waits[x] \in Tasks
    BY <2>1, HoldAndWait
  <2>3. \A x \in X : kind[locker[waits[x]]] = "reap" /\ waits[locker[waits[x]]] # waits[x]
    BY <2>1, <2>2, HoldAndWait, LocksAssumption
  <2>4. PICK x \in X : TRUE
    BY DEF Knot
  <2> DEFINE y == locker[waits[x]]
             z == locker[waits[y]]
  <2>5. y \in X /\ z \in X /\ kind[y] = "reap" /\ kind[z] = "reap"
    BY <2>1, <2>3
  <2>6. z # y
    <3>1. y \in Txns /\ kind[y] # "stop" /\ waits[y] # NoRow /\ waits[y] \in Rows
      BY <2>1, <2>5
    <3>2. ASSUME z = y PROVE FALSE
      BY <3>1, <3>2, HoldAndWait
    <3> QED BY <3>2
  <2> QED BY <2>5, <2>6
<1> QED BY <1>1, Invariance, PTL

-----------------------------------------------------------------------------
(* Refinement of JobContract.                                               *)

LEMMA InitContract == Init => Contract!ContractInit
BY DEF Init, ResultOf, Contract!ContractInit

LEMMA StartRefines ==
  ASSUME IndInv, NEW j \in Jobs, StartJob(j)
  PROVE  Contract!Start(j)
<1>1. \A t \in Tasks : ResultOf(t)' = IF JobOf[t] = j THEN "open" ELSE ResultOf(t)
  BY DEF StartJob, ResultOf
<1>2. Contract!StartWith(j, TasksOf(j))
  BY <1>1 DEF StartJob, TasksOf, Contract!StartWith
<1>3. TasksOf(j) \in SUBSET Contract!TasksOf(j) /\ TasksOf(j) # {}
  BY LocksAssumption DEF TasksOf, Contract!TasksOf
<1> QED BY <1>2, <1>3 DEF Contract!Start

(* A claim, an answer or a reclaimed lease gives results to open stores.    *)
LEMMA AnswerRefines ==
  ASSUME IndInv, NEW x \in Txns, Commit(x), kind[x] \notin {"stop", "finalize"}
  PROVE  Contract!Settle
<1>1. /\ Sound(x) /\ TypeOK /\ TablesAgree /\ TypeOK' /\ kind[x] \in Kinds
  BY CommitKeepsTables DEF Commit, IndInv, Sound, TypeOK
<1>2. jobStatus' = jobStatus
  <2>1. \A j \in Jobs : jobStatus'[j] = jobStatus[j]
    BY CommitWrites
  <2> QED BY <1>1, <2>1 DEF TypeOK
<1>3. ASSUME NEW t \in Tasks, ResultOf(t)' # ResultOf(t)
      PROVE  status[t] \in Open /\ status'[t] \in {"SUCCEEDED", "FAILED"}
  <2>1. locker[t] = x
    BY <1>3, CommitWrites DEF ResultOf
  <2>2. status[t] \in Open /\ status'[t] = Written(x, t)
    BY <2>1, CommitWrites
  <2> QED BY <1>1, <1>3, <2>2 DEF Written, ResultOf, Open, Kinds, Recordings
<1>4. \A t \in Tasks : ResultOf(t)' \in Contract!Results
  BY DEF ResultOf, Contract!Results
<1>5. ASSUME NEW t \in Tasks, ResultOf(t)' # ResultOf(t)
      PROVE  /\ ResultOf(t) = "open"
             /\ jobStatus[JobOf[t]] = "RUNNING"
             /\ ResultOf(t)' \in {"enriched", "failed"}
  <2>1. status[t] \in Open /\ status'[t] \in {"SUCCEEDED", "FAILED"}
    BY <1>3, <1>5
  <2>2. jobStatus[JobOf[t]] = "RUNNING"
    BY <1>1, <2>1 DEF TablesAgree
  <2> QED BY <2>1, <2>2 DEF ResultOf, Open
<1> QED BY <1>2, <1>4, <1>5 DEF Contract!Settle

LEMMA StopRefines ==
  ASSUME IndInv, NEW x \in Txns, Commit(x), kind[x] = "stop"
  PROVE  [Contract!ContractNext]_(Contract!contractVars)
<1> USE RowsDiffer
<1>1. /\ Sound(x) /\ TypeOK /\ TablesAgree /\ TypeOK' /\ todo[x] = {} /\ second[x]
  BY CommitKeepsTables DEF Commit, IndInv, Sound, TypeOK
<1>2. ASSUME NEW t \in Tasks
      PROVE  ResultOf(t)' = IF locker[JobOf[t]] = x /\ ResultOf(t) = "open"
                            THEN "aborted" ELSE ResultOf(t)
  <2>1. locker[t] = x => locker[JobOf[t]] = x /\ status'[t] = "ABORTED" /\ status[t] \in Open
    BY <1>1, CommitWrites DEF Sound, RowsHeld, Written
  <2>2. locker[JobOf[t]] = x /\ status[t] \in Open => locker[t] = x
    BY <1>1 DEF Sound, SnapshotsHold
  <2>3. ResultOf(t) = "open" <=> status[t] \in Open
    BY <1>1 DEF ResultOf, TypeOK, Open, Settled
  <2>4. locker[t] # x => ResultOf(t)' = ResultOf(t)
    BY CommitWrites DEF ResultOf
  <2>5. status'[t] = "ABORTED" => ResultOf(t)' = "aborted"
    BY DEF ResultOf
  <2> QED BY <2>1, <2>2, <2>3, <2>4, <2>5
<1>3. ASSUME NEW j \in Jobs, locker[j] = x
      PROVE  Contract!Stop(j)
  <2>1. jobStatus[j] = "RUNNING" /\ \A k \in Jobs : locker[k] = x <=> k = j
    BY <1>1, <1>3 DEF Sound, RowsHeld, TablesAgree
  <2>2. jobStatus' = [jobStatus EXCEPT ![j] = "FAILED_SYSTEMIC"]
    BY <1>1, <2>1, CommitWrites DEF TypeOK
  <2>3. \A t \in Tasks : ResultOf(t)' =
          IF JobOf[t] = j /\ ResultOf(t) = "open" THEN "aborted" ELSE ResultOf(t)
    BY <1>2, <2>1
  <2> QED BY <2>1, <2>2, <2>3 DEF Contract!Stop
<1>4. CASE \A j \in Jobs : locker[j] # x
  <2>1. jobStatus' = jobStatus
    BY <1>1, <1>4, CommitWrites DEF TypeOK
  <2>2. \A t \in Tasks : ResultOf(t)' = ResultOf(t)
    BY <1>2, <1>4
  <2> QED BY <2>1, <2>2 DEF Contract!contractVars
<1> QED BY <1>3, <1>4 DEF Contract!ContractNext

LEMMA CloseRefines ==
  ASSUME IndInv, NEW x \in Txns, Commit(x), kind[x] = "finalize"
  PROVE  [Contract!ContractNext]_(Contract!contractVars)
<1> USE RowsDiffer
<1>1. Sound(x) /\ TypeOK /\ TablesAgree /\ TypeOK'
  BY CommitKeepsTables DEF Commit, IndInv, Sound, TypeOK
<1>2. \A t \in Tasks : ResultOf(t)' = ResultOf(t)
  BY <1>1, CommitWrites DEF Sound, RowsHeld, ResultOf
<1>3. ASSUME NEW j \in Jobs, locker[j] = x
      PROVE  Contract!Close(j)
  <2>1. jobStatus[j] = "RUNNING" /\ \A k \in Jobs : locker[k] = x <=> k = j
    BY <1>1, <1>3 DEF Sound, RowsHeld, TablesAgree
  <2>2. jobStatus' = [jobStatus EXCEPT ![j] = ClosedAs(j)]
    BY <1>1, <2>1, CommitWrites DEF TypeOK
  <2>3. \A t \in TasksOf(j) :
          /\ ResultOf(t) \in {"absent", "enriched", "failed"}
          /\ status[t] \in {"FAILED", "ABORTED"} <=> ResultOf(t) = "failed"
    <3>1. ASSUME NEW t \in TasksOf(j)
          PROVE  status[t] \in {"ABSENT", "SUCCEEDED", "FAILED"}
      <4>1. t \in Tasks /\ JobOf[t] = j /\ status[t] \notin Open
        BY <1>1, <1>3, CommitWrites DEF TasksOf, Sound, SnapshotsHold
      <4>2. status[t] # "ABORTED"
        BY <1>1, <2>1, <4>1 DEF TablesAgree
      <4> QED BY <1>1, <4>1, <4>2 DEF TypeOK, Settled
    <3> QED BY <3>1 DEF ResultOf
  <2>4. ClosedAs(j) = IF \E t \in TasksOf(j) : ResultOf(t) = "failed"
                      THEN "COMPLETED_WITH_FAILURES" ELSE "COMPLETED"
    BY <2>3 DEF ClosedAs
  <2> QED BY <1>2, <2>1, <2>2, <2>3, <2>4 DEF Contract!Close, Contract!TasksOf, TasksOf
<1>4. CASE \A j \in Jobs : locker[j] # x
  <2>1. jobStatus' = jobStatus
    BY <1>1, <1>4, CommitWrites DEF TypeOK
  <2> QED BY <1>2, <2>1 DEF Contract!contractVars
<1> QED BY <1>3, <1>4 DEF Contract!ContractNext

LEMMA NextContract ==
  IndInv /\ [Next]_vars => [Contract!ContractNext]_(Contract!contractVars)
<1> SUFFICES ASSUME IndInv, [Next]_vars
             PROVE  [Contract!ContractNext]_(Contract!contractVars)
  OBVIOUS
<1>1. CASE UNCHANGED <<jobStatus, status>>
  BY <1>1 DEF ResultOf, Contract!contractVars
<1>2. ASSUME NEW j \in Jobs, StartJob(j) PROVE Contract!ContractNext
  BY <1>2, StartRefines DEF Contract!ContractNext
<1>3. ASSUME NEW x \in Txns, Commit(x)
      PROVE  [Contract!ContractNext]_(Contract!contractVars)
  BY <1>3, AnswerRefines, StopRefines, CloseRefines DEF Contract!ContractNext
<1>4. ASSUME NEW x \in Txns, BeginAny(x) \/ TxnStep(x), ~Commit(x)
      PROVE  UNCHANGED <<jobStatus, status>>
  <2>1. CASE BeginAny(x)
    BY <2>1 DEF BeginAny, BeginRecording, BeginReap, BeginClaim, BeginStop, BeginFinalize,
                Begin, tables
  <2>2. CASE TxnStep(x)
    BY <1>4, <2>2 DEF TxnStep, LockRow, PassRow, WaitForRow, AbandonTasks, BreakDeadlock, tables
  <2> QED BY <1>4, <2>1, <2>2
<1> QED BY <1>1, <1>2, <1>3, <1>4 DEF Next, vars

(* Committed, every transaction is one step of the contract, or changes     *)
(* nothing in it, whatever others committed between its snapshot and its    *)
(* locks.                                                                   *)
THEOREM Refinement == Spec => ImplementsContract
BY InitContract, NextContract, Invariance, PTL
DEF Spec, ImplementsContract, Contract!ContractSpec
=============================================================================
