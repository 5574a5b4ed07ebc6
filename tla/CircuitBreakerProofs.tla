----------------------- MODULE CircuitBreakerProofs -----------------------
(***************************************************************************)
(* The breaker trips only on an outage, and on every one, for every        *)
(* window, threshold and history; and what EnrichmentEngine assumes of it. *)
(*                                                                         *)
(* The fields are a summary of the history: whenever a streak is running   *)
(* there is a record i where it began, and the start time, the last        *)
(* failure's time and the count are those of the failures since i          *)
(* (Summarises).  A trip appends one more failure to that run.  The other  *)
(* way, every run that nothing has cut yet began no earlier than the       *)
(* streak and has no more failures (WithinStreak), so that a failure that  *)
(* completes an outage finds the fields past both thresholds.              *)
(***************************************************************************)
EXTENDS CircuitBreaker, FiniteSetTheorems, TLAPS

LEMMA Appended ==
  ASSUME log \in Seq(Records), NEW r \in Records, log' = Append(log, r)
  PROVE  /\ Len(log) \in Nat
         /\ Len(log') = Len(log) + 1
         /\ \A k \in 1..Len(log) : log'[k] = log[k]
         /\ log'[Len(log) + 1] = r
         /\ log' \in Seq(Records)
OBVIOUS

(* The records between two positions are finitely many.                     *)
LEMMA UnhealthyFinite ==
  ASSUME NEW i \in Int, NEW n \in Int
  PROVE  /\ IsFiniteSet(Unhealthy(i, n))
         /\ Cardinality(Unhealthy(i, n)) \in Nat
<1>1. Unhealthy(i, n) \subseteq i..n
  BY DEF Unhealthy
<1>2. IsFiniteSet(i..n)
  BY FS_Interval
<1> QED BY <1>1, <1>2, FS_Subset, FS_CardinalityType

(* Appending a record changes nothing before it.                            *)
LEMMA OldUnhealthy ==
  ASSUME log \in Seq(Records), NEW r \in Records, log' = Append(log, r),
         NEW i \in Nat \ {0}, NEW n \in Int, n <= Len(log)
  PROVE  Unhealthy(i, n)' = Unhealthy(i, n)
<1>1. \A k \in i..n : log'[k] = log[k]
  BY Appended
<1> QED BY <1>1 DEF Unhealthy

LEMMA OldOutage ==
  ASSUME log \in Seq(Records), NEW r \in Records, log' = Append(log, r),
         NEW n \in 1..Len(log), NEW i \in 1..n, Outage(i, n)
  PROVE  Outage(i, n)'
<1>1. Len(log) \in Nat /\ \A k \in i..n : log'[k] = log[k]
  BY Appended
<1>2. \A k \in Nat \ {0}, m \in Int : m <= Len(log) => Unhealthy(k, m)' = Unhealthy(k, m)
  BY OldUnhealthy
<1>3. Unhealthy(i, n)' = Unhealthy(i, n) /\ Unhealthy(i, n - 1)' = Unhealthy(i, n - 1)
  BY <1>1, <1>2
<1>4. Unbroken(i, n)'
  <2>1. ASSUME NEW k \in Unhealthy(i, n - 1)
        PROVE  \E m \in Unhealthy(k + 1, n)' : log'[m].at - log'[k].at <= WindowMs
    <3>1. PICK m \in Unhealthy(k + 1, n) : log[m].at - log[k].at <= WindowMs
      BY DEF Outage, Unbroken
    <3>2. k \in i..n /\ k + 1 \in Nat \ {0} /\ m \in i..n
      BY <3>1, <1>1 DEF Unhealthy
    <3>3. m \in Unhealthy(k + 1, n)'
      BY <3>1, <3>2, <1>1, <1>2
    <3> QED BY <3>1, <3>2, <3>3, <1>1
  <2>2. \A k \in i..n : log'[k].kind # "success"
    BY <1>1 DEF Outage, Unbroken
  <2>3. \A k \in i..(n - 1) : ~log'[k].tripped
    BY <1>1 DEF Outage, Unbroken
  <2> QED BY <1>3, <2>1, <2>2, <2>3 DEF Unbroken
<1>5. log'[i] = log[i] /\ log'[n] = log[n]
  BY <1>1
<1> QED BY <1>3, <1>4, <1>5 DEF Outage

-----------------------------------------------------------------------------
(* Every reachable state is well typed.                                     *)
THEOREM TypeCorrect == Spec => []TypeOK
<1>1. Init => TypeOK
  BY DEF Init, TypeOK, Times
<1>2. TypeOK /\ [Next]_vars => TypeOK'
  <2> SUFFICES ASSUME TypeOK, [Next]_vars PROVE TypeOK'
    OBVIOUS
  <2> USE DEF TypeOK, Times
  <2>1. ASSUME NEW kind \in Kinds, NEW t \in BOOLEAN, Logged(kind, t)
        PROVE  log' \in Seq(Records) /\ now' \in Nat
    BY <2>1 DEF Logged, Records
  <2>2. Failures \in Nat /\ StartedAt \in Nat
    BY DEF Failures, StartedAt
  <2>3. CASE RecordSuccess
    BY <2>1, <2>3 DEF RecordSuccess, Reset, Kinds
  <2>4. CASE RecordIgnored
    BY <2>1, <2>4 DEF RecordIgnored, Kinds
  <2>5. CASE CountFailure
    BY <2>1, <2>2, <2>5 DEF CountFailure, Kinds
  <2>6. CASE Trip
    BY <2>1, <2>6 DEF Trip, Reset, Kinds
  <2>7. CASE Tick
    BY <2>7 DEF Tick
  <2>8. CASE UNCHANGED vars
    BY <2>8 DEF vars
  <2> QED BY <2>3, <2>4, <2>5, <2>6, <2>7, <2>8 DEF Next
<1> QED BY <1>1, <1>2, PTL DEF Spec

-----------------------------------------------------------------------------
(* A running streak has a time it began at.                                 *)
LEMMA StreakIsSet ==
  ASSUME SummaryInv
  PROVE  streakFailures = 0 <=> streakStartedAt = Undefined
<1> USE DEF SummaryInv, TypeOK
<1>1. ASSUME streakFailures # 0 PROVE streakStartedAt # Undefined
  <2>1. PICK i \in 1..Len(log) : Summarises(i)
    BY <1>1
  <2>2. log[i] \in Records
    BY <2>1
  <2> QED BY <2>1, <2>2, UndefinedAssumption DEF Summarises, Records
<1> QED BY <1>1

(* A failure that continues the streak i began extends its summary.         *)
LEMMA FailureExtends ==
  ASSUME SummaryInv, ~Stale, NEW i \in 1..Len(log), Summarises(i), NEW t \in BOOLEAN,
         log' = Append(log, [kind |-> "unhealthy", at |-> now, tripped |-> t]),
         NEW n \in Nat, n = Len(log) + 1
  PROVE  /\ n \in Unhealthy(i, n)'
         /\ Unhealthy(i, n)' = Unhealthy(i, n - 1) \cup {n}
         /\ Unhealthy(i, n - 1)' = Unhealthy(i, n - 1)
         /\ Cardinality(Unhealthy(i, n)') = streakFailures + 1
         /\ \A k \in Unhealthy(i, n - 1) : \E m \in Unhealthy(k + 1, n)' :
              log'[m].at - log'[k].at <= WindowMs
<1> USE DEF SummaryInv, TypeOK
<1> DEFINE r == [kind |-> "unhealthy", at |-> now, tripped |-> t]
<1>0. r \in Records
  BY DEF Records, Kinds
<1>1. /\ Len(log) \in Nat /\ \A k \in 1..Len(log) : log'[k] = log[k]
      /\ log'[n] = r
  BY <1>0, Appended
<1>2. n - 1 = Len(log) /\ i \in Nat \ {0} /\ i <= n - 1
  BY <1>1
<1>3. r.kind = "unhealthy" /\ r.at = now
  OBVIOUS
<1> HIDE DEF r
<1>4. \A k \in Nat \ {0}, m \in Int : m <= Len(log) => Unhealthy(k, m)' = Unhealthy(k, m)
  BY <1>0, OldUnhealthy DEF r
<1>5. Unhealthy(i, n - 1)' = Unhealthy(i, n - 1)
  BY <1>2, <1>4
<1>6. \A k \in 1..n : n \in Unhealthy(k, n)'
  BY <1>1, <1>2, <1>3 DEF Unhealthy
<1>7. Unhealthy(i, n)' = Unhealthy(i, n - 1)' \cup {n}
  <2>1. \A k : k \in i..n <=> k \in i..(n - 1) \/ k = n
    BY <1>2
  <2>2. n \in Unhealthy(i, n)'
    BY <1>2, <1>6
  <2> QED BY <2>1, <2>2 DEF Unhealthy
<1>8. Cardinality(Unhealthy(i, n)') = streakFailures + 1
  <2>1. n \notin Unhealthy(i, n - 1)
    BY <1>2 DEF Unhealthy
  <2>2. IsFiniteSet(Unhealthy(i, n - 1)) /\ Cardinality(Unhealthy(i, n - 1)) \in Nat
    BY <1>2, UnhealthyFinite
  <2>3. Cardinality(Unhealthy(i, n - 1) \cup {n}) = Cardinality(Unhealthy(i, n - 1)) + 1
    BY <2>1, <2>2, FS_AddElement
  <2> QED BY <1>2, <1>5, <1>7, <2>3 DEF Summarises
<1>9. ASSUME NEW k \in Unhealthy(i, n - 1)
      PROVE  \E m \in Unhealthy(k + 1, n)' : log'[m].at - log'[k].at <= WindowMs
  <2>1. PICK l \in Unhealthy(i, n - 1) :
          /\ log[l].at = lastFailureAt
          /\ \A j \in Unhealthy(i, n - 1) : j <= l
          /\ \A j \in Unhealthy(i, l - 1) : \E m \in Unhealthy(j + 1, l) :
               log[m].at - log[j].at <= WindowMs
    BY <1>2 DEF Summarises
  <2>2. /\ k \in i..(n - 1) /\ l \in i..(n - 1) /\ k <= l
        /\ log[k] \in Records /\ log[l] \in Records
        /\ log[k].kind = "unhealthy"
    BY <1>2, <2>1 DEF Unhealthy
  <2>3. log'[k] = log[k] /\ log'[l] = log[l]
    BY <1>1, <1>2, <2>2
  <2>4. CASE k = l
    <3>1. log[l].at \in Nat
      BY <2>2 DEF Records
    <3>2. now - lastFailureAt <= WindowMs
      BY <2>1, <3>1, UndefinedAssumption, OptionsAssumption DEF Stale
    <3>3. log'[n].at - log'[k].at <= WindowMs
      BY <1>1, <1>3, <2>1, <2>3, <2>4, <3>2
    <3>4. n \in Unhealthy(k + 1, n)'
      BY <1>2, <1>6, <2>2
    <3> QED BY <3>3, <3>4
  <2>5. CASE k < l
    <3>1. k \in Unhealthy(i, l - 1)
      BY <1>2, <2>2, <2>5 DEF Unhealthy
    <3>2. PICK m \in Unhealthy(k + 1, l) : log[m].at - log[k].at <= WindowMs
      BY <2>1, <3>1
    <3>3. m \in (k + 1)..l /\ log'[m] = log[m] /\ log[m].kind = "unhealthy"
      BY <1>1, <1>2, <2>2, <3>2 DEF Unhealthy
    <3>4. m \in Unhealthy(k + 1, n)'
      BY <1>2, <2>2, <3>3 DEF Unhealthy
    <3> QED BY <2>3, <3>2, <3>3, <3>4
  <2>6. k = l \/ k < l
    BY <1>2, <2>2
  <2> QED BY <2>4, <2>5, <2>6
<1> QED BY <1>2, <1>5, <1>6, <1>7, <1>8, <1>9

(* Records other than a trip leave the verdicts justified.                  *)
LEMMA UntrippedKeepsVerdicts ==
  ASSUME SummaryInv, NEW r \in Records, log' = Append(log, r), ~r.tripped
  PROVE  TripsOnlyOnOutage'
<1> USE DEF SummaryInv, TypeOK
<1>1. /\ Len(log) \in Nat /\ Len(log') = Len(log) + 1
      /\ \A k \in 1..Len(log) : log'[k] = log[k]
      /\ log'[Len(log) + 1] = r
  BY Appended
<1> SUFFICES ASSUME NEW n \in 1..Len(log'), log'[n].tripped
             PROVE  \E i \in 1..n : Outage(i, n)'
  BY DEF TripsOnlyOnOutage
<1>2. n \in 1..Len(log) /\ log[n].tripped
  BY <1>1
<1>3. PICK i \in 1..n : Outage(i, n)
  BY <1>2 DEF TripsOnlyOnOutage
<1>4. Outage(i, n)'
  BY <1>2, <1>3, OldOutage
<1> QED BY <1>4

(* The clock of a new record is the breaker's.                              *)
LEMMA RecordsAreOfThePast ==
  ASSUME SummaryInv, NEW r \in Records, log' = Append(log, r), r.at = now, now' = now
  PROVE  \A i \in 1..Len(log') : log'[i].at <= now'
<1> USE DEF SummaryInv, TypeOK
<1>1. /\ Len(log) \in Nat /\ Len(log') = Len(log) + 1
      /\ \A k \in 1..Len(log) : log'[k] = log[k]
      /\ log'[Len(log) + 1] = r
  BY Appended
<1> SUFFICES ASSUME NEW i \in 1..Len(log') PROVE log'[i].at <= now
  OBVIOUS
<1>2. CASE i \in 1..Len(log)
  BY <1>1, <1>2
<1>3. CASE i = Len(log) + 1
  BY <1>1, <1>3
<1> QED BY <1>1, <1>2, <1>3

LEMMA RecordSuccessInv ==
  ASSUME SummaryInv, TypeOK', RecordSuccess
  PROVE  SummaryInv'
<1> DEFINE r == [kind |-> "success", at |-> now, tripped |-> FALSE]
<1>1. /\ log' = Append(log, r) /\ now' = now /\ streakFailures' = 0
      /\ streakStartedAt' = Undefined /\ lastFailureAt' = Undefined
  BY DEF RecordSuccess, Reset, Logged
<1>2. r \in Records /\ r.at = now /\ ~r.tripped
  BY DEF SummaryInv, TypeOK, Records, Kinds
<1> HIDE DEF r
<1>3. TripsOnlyOnOutage'
  BY <1>1, <1>2, UntrippedKeepsVerdicts
<1>4. (\A i \in 1..Len(log) : log[i].at <= now)'
  BY <1>1, <1>2, RecordsAreOfThePast
<1> QED BY <1>1, <1>3, <1>4 DEF SummaryInv

LEMMA RecordIgnoredInv ==
  ASSUME SummaryInv, TypeOK', RecordIgnored
  PROVE  SummaryInv'
<1> USE DEF TypeOK
<1>1. PICK kind \in {"rate_limited", "client_error"} : Logged(kind, FALSE)
  BY DEF RecordIgnored
<1> DEFINE r == [kind |-> kind, at |-> now, tripped |-> FALSE]
<1>2. /\ log' = Append(log, r) /\ now' = now
      /\ UNCHANGED <<streakStartedAt, lastFailureAt, streakFailures>>
  BY <1>1 DEF RecordIgnored, Logged
<1>3. r \in Records /\ r.at = now /\ ~r.tripped /\ r.kind \notin {"unhealthy", "success"}
  BY DEF SummaryInv, Records, Kinds
<1> HIDE DEF r
<1>4. TripsOnlyOnOutage'
  BY <1>2, <1>3, UntrippedKeepsVerdicts
<1>5. (\A i \in 1..Len(log) : log[i].at <= now)'
  BY <1>2, <1>3, RecordsAreOfThePast
<1>6. ASSUME NEW i \in 1..Len(log), Summarises(i) PROVE Summarises(i)'
  <2>1. /\ Len(log) \in Nat /\ Len(log') = Len(log) + 1
        /\ \A k \in 1..Len(log) : log'[k] = log[k]
        /\ log'[Len(log) + 1] = r
    BY <1>2, <1>3, Appended DEF SummaryInv
  <2>2. \A k \in Nat \ {0}, m \in Int : m <= Len(log) => Unhealthy(k, m)' = Unhealthy(k, m)
    BY <1>2, <1>3, OldUnhealthy DEF SummaryInv
  <2>3. \A k : k \in i..Len(log') <=> k \in i..Len(log) \/ k = Len(log) + 1
    BY <2>1
  <2>4. Unhealthy(i, Len(log))' = Unhealthy(i, Len(log))
    <3>1. ASSUME NEW k
          PROVE  k \in Unhealthy(i, Len(log))' <=> k \in Unhealthy(i, Len(log))
      BY <2>1, <2>3, <1>3 DEF Unhealthy
    <3> QED BY <3>1
  <2>5. PICK l \in Unhealthy(i, Len(log)) :
          /\ log[l].at = lastFailureAt
          /\ \A k \in Unhealthy(i, Len(log)) : k <= l
          /\ \A k \in Unhealthy(i, l - 1) : \E m \in Unhealthy(k + 1, l) :
               log[m].at - log[k].at <= WindowMs
    BY <1>6 DEF Summarises
  <2>6. l \in 1..Len(log) /\ log'[l] = log[l] /\ l \in Int /\ i \in Nat \ {0}
    BY <2>1, <2>5 DEF Unhealthy
  <2>7. ASSUME NEW k \in Unhealthy(i, l - 1)'
        PROVE  \E m \in Unhealthy(k + 1, l)' : log'[m].at - log'[k].at <= WindowMs
    <3>1. k \in Unhealthy(i, l - 1) /\ k \in 1..Len(log) /\ k + 1 \in Nat \ {0}
      BY <2>1, <2>2, <2>6, <2>7 DEF Unhealthy
    <3>2. PICK m \in Unhealthy(k + 1, l) : log[m].at - log[k].at <= WindowMs
      BY <2>5, <3>1
    <3>3. m \in Unhealthy(k + 1, l)' /\ m \in 1..Len(log)
      BY <2>1, <2>2, <2>6, <3>1, <3>2 DEF Unhealthy
    <3> QED BY <2>1, <3>1, <3>2, <3>3
  <2>8. \E j \in Unhealthy(i, Len(log))' :
          /\ log'[j].at = lastFailureAt'
          /\ \A k \in Unhealthy(i, Len(log))' : k <= j
          /\ \A k \in Unhealthy(i, j - 1)' : \E m \in Unhealthy(k + 1, j)' :
               log'[m].at - log'[k].at <= WindowMs
    BY <1>2, <2>4, <2>5, <2>6, <2>7
  <2>9. \A k \in i..Len(log') : log'[k].kind # "success" /\ ~log'[k].tripped
    BY <1>3, <1>6, <2>1, <2>3 DEF Summarises
  <2>10. log'[i].kind = "unhealthy" /\ log'[i].at = streakStartedAt'
    BY <1>2, <1>6, <2>1 DEF Summarises
  <2>11. streakFailures' = Cardinality(Unhealthy(i, Len(log))')
    BY <1>2, <1>6, <2>4 DEF Summarises
  <2> QED BY <2>8, <2>9, <2>10, <2>11 DEF Summarises
<1>7. streakFailures' # 0 => \E i \in 1..Len(log') : Summarises(i)'
  <2> SUFFICES ASSUME streakFailures' # 0 PROVE \E i \in 1..Len(log') : Summarises(i)'
    OBVIOUS
  <2>1. PICK i \in 1..Len(log) : Summarises(i)
    BY <1>2 DEF SummaryInv
  <2>2. i \in 1..Len(log')
    BY <1>2, <1>3, <2>1, Appended DEF SummaryInv
  <2> QED BY <1>6, <2>1, <2>2
<1>8. streakFailures' = 0 => streakStartedAt' = Undefined /\ lastFailureAt' = Undefined
  BY <1>2 DEF SummaryInv
<1> QED BY <1>4, <1>5, <1>7, <1>8 DEF SummaryInv

LEMMA CountFailureInv ==
  ASSUME SummaryInv, TypeOK', CountFailure
  PROVE  SummaryInv'
<1> USE DEF TypeOK
<1> DEFINE r == [kind |-> "unhealthy", at |-> now, tripped |-> FALSE]
<1>1. /\ log' = Append(log, r) /\ now' = now /\ lastFailureAt' = now
      /\ streakStartedAt' = StartedAt /\ streakFailures' = Failures
  BY DEF CountFailure, Logged
<1>2. r \in Records /\ r.at = now /\ ~r.tripped /\ r.kind = "unhealthy"
  BY DEF SummaryInv, Records, Kinds
<1>3. TripsOnlyOnOutage'
  BY <1>1, <1>2, UntrippedKeepsVerdicts
<1>4. (\A i \in 1..Len(log) : log[i].at <= now)'
  BY <1>1, <1>2, RecordsAreOfThePast
<1>5. streakFailures' # 0
  BY <1>1 DEF Failures, SummaryInv
<1>6. PICK n \in Nat : n = Len(log) + 1
  BY DEF SummaryInv
<1>7. /\ Len(log) \in Nat /\ Len(log') = n
      /\ \A k \in 1..Len(log) : log'[k] = log[k]
      /\ log'[n] = r
  BY <1>1, <1>2, <1>6, Appended DEF SummaryInv
<1>8. \E i \in 1..Len(log') : Summarises(i)'
  <2>1. CASE Stale \/ streakStartedAt = Undefined
    <3>1. StartedAt = now /\ Failures = 1
      BY <2>1, StreakIsSet DEF StartedAt, Failures, SummaryInv
    <3>2. Unhealthy(n, n)' = {n} /\ Unhealthy(n, n - 1)' = {}
      BY <1>2, <1>6, <1>7 DEF Unhealthy
    <3>3. Cardinality({n}) = 1
      BY FS_Singleton
    <3>4. n \in 1..Len(log')
      BY <1>6, <1>7
    <3>5. \E j \in Unhealthy(n, Len(log))' :
            /\ log'[j].at = lastFailureAt'
            /\ \A k \in Unhealthy(n, Len(log))' : k <= j
            /\ \A k \in Unhealthy(n, j - 1)' : \E m \in Unhealthy(k + 1, j)' :
                 log'[m].at - log'[k].at <= WindowMs
      BY <1>1, <1>2, <1>6, <1>7, <3>2
    <3>6. \A k \in n..Len(log') : log'[k].kind # "success" /\ ~log'[k].tripped
      BY <1>2, <1>6, <1>7
    <3>7. streakFailures' = Cardinality(Unhealthy(n, Len(log))')
      BY <1>1, <1>7, <3>1, <3>2, <3>3
    <3>8. log'[n].kind = "unhealthy" /\ log'[n].at = streakStartedAt'
      BY <1>1, <1>2, <1>7, <3>1
    <3>9. Summarises(n)'
      BY <3>5, <3>6, <3>7, <3>8 DEF Summarises
    <3> QED BY <3>4, <3>9
  <2>2. CASE ~Stale /\ streakStartedAt # Undefined
    <3>1. StartedAt = streakStartedAt /\ Failures = streakFailures + 1 /\ streakFailures # 0
      BY <2>2, StreakIsSet DEF StartedAt, Failures
    <3>2. PICK i \in 1..Len(log) : Summarises(i)
      BY <3>1 DEF SummaryInv
    <3>3. /\ n \in Unhealthy(i, n)'
          /\ Unhealthy(i, n - 1)' = Unhealthy(i, n - 1)
          /\ Cardinality(Unhealthy(i, n)') = streakFailures + 1
          /\ \A k \in Unhealthy(i, n - 1) : \E m \in Unhealthy(k + 1, n)' :
               log'[m].at - log'[k].at <= WindowMs
      BY <1>1, <1>6, <2>2, <3>2, FailureExtends
    <3>4. \A k \in Unhealthy(i, n)' : k <= n
      BY <1>6, <1>7 DEF Unhealthy
    <3>5. \E j \in Unhealthy(i, Len(log))' :
            /\ log'[j].at = lastFailureAt'
            /\ \A k \in Unhealthy(i, Len(log))' : k <= j
            /\ \A k \in Unhealthy(i, j - 1)' : \E m \in Unhealthy(k + 1, j)' :
                 log'[m].at - log'[k].at <= WindowMs
      BY <1>1, <1>2, <1>7, <3>3, <3>4, ZenonT(30)
    <3>6. \A k \in i..Len(log') : log'[k].kind # "success" /\ ~log'[k].tripped
      <4>1. \A k \in i..n : k \in i..Len(log) \/ k = n
        BY <1>6, <1>7
      <4> QED BY <1>2, <1>7, <3>2, <4>1 DEF Summarises
    <3>7. streakFailures' = Cardinality(Unhealthy(i, Len(log))')
      BY <1>1, <1>7, <3>1, <3>3
    <3>8. log'[i].kind = "unhealthy" /\ log'[i].at = streakStartedAt'
      BY <1>1, <1>7, <3>1, <3>2 DEF Summarises
    <3>9. Summarises(i)'
      BY <3>5, <3>6, <3>7, <3>8 DEF Summarises
    <3>10. i \in 1..Len(log')
      BY <1>6, <1>7
    <3> QED BY <3>9, <3>10
  <2> QED BY <2>1, <2>2
<1> QED BY <1>3, <1>4, <1>5, <1>8 DEF SummaryInv

(* A trip ends a run of failures that is an outage.                         *)
LEMMA TripInv ==
  ASSUME SummaryInv, TypeOK', Trip
  PROVE  SummaryInv'
<1> USE DEF TypeOK
<1> DEFINE r == [kind |-> "unhealthy", at |-> now, tripped |-> TRUE]
<1>1. /\ log' = Append(log, r) /\ now' = now /\ streakFailures' = 0
      /\ streakStartedAt' = Undefined /\ lastFailureAt' = Undefined
  BY DEF Trip, Reset, Logged
<1>2. r \in Records /\ r.at = now /\ r.kind = "unhealthy"
  BY DEF SummaryInv, Records, Kinds
<1>3. (\A i \in 1..Len(log) : log[i].at <= now)'
  BY <1>1, <1>2, RecordsAreOfThePast
<1>4. PICK n \in Nat : n = Len(log) + 1
  BY DEF SummaryInv
<1>5. /\ Len(log) \in Nat /\ Len(log') = n
      /\ \A k \in 1..Len(log) : log'[k] = log[k]
      /\ log'[n] = r
  BY <1>1, <1>2, <1>4, Appended DEF SummaryInv
<1>6. /\ ~Stale /\ StartedAt = streakStartedAt /\ Failures = streakFailures + 1
      /\ streakFailures # 0
  BY StreakIsSet, OptionsAssumption DEF Trip, Trips, StartedAt, Failures, SummaryInv
<1>7. PICK i \in 1..Len(log) : Summarises(i)
  BY <1>6 DEF SummaryInv
<1>8. /\ n \in Unhealthy(i, n)'
      /\ Unhealthy(i, n - 1)' = Unhealthy(i, n - 1)
      /\ Cardinality(Unhealthy(i, n)') = streakFailures + 1
      /\ \A k \in Unhealthy(i, n - 1) : \E m \in Unhealthy(k + 1, n)' :
           log'[m].at - log'[k].at <= WindowMs
  BY <1>1, <1>4, <1>6, <1>7, FailureExtends
<1>9. Unbroken(i, n)'
  <2>1. \A k \in i..n : k \in i..Len(log) \/ k = n
    BY <1>4, <1>5
  <2>2. \A k \in i..n : log'[k].kind # "success"
    BY <1>2, <1>5, <1>7, <2>1 DEF Summarises
  <2>3. \A k \in i..(n - 1) : ~log'[k].tripped
    BY <1>4, <1>5, <1>7 DEF Summarises
  <2> QED BY <1>8, <2>2, <2>3 DEF Unbroken
<1>10. Outage(i, n)'
  <2>1. log'[i].kind = "unhealthy" /\ log'[n].kind = "unhealthy"
    BY <1>2, <1>5, <1>7 DEF Summarises
  <2>2. log'[n].at - log'[i].at >= WindowMs
    BY <1>2, <1>5, <1>6, <1>7 DEF Trip, Trips, Summarises
  <2>3. Cardinality(Unhealthy(i, n)') >= MinFailures
    BY <1>6, <1>8 DEF Trip, Trips
  <2> QED BY <1>9, <2>1, <2>2, <2>3 DEF Outage
<1>11. TripsOnlyOnOutage'
  <2> SUFFICES ASSUME NEW m \in 1..Len(log'), log'[m].tripped
               PROVE  \E k \in 1..m : Outage(k, m)'
    BY DEF TripsOnlyOnOutage
  <2>1. CASE m = n
    BY <1>4, <1>7, <1>10, <2>1
  <2>2. CASE m \in 1..Len(log)
    <3>1. log[m].tripped
      BY <1>5, <2>2
    <3>2. PICK k \in 1..m : Outage(k, m)
      BY <2>2, <3>1 DEF SummaryInv, TripsOnlyOnOutage
    <3>3. Outage(k, m)'
      BY <1>1, <1>2, <2>2, <3>2, OldOutage DEF SummaryInv
    <3> QED BY <3>3
  <2> QED BY <1>4, <1>5, <2>1, <2>2
<1> QED BY <1>1, <1>3, <1>11 DEF SummaryInv

LEMMA SilentInv ==
  ASSUME SummaryInv, TypeOK', Tick \/ UNCHANGED vars
  PROVE  SummaryInv'
<1>1. /\ UNCHANGED <<streakStartedAt, lastFailureAt, streakFailures, log>>
      /\ now' = now \/ now' = now + 1
  BY DEF Tick, vars
<1>2. TripsOnlyOnOutage'
  BY <1>1 DEF SummaryInv, TripsOnlyOnOutage, Outage, Unbroken, Unhealthy
<1>3. \A i : Summarises(i) => Summarises(i)'
  BY <1>1 DEF Summarises, Unhealthy
<1>4. \A i \in 1..Len(log') : log'[i].at <= now'
  <2>1. ASSUME NEW i \in 1..Len(log) PROVE log[i].at \in Nat
    <3>1. log[i] \in Records
      BY DEF SummaryInv, TypeOK
    <3> QED BY <3>1 DEF Records
  <2> QED BY <1>1, <2>1 DEF SummaryInv, TypeOK
<1> QED BY <1>1, <1>2, <1>3, <1>4 DEF SummaryInv

-----------------------------------------------------------------------------
(* The summary is exact, and every verdict given so far is justified.       *)
LEMMA SummaryHolds == Spec => []SummaryInv
<1>1. Init => SummaryInv
  BY DEF Init, SummaryInv, TypeOK, Times, TripsOnlyOnOutage
<1>2. TypeOK' /\ SummaryInv /\ [Next]_vars => SummaryInv'
  BY RecordSuccessInv, RecordIgnoredInv, CountFailureInv, TripInv, SilentInv DEF Next
<1> QED BY <1>1, <1>2, TypeCorrect, PTL DEF Spec

(* A job is stopped only for an outage.                                     *)
THEOREM NoFalseTrip == Spec => []TripsOnlyOnOutage
<1>1. SummaryInv => TripsOnlyOnOutage
  BY DEF SummaryInv
<1> QED BY <1>1, SummaryHolds, PTL

-----------------------------------------------------------------------------
(* The other half: what history still counts, the fields still count.       *)

(* What happened up to record n is not changed by appending.                *)
LEMMA WasOutage ==
  ASSUME log \in Seq(Records), NEW r \in Records, log' = Append(log, r),
         NEW n \in 1..Len(log), NEW i \in 1..n, Outage(i, n)'
  PROVE  Outage(i, n)
<1>1. Len(log) \in Nat /\ \A k \in i..n : log'[k] = log[k]
  BY Appended
<1>2. \A k \in Nat \ {0}, m \in Int : m <= Len(log) => Unhealthy(k, m)' = Unhealthy(k, m)
  BY OldUnhealthy
<1>3. Unhealthy(i, n)' = Unhealthy(i, n) /\ Unhealthy(i, n - 1)' = Unhealthy(i, n - 1)
  BY <1>1, <1>2
<1>4. Unbroken(i, n)
  <2>1. ASSUME NEW k \in Unhealthy(i, n - 1)
        PROVE  \E m \in Unhealthy(k + 1, n) : log[m].at - log[k].at <= WindowMs
    <3>1. PICK m \in Unhealthy(k + 1, n)' : log'[m].at - log'[k].at <= WindowMs
      BY <1>3 DEF Outage, Unbroken
    <3>2. k \in i..n /\ k + 1 \in Nat \ {0} /\ k + 1 >= i
      BY <1>1 DEF Unhealthy
    <3>3. m \in Unhealthy(k + 1, n)
      BY <3>1, <3>2, <1>1, <1>2
    <3>4. m \in i..n
      BY <3>2, <3>3, <1>1 DEF Unhealthy
    <3> QED BY <3>1, <3>2, <3>3, <3>4, <1>1
  <2>2. \A k \in i..n : log[k].kind # "success"
    BY <1>1 DEF Outage, Unbroken
  <2>3. \A k \in i..(n - 1) : ~log[k].tripped
    BY <1>1 DEF Outage, Unbroken
  <2> QED BY <2>1, <2>2, <2>3 DEF Unbroken
<1>5. log'[i] = log[i] /\ log'[n] = log[n]
  BY <1>1
<1> QED BY <1>3, <1>4, <1>5 DEF Outage

(* A success or a verdict is the end of every run.                          *)
LEMMA CutsEveryRun ==
  ASSUME log' \in Seq(Records), Len(log') # 0,
         log'[Len(log')].kind = "success" \/ log'[Len(log')].tripped
  PROVE  RunsAreCounted'
<1> SUFFICES ASSUME NEW i \in 1..Len(log') PROVE ~Running(i)'
  BY DEF RunsAreCounted
<1>1. Len(log') \in i..Len(log')
  OBVIOUS
<1> QED BY <1>1 DEF Running

(* A record that is no failure leaves every run as it was.                  *)
LEMMA IgnoredKeepsRuns ==
  ASSUME SummaryInv, RunsAreCounted, NEW r \in Records, log' = Append(log, r),
         r.kind \notin {"success", "unhealthy"}, ~r.tripped,
         UNCHANGED <<streakStartedAt, lastFailureAt, streakFailures>>
  PROVE  RunsAreCounted'
<1> USE DEF SummaryInv, TypeOK
<1>1. /\ Len(log) \in Nat /\ Len(log') = Len(log) + 1
      /\ \A k \in 1..Len(log) : log'[k] = log[k]
      /\ log'[Len(log) + 1] = r
  BY Appended
<1>2. ASSUME NEW k \in Nat \ {0}
      PROVE  Unhealthy(k, Len(log))' = Unhealthy(k, Len(log))
  <2>1. ASSUME NEW j
        PROVE  j \in k..Len(log') /\ log'[j].kind = "unhealthy"
                 <=> j \in k..Len(log) /\ log[j].kind = "unhealthy"
    BY <1>1
  <2> QED BY <2>1 DEF Unhealthy
<1> SUFFICES ASSUME NEW i \in 1..Len(log'), Running(i)' PROVE WithinStreak(i)'
  BY DEF RunsAreCounted
<1>3. i \in 1..Len(log) /\ i \in Nat \ {0}
  BY <1>1 DEF Running
<1>4. Unhealthy(i, Len(log))' = Unhealthy(i, Len(log))
  BY <1>2, <1>3
<1>5. ASSUME NEW k \in Unhealthy(i, Len(log))
      PROVE  k \in 1..Len(log) /\ Unhealthy(k + 1, Len(log))' = Unhealthy(k + 1, Len(log))
  <2>1. k \in 1..Len(log) /\ k + 1 \in Nat \ {0}
    BY <1>1, <1>3 DEF Unhealthy
  <2> QED BY <2>1, <1>2
<1>6. Running(i)
  <2>1. log[i].kind = "unhealthy"
    BY <1>1, <1>3 DEF Running
  <2>2. \A k \in i..Len(log) : log[k].kind # "success" /\ ~log[k].tripped
    BY <1>1, <1>3 DEF Running
  <2>3. ASSUME NEW k \in Unhealthy(i, Len(log)), Unhealthy(k + 1, Len(log)) # {}
        PROVE  \E m \in Unhealthy(k + 1, Len(log)) : log[m].at - log[k].at <= WindowMs
    <3>1. PICK m \in Unhealthy(k + 1, Len(log)) : log'[m].at - log'[k].at <= WindowMs
      BY <1>4, <1>5, <2>3 DEF Running
    <3>2. m \in 1..Len(log) /\ k \in 1..Len(log)
      BY <1>1, <1>5, <3>1 DEF Unhealthy
    <3> QED BY <1>1, <3>1, <3>2
  <2> QED BY <2>1, <2>2, <2>3 DEF Running
<1>7. WithinStreak(i)
  BY <1>3, <1>6 DEF RunsAreCounted
<1>8. PICK l \in Unhealthy(i, Len(log)) :
        log[l].at = lastFailureAt /\ \A k \in Unhealthy(i, Len(log)) : k <= l
  BY <1>7 DEF WithinStreak
<1>9. log'[l].at = lastFailureAt' /\ l \in Unhealthy(i, Len(log))'
  BY <1>1, <1>4, <1>5, <1>8
<1>10. streakStartedAt' \in Nat /\ streakStartedAt' <= log'[i].at
  BY <1>1, <1>3, <1>7 DEF WithinStreak
<1>11. streakFailures' >= Cardinality(Unhealthy(i, Len(log))')
  BY <1>4, <1>7 DEF WithinStreak
<1> QED BY <1>4, <1>8, <1>9, <1>10, <1>11 DEF WithinStreak

(* A failure that is no verdict goes on with every run it does not come too *)
(* late for, and is counted with it.                                        *)
LEMMA FailureIsCounted ==
  ASSUME SummaryInv, RunsAreCounted, CountFailure
  PROVE  RunsAreCounted'
<1> USE DEF SummaryInv, TypeOK
<1> DEFINE r == [kind |-> "unhealthy", at |-> now, tripped |-> FALSE]
<1>1. /\ log' = Append(log, r) /\ lastFailureAt' = now
      /\ streakStartedAt' = StartedAt /\ streakFailures' = Failures
  BY DEF CountFailure, Logged
<1>2. r \in Records /\ r.at = now /\ r.kind = "unhealthy"
  BY DEF Records, Kinds
<1> HIDE DEF r
<1>3. PICK n \in Nat : n = Len(log) + 1
  OBVIOUS
<1>4. /\ Len(log) \in Nat /\ Len(log') = n
      /\ \A k \in 1..Len(log) : log'[k] = log[k]
      /\ log'[n] = r
  BY <1>1, <1>2, <1>3, Appended
<1>5. ASSUME NEW k \in 1..n
      PROVE  Unhealthy(k, n)' = Unhealthy(k, Len(log)) \cup {n}
  <2>1. ASSUME NEW j
        PROVE  j \in k..n /\ log'[j].kind = "unhealthy"
                 <=> (j \in k..Len(log) /\ log[j].kind = "unhealthy") \/ j = n
    BY <1>2, <1>3, <1>4
  <2> QED BY <2>1 DEF Unhealthy
<1>6. ASSUME NEW k \in Int PROVE n \notin Unhealthy(k, Len(log))
  BY <1>3 DEF Unhealthy
<1>7. StartedAt \in Nat /\ StartedAt <= now /\ Failures >= 1
  <2>1. \/ streakStartedAt = Undefined
        \/ streakStartedAt \in Nat /\ streakStartedAt <= now
    <3>1. CASE streakFailures # 0
      <4>1. PICK i \in 1..Len(log) : Summarises(i)
        BY <3>1
      <4>2. log[i] \in Records
        OBVIOUS
      <4>3. log[i].at <= now /\ log[i].at \in Nat
        BY <4>2 DEF Records
      <4> QED BY <4>1, <4>3 DEF Summarises
    <3>2. CASE streakFailures = 0
      BY <3>2
    <3> QED BY <3>1, <3>2
  <2> QED BY <2>1 DEF StartedAt, Failures
<1> SUFFICES ASSUME NEW i \in 1..n, Running(i)' PROVE WithinStreak(i)'
  BY <1>4 DEF RunsAreCounted
<1>8. \E l \in Unhealthy(i, Len(log))' :
        log'[l].at = lastFailureAt' /\ \A k \in Unhealthy(i, Len(log))' : k <= l
  <2>1. n \in Unhealthy(i, n)'
    BY <1>5
  <2>2. \A k \in Unhealthy(i, n)' : k <= n
    BY <1>3, <1>4 DEF Unhealthy
  <2>3. log'[n].at = lastFailureAt'
    BY <1>1, <1>2, <1>4
  <2> QED BY <1>4, <2>1, <2>2, <2>3
<1>9. CASE i = n
  <2>1. Unhealthy(n, Len(log)) = {}
    BY <1>3 DEF Unhealthy
  <2>2. Unhealthy(i, Len(log))' = {n}
    BY <1>4, <1>5, <1>9, <2>1
  <2>3. Cardinality({n}) = 1
    BY FS_Singleton
  <2>4. streakStartedAt' \in Nat /\ streakStartedAt' <= log'[i].at
    BY <1>1, <1>2, <1>4, <1>7, <1>9
  <2>5. streakFailures' >= Cardinality(Unhealthy(i, Len(log))')
    BY <1>1, <1>7, <2>2, <2>3
  <2> QED BY <1>8, <2>4, <2>5 DEF WithinStreak
<1>10. CASE i \in 1..Len(log)
  <2>1. Running(i)
    <3>1. log[i].kind = "unhealthy"
      BY <1>4, <1>10 DEF Running
    <3>2. \A k \in i..Len(log) : log[k].kind # "success" /\ ~log[k].tripped
      BY <1>3, <1>4, <1>10 DEF Running
    <3>3. ASSUME NEW k \in Unhealthy(i, Len(log)), Unhealthy(k + 1, Len(log)) # {}
          PROVE  \E m \in Unhealthy(k + 1, Len(log)) : log[m].at - log[k].at <= WindowMs
      <4>1. k \in 1..Len(log) /\ k + 1 \in 1..n /\ k \in Unhealthy(i, n)'
        BY <1>3, <1>5, <3>3 DEF Unhealthy
      <4>2. Unhealthy(k + 1, n)' = Unhealthy(k + 1, Len(log)) \cup {n}
        BY <1>5, <4>1
      <4>3. PICK m \in Unhealthy(k + 1, n)' : log'[m].at - log'[k].at <= WindowMs
        BY <1>4, <4>1, <4>2 DEF Running
      <4>4. CASE m \in Unhealthy(k + 1, Len(log))
        <5>1. m \in 1..Len(log)
          BY <1>4, <4>1, <4>4 DEF Unhealthy
        <5> QED BY <1>4, <4>1, <4>3, <4>4, <5>1
      <4>5. CASE m = n
        <5>1. PICK j \in Unhealthy(k + 1, Len(log)) : TRUE
          BY <3>3
        <5>2. j \in 1..Len(log)
          BY <1>4, <4>1, <5>1 DEF Unhealthy
        <5>3. log[j] \in Records /\ log[k] \in Records /\ log[j].at <= now
          BY <4>1, <5>2
        <5>4. now - log[k].at <= WindowMs
          BY <1>2, <1>4, <4>1, <4>3, <4>5
        <5>5. log[j].at - log[k].at <= WindowMs
          BY <5>3, <5>4, OptionsAssumption DEF Records
        <5> QED BY <5>1, <5>5
      <4> QED BY <4>2, <4>3, <4>4, <4>5
    <3> QED BY <3>1, <3>2, <3>3 DEF Running
  <2>2. WithinStreak(i)
    BY <1>10, <2>1 DEF RunsAreCounted
  <2>3. PICK l \in Unhealthy(i, Len(log)) :
          log[l].at = lastFailureAt /\ \A k \in Unhealthy(i, Len(log)) : k <= l
    BY <2>2 DEF WithinStreak
  <2>4. ~Stale
    <3>1. l \in 1..Len(log) /\ l + 1 \in 1..n /\ l \in Unhealthy(i, n)'
      BY <1>3, <1>5, <2>3 DEF Unhealthy
    <3>2. Unhealthy(l + 1, Len(log)) = {}
      <4>1. ASSUME NEW k \in Unhealthy(l + 1, Len(log)) PROVE FALSE
        <5>1. k \in Unhealthy(i, Len(log)) /\ k > l
          BY <1>3, <1>10, <2>3, <3>1 DEF Unhealthy
        <5>2. k \in Int /\ l \in Int
          BY <1>3, <3>1, <5>1 DEF Unhealthy
        <5> QED BY <2>3, <5>1, <5>2
      <4> QED BY <4>1
    <3>3. Unhealthy(l + 1, n)' = {n}
      BY <1>5, <3>1, <3>2
    <3>4. log'[n].at - log'[l].at <= WindowMs
      BY <1>4, <3>1, <3>3 DEF Running
    <3>5. log[l] \in Records
      BY <3>1
    <3>6. log[l].at \in Nat
      BY <3>5 DEF Records
    <3> QED BY <1>2, <1>4, <2>3, <3>1, <3>4, <3>6, OptionsAssumption DEF Stale
  <2>5. StartedAt = streakStartedAt /\ Failures = streakFailures + 1
    BY <2>2, <2>4, UndefinedAssumption DEF StartedAt, Failures, WithinStreak
  <2>6. Cardinality(Unhealthy(i, n)') = Cardinality(Unhealthy(i, Len(log))) + 1
    <3> DEFINE S == Unhealthy(i, Len(log))
    <3>1. IsFiniteSet(S)
      BY <1>4, UnhealthyFinite
    <3>2. n \notin S
      BY <1>6
    <3> HIDE DEF S
    <3>3. Cardinality(S \cup {n}) = Cardinality(S) + 1
      BY <3>1, <3>2, FS_AddElement
    <3> QED BY <1>5, <3>3 DEF S
  <2>7. streakStartedAt' \in Nat /\ streakStartedAt' <= log'[i].at
    BY <1>1, <1>4, <1>10, <2>2, <2>5 DEF WithinStreak
  <2>8. Cardinality(Unhealthy(i, Len(log))) \in Nat
    BY <1>4, UnhealthyFinite
  <2>9. streakFailures' >= Cardinality(Unhealthy(i, Len(log))')
    BY <1>1, <1>4, <2>2, <2>5, <2>6, <2>8 DEF WithinStreak
  <2> QED BY <1>8, <2>7, <2>9 DEF WithinStreak
<1> QED BY <1>3, <1>4, <1>9, <1>10

LEMMA RunsStep ==
  ASSUME SummaryInv, RunsAreCounted, [Next]_vars
  PROVE  RunsAreCounted'
<1> USE DEF SummaryInv, TypeOK
<1>1. ASSUME NEW kind \in Kinds, NEW t \in BOOLEAN, Logged(kind, t)
      PROVE  \E r \in Records : /\ log' = Append(log, r) /\ log' \in Seq(Records)
                                /\ Len(log') # 0 /\ log'[Len(log')] = r
                                /\ r.kind = kind /\ r.tripped = t
  <2> DEFINE r == [kind |-> kind, at |-> now, tripped |-> t]
  <2>1. r \in Records /\ r.kind = kind /\ r.tripped = t
    BY DEF Records
  <2>2. log' = Append(log, r)
    BY <1>1 DEF Logged
  <2> HIDE DEF r
  <2>3. log'[Len(log')] = r /\ log' \in Seq(Records) /\ Len(log') # 0
    BY <2>1, <2>2, Appended
  <2> QED BY <2>1, <2>2, <2>3
<1>2. CASE RecordSuccess
  BY <1>1, <1>2, CutsEveryRun DEF RecordSuccess, Kinds
<1>3. CASE RecordIgnored
  <2>1. PICK kind \in {"rate_limited", "client_error"} : Logged(kind, FALSE)
    BY <1>3 DEF RecordIgnored
  <2>2. PICK r \in Records : log' = Append(log, r) /\ r.kind = kind /\ ~r.tripped
    BY <1>1, <2>1 DEF Kinds
  <2>3. UNCHANGED <<streakStartedAt, lastFailureAt, streakFailures>>
    BY <1>3 DEF RecordIgnored
  <2>4. r.kind \notin {"success", "unhealthy"}
    BY <2>1, <2>2
  <2> QED BY <2>2, <2>3, <2>4, IgnoredKeepsRuns
<1>4. CASE CountFailure
  BY <1>4, FailureIsCounted
<1>5. CASE Trip
  BY <1>1, <1>5, CutsEveryRun DEF Trip, Kinds
<1>6. CASE Tick \/ UNCHANGED vars
  <2>1. UNCHANGED <<streakStartedAt, lastFailureAt, streakFailures, log>>
    BY <1>6 DEF Tick, vars
  <2>2. \A i : Running(i)' <=> Running(i)
    BY <2>1 DEF Running, Unhealthy
  <2>3. \A i : WithinStreak(i)' <=> WithinStreak(i)
    BY <2>1 DEF WithinStreak, Unhealthy
  <2> QED BY <2>1, <2>2, <2>3 DEF RunsAreCounted
<1> QED BY <1>2, <1>3, <1>4, <1>5, <1>6 DEF Next

(* A failure that is counted and is no verdict is no outage: the fields     *)
(* would have said so.                                                      *)
LEMMA CountedIsNoOutage ==
  ASSUME SummaryInv, RunsAreCounted, CountFailure, NEW i \in 1..Len(log')
  PROVE  ~Outage(i, Len(log))'
<1> SUFFICES ASSUME Outage(i, Len(log))' PROVE FALSE
  OBVIOUS
<1> USE DEF SummaryInv, TypeOK
<1> DEFINE r == [kind |-> "unhealthy", at |-> now, tripped |-> FALSE]
<1>1. /\ log' = Append(log, r) /\ ~Trips
      /\ streakStartedAt' = StartedAt /\ streakFailures' = Failures
  BY DEF CountFailure, Logged
<1>2. r \in Records /\ r.at = now /\ r.kind = "unhealthy" /\ ~r.tripped
  BY DEF Records, Kinds
<1> HIDE DEF r
<1>3. PICK n \in Nat : n = Len(log) + 1
  OBVIOUS
<1>4. Len(log') = n /\ log'[n] = r /\ log' \in Seq(Records)
  BY <1>1, <1>2, <1>3, Appended
<1>5. Running(i)'
  <2>1. log'[i].kind = "unhealthy"
    BY <1>4 DEF Outage
  <2>2. \A k \in i..n : log'[k].kind # "success" /\ ~log'[k].tripped
    <3>1. \A k \in i..n : k \in i..(n - 1) \/ k = n
      BY <1>3, <1>4
    <3> QED BY <1>2, <1>4, <3>1 DEF Outage, Unbroken
  <2>3. ASSUME NEW k \in Unhealthy(i, n)', Unhealthy(k + 1, n)' # {}
        PROVE  \E m \in Unhealthy(k + 1, n)' : log'[m].at - log'[k].at <= WindowMs
    <3>1. k \in Unhealthy(i, n - 1)'
      BY <1>3, <1>4, <2>3 DEF Unhealthy
    <3> QED BY <1>4, <3>1 DEF Outage, Unbroken
  <2> QED BY <1>4, <2>1, <2>2, <2>3 DEF Running
<1>6. RunsAreCounted'
  BY FailureIsCounted
<1>7. WithinStreak(i)'
  BY <1>5, <1>6 DEF RunsAreCounted
<1>8. log'[i].at \in Nat
  <2>1. log'[i] \in Records
    BY <1>4
  <2> QED BY <2>1 DEF Records
<1>9. now - StartedAt >= WindowMs
  <2>1. StartedAt \in Nat /\ StartedAt <= log'[i].at
    BY <1>1, <1>7 DEF WithinStreak
  <2>2. now - log'[i].at >= WindowMs
    BY <1>2, <1>4 DEF Outage
  <2> QED BY <1>8, <2>1, <2>2, OptionsAssumption
<1>10. Failures >= MinFailures
  <2>1. Failures >= Cardinality(Unhealthy(i, n)')
    BY <1>1, <1>4, <1>7 DEF WithinStreak
  <2>2. Cardinality(Unhealthy(i, n)') >= MinFailures
    BY <1>4 DEF Outage
  <2>3. Cardinality(Unhealthy(i, n)') \in Nat
    <3>1. Unhealthy(i, n)' \subseteq i..n
      BY DEF Unhealthy
    <3>2. IsFiniteSet(i..n)
      BY <1>4, FS_Interval
    <3> QED BY <3>1, <3>2, FS_Subset, FS_CardinalityType
  <2>4. Failures \in Nat
    BY DEF Failures
  <2> QED BY <2>1, <2>2, <2>3, <2>4, OptionsAssumption
<1> QED BY <1>1, <1>9, <1>10 DEF Trips

LEMMA NoticedStep ==
  ASSUME SummaryInv, RunsAreCounted, TripsOnEveryOutage, [Next]_vars
  PROVE  TripsOnEveryOutage'
<1> USE DEF SummaryInv, TypeOK
<1>1. ASSUME NEW kind \in Kinds, NEW t \in BOOLEAN, Logged(kind, t),
             \A i \in 1..Len(log') : Outage(i, Len(log))' => t
      PROVE  TripsOnEveryOutage'
  <2> DEFINE r == [kind |-> kind, at |-> now, tripped |-> t]
  <2>1. r \in Records /\ r.tripped = t
    BY DEF Records
  <2>2. log' = Append(log, r)
    BY <1>1 DEF Logged
  <2> HIDE DEF r
  <2>3. /\ Len(log) \in Nat /\ Len(log') = Len(log) + 1
        /\ \A k \in 1..Len(log) : log'[k] = log[k]
        /\ log'[Len(log')] = r
    BY <2>1, <2>2, Appended
  <2> SUFFICES ASSUME NEW n \in 1..Len(log'), NEW i \in 1..n, Outage(i, n)'
               PROVE  log'[n].tripped
    BY DEF TripsOnEveryOutage
  <2>4. CASE n \in 1..Len(log)
    <3>1. Outage(i, n)
      BY <2>1, <2>2, <2>4, WasOutage
    <3> QED BY <2>3, <2>4, <3>1 DEF TripsOnEveryOutage
  <2>5. CASE n = Len(log')
    BY <1>1, <2>1, <2>3, <2>5
  <2> QED BY <2>3, <2>4, <2>5
<1>2. ASSUME NEW kind \in Kinds, NEW t \in BOOLEAN, Logged(kind, t)
      PROVE  log'[Len(log')].kind = kind
  <2> DEFINE r == [kind |-> kind, at |-> now, tripped |-> t]
  <2>1. r \in Records /\ r.kind = kind
    BY DEF Records
  <2>2. log' = Append(log, r)
    BY <1>2 DEF Logged
  <2> HIDE DEF r
  <2>3. log'[Len(log')] = r
    BY <2>1, <2>2, Appended
  <2> QED BY <2>1, <2>3
<1>3. CASE RecordSuccess
  <2>1. Logged("success", FALSE) /\ "success" \in Kinds
    BY <1>3 DEF RecordSuccess, Kinds
  <2>2. \A i \in 1..Len(log') : ~Outage(i, Len(log))'
    BY <1>2, <2>1 DEF Outage
  <2> QED BY <1>1, <2>1, <2>2
<1>4. CASE RecordIgnored
  <2>1. PICK kind \in {"rate_limited", "client_error"} : Logged(kind, FALSE)
    BY <1>4 DEF RecordIgnored
  <2>2. kind \in Kinds
    BY DEF Kinds
  <2>3. \A i \in 1..Len(log') : ~Outage(i, Len(log))'
    BY <1>2, <2>1, <2>2 DEF Outage
  <2> QED BY <1>1, <2>1, <2>2, <2>3
<1>5. CASE CountFailure
  <2>1. Logged("unhealthy", FALSE) /\ "unhealthy" \in Kinds
    BY <1>5 DEF CountFailure, Kinds
  <2>2. \A i \in 1..Len(log') : ~Outage(i, Len(log))'
    BY <1>5, CountedIsNoOutage
  <2> QED BY <1>1, <2>1, <2>2
<1>6. CASE Trip
  <2>1. Logged("unhealthy", TRUE) /\ "unhealthy" \in Kinds
    BY <1>6 DEF Trip, Kinds
  <2> QED BY <1>1, <2>1
<1>7. CASE Tick \/ UNCHANGED vars
  BY <1>7 DEF Tick, vars, TripsOnEveryOutage, Outage, Unbroken, Unhealthy
<1> QED BY <1>3, <1>4, <1>5, <1>6, <1>7 DEF Next

(* The summary is exact, sound and complete: at every moment the two times  *)
(* and the count are those of a run of failures in the history, and every   *)
(* run still going on is within them.                                       *)
THEOREM Invariance == Spec => []IndInv
<1>1. Init => RunsAreCounted /\ TripsOnEveryOutage
  BY DEF Init, RunsAreCounted, TripsOnEveryOutage
<1>2. SummaryInv /\ RunsAreCounted /\ TripsOnEveryOutage /\ [Next]_vars
        => RunsAreCounted' /\ TripsOnEveryOutage'
  BY RunsStep, NoticedStep
<1> QED BY <1>1, <1>2, SummaryHolds, PTL DEF Spec, IndInv

(* An outage never goes unnoticed: the record that completes one is a       *)
(* verdict, whatever else was recorded before it and at whatever times.     *)
THEOREM NoMissedOutage == Spec => []TripsOnEveryOutage
<1>1. IndInv => TripsOnEveryOutage
  BY DEF IndInv
<1> QED BY <1>1, Invariance, PTL

(* The breaker that EnrichmentEngine models is an abstraction of this one.  *)
THEOREM EngineAbstractsBreaker == Spec => EngineAssumption
<1>1. SummaryInv /\ [Next]_vars =>
        [ log' # log /\ log'[Len(log')].kind = "unhealthy" =>
            IF log'[Len(log')].tripped
            THEN /\ streakFailures > 0
                 /\ streakFailures + 1 >= MinFailures
                 /\ streakFailures' = 0
            ELSE streakFailures' \in {1, streakFailures + 1} ]_vars
  <2> SUFFICES ASSUME SummaryInv, Next, log' # log, log'[Len(log')].kind = "unhealthy"
               PROVE  IF log'[Len(log')].tripped
                      THEN /\ streakFailures > 0
                           /\ streakFailures + 1 >= MinFailures
                           /\ streakFailures' = 0
                      ELSE streakFailures' \in {1, streakFailures + 1}
    OBVIOUS
  <2> USE DEF SummaryInv, TypeOK
  <2>1. ASSUME NEW kind \in Kinds, NEW t \in BOOLEAN, Logged(kind, t)
        PROVE  log'[Len(log')].kind = kind /\ log'[Len(log')].tripped = t
    <3> DEFINE r == [kind |-> kind, at |-> now, tripped |-> t]
    <3>1. r \in Records /\ r.kind = kind /\ r.tripped = t
      BY DEF Records
    <3>2. log' = Append(log, r)
      BY <2>1 DEF Logged
    <3> HIDE DEF r
    <3>3. log'[Len(log')] = r
      BY <3>1, <3>2, Appended
    <3> QED BY <3>1, <3>3
  <2>2. CASE RecordSuccess
    BY <2>1, <2>2 DEF RecordSuccess, Kinds
  <2>3. CASE RecordIgnored
    BY <2>1, <2>3 DEF RecordIgnored, Kinds
  <2>4. CASE CountFailure
    BY <2>1, <2>4 DEF CountFailure, Failures, Kinds
  <2>5. CASE Trip
    <3>1. /\ log'[Len(log')].tripped = TRUE /\ streakFailures' = 0
      BY <2>1, <2>5 DEF Trip, Reset, Kinds
    <3>2. Failures = streakFailures + 1 /\ streakFailures # 0
      BY <2>5, StreakIsSet, OptionsAssumption DEF Trip, Trips, StartedAt, Failures
    <3> QED BY <2>5, <3>1, <3>2 DEF Trip, Trips
  <2>6. CASE Tick
    BY <2>6 DEF Tick
  <2> QED BY <2>2, <2>3, <2>4, <2>5, <2>6 DEF Next
<1> QED BY <1>1, SummaryHolds, PTL DEF Spec, EngineAssumption
=============================================================================
