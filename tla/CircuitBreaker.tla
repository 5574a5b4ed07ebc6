--------------------------- MODULE CircuitBreaker ---------------------------
(***************************************************************************)
(* enrichment/circuit-breaker.ts: the streak of failures one server        *)
(* process keeps, told of its loops' outcomes in the order they come in,   *)
(* on the process's clock.  The class keeps a summary, two times and a     *)
(* count; `log' is the history that summary stands for, and the properties *)
(* compare the verdicts with it.  The text of the last error is left out.  *)
(***************************************************************************)
EXTENDS Integers, Sequences, FiniteSets

CONSTANTS
  WindowMs,      (* BREAKER_WINDOW_MS                                       *)
  MinFailures,   (* BREAKER_MIN_FAILURES                                    *)
  MaxRecords,    (* bound: outcomes recorded                                *)
  MaxTime,       (* bound: the clock                                        *)
  Undefined      (* a time that is not set                                  *)

ASSUME OptionsAssumption == WindowMs \in Nat \ {0} /\ MinFailures \in Nat \ {0}
ASSUME BoundsAssumption == MaxRecords \in Nat /\ MaxTime \in Nat
ASSUME UndefinedAssumption == Undefined \notin Nat

VARIABLES
  now,               (* Date.now(), taken to be monotonic                   *)
  streakStartedAt,
  lastFailureAt,
  streakFailures,
  log                (* every call of record() with its verdict             *)

vars == <<now, streakStartedAt, lastFailureAt, streakFailures, log>>

Kinds == {"success", "rate_limited", "client_error", "unhealthy"}
Times == Nat \cup {Undefined}
Records == [kind : Kinds, at : Nat, tripped : BOOLEAN]

TypeOK ==
  /\ now \in Nat
  /\ streakStartedAt \in Times
  /\ lastFailureAt \in Times
  /\ streakFailures \in Nat
  /\ log \in Seq(Records)

Init ==
  /\ now = 0
  /\ streakStartedAt = Undefined
  /\ lastFailureAt = Undefined
  /\ streakFailures = 0
  /\ log = <<>>

(* Mutated form of Reset: the last failure is not forgotten.                *)
ResetKeepsLastFailure ==
  /\ streakStartedAt' = Undefined
  /\ streakFailures' = 0
  /\ UNCHANGED lastFailureAt

(* reset().                                                                 *)
Reset ==
  /\ streakStartedAt' = Undefined
  /\ lastFailureAt' = Undefined
  /\ streakFailures' = 0

Logged(kind, tripped) ==
  /\ Len(log) < MaxRecords
  /\ log' = Append(log, [kind |-> kind, at |-> now, tripped |-> tripped])
  /\ UNCHANGED now

-----------------------------------------------------------------------------
(* record(outcome), one action per branch.                                  *)

RecordSuccess ==
  /\ Reset
  /\ Logged("success", FALSE)

RecordIgnored ==
  /\ \E kind \in {"rate_limited", "client_error"} : Logged(kind, FALSE)
  /\ UNCHANGED <<streakStartedAt, lastFailureAt, streakFailures>>

(* Mutated forms of Stale: silence never ends a streak; the streak's age    *)
(* counts, not the quiet gap.                                               *)
StaleNever == FALSE
StaleByAge == streakStartedAt # Undefined /\ now - streakStartedAt > WindowMs

(* The quiet gap that ends a streak.                                        *)
Stale == lastFailureAt # Undefined /\ now - lastFailureAt > WindowMs

StartedAt == IF Stale \/ streakStartedAt = Undefined THEN now ELSE streakStartedAt
Failures  == IF Stale THEN 1 ELSE streakFailures + 1

(* Mutated form of Trips: long enough in calls or in time will do.          *)
TripsOnEither == now - StartedAt >= WindowMs \/ Failures >= MinFailures

Trips == now - StartedAt >= WindowMs /\ Failures >= MinFailures

CountFailure ==
  /\ ~Trips
  /\ streakStartedAt' = StartedAt
  /\ lastFailureAt' = now
  /\ streakFailures' = Failures
  /\ Logged("unhealthy", FALSE)

Trip ==
  /\ Trips
  /\ Reset
  /\ Logged("unhealthy", TRUE)

Tick ==
  /\ now < MaxTime
  /\ now' = now + 1
  /\ UNCHANGED <<streakStartedAt, lastFailureAt, streakFailures, log>>

Next == RecordSuccess \/ RecordIgnored \/ CountFailure \/ Trip \/ Tick

Spec == Init /\ [][Next]_vars
-----------------------------------------------------------------------------
(* What a verdict means, said of the history alone.                         *)

Unhealthy(i, n) == {k \in i..n : log[k].kind = "unhealthy"}

(* From record i to record n the API only failed: no success, no verdict    *)
(* already given, and never quiet for longer than the window.               *)
Unbroken(i, n) ==
  /\ \A k \in i..n : log[k].kind # "success"
  /\ \A k \in i..(n - 1) : ~log[k].tripped
  /\ \A k \in Unhealthy(i, n - 1) : \E m \in Unhealthy(k + 1, n) :
       log[m].at - log[k].at <= WindowMs

(* An outage: such a run of failures from i to n, long enough in time and   *)
(* in number.                                                               *)
Outage(i, n) ==
  /\ log[i].kind = "unhealthy" /\ log[n].kind = "unhealthy"
  /\ Unbroken(i, n)
  /\ log[n].at - log[i].at >= WindowMs
  /\ Cardinality(Unhealthy(i, n)) >= MinFailures

(* A job is stopped only for an outage: the breaker never trips on noise, on*)
(* one slow call, on failures either side of a quiet night, or twice for    *)
(* the same failures (circuit-breaker.ts:13-19, README "Circuit breaker").  *)
TripsOnlyOnOutage ==
  \A n \in 1..Len(log) : log[n].tripped => \E i \in 1..n : Outage(i, n)

(* And an outage never goes unnoticed: the two times and the count forget   *)
(* no failure that history still counts.                                    *)
TripsOnEveryOutage ==
  \A n \in 1..Len(log) : (\E i \in 1..n : Outage(i, n)) => log[n].tripped

(* What EnrichmentEngine assumes of a breaker: a verdict needs an earlier   *)
(* failure in the streak and MinFailures in all, and clears it; any other   *)
(* failure extends the streak or starts a new one.                          *)
EngineAssumption ==
  [][ log' # log /\ log'[Len(log')].kind = "unhealthy" =>
        IF log'[Len(log')].tripped
        THEN /\ streakFailures > 0
             /\ streakFailures + 1 >= MinFailures
             /\ streakFailures' = 0
        ELSE streakFailures' \in {1, streakFailures + 1} ]_vars

-----------------------------------------------------------------------------
(* The inductive invariant, first behind TripsOnlyOnOutage: the fields are  *)
(* what the history since some record i says.                               *)
Summarises(i) ==
  /\ log[i].kind = "unhealthy"
  /\ log[i].at = streakStartedAt
  /\ \A k \in i..Len(log) : log[k].kind # "success" /\ ~log[k].tripped
  /\ \E l \in Unhealthy(i, Len(log)) :
       /\ log[l].at = lastFailureAt
       /\ \A k \in Unhealthy(i, Len(log)) : k <= l
       /\ \A k \in Unhealthy(i, l - 1) : \E m \in Unhealthy(k + 1, l) :
            log[m].at - log[k].at <= WindowMs
  /\ streakFailures = Cardinality(Unhealthy(i, Len(log)))

SummaryInv ==
  /\ TypeOK
  /\ streakFailures = 0 => streakStartedAt = Undefined /\ lastFailureAt = Undefined
  /\ streakFailures # 0 => \E i \in 1..Len(log) : Summarises(i)
  /\ \A i \in 1..Len(log) : log[i].at <= now
  /\ TripsOnlyOnOutage

(* The other half: no failure that history still counts is forgotten.  A    *)
(* run that record i began goes on as long as nothing has cut it,           *)
Running(i) ==
  /\ log[i].kind = "unhealthy"
  /\ \A k \in i..Len(log) : log[k].kind # "success" /\ ~log[k].tripped
  /\ \A k \in Unhealthy(i, Len(log)) :
       Unhealthy(k + 1, Len(log)) # {} =>
         \E m \in Unhealthy(k + 1, Len(log)) : log[m].at - log[k].at <= WindowMs

(* and a run that goes on is within the streak of the fields.               *)
WithinStreak(i) ==
  /\ streakStartedAt \in Nat /\ streakStartedAt <= log[i].at
  /\ streakFailures >= Cardinality(Unhealthy(i, Len(log)))
  /\ \E l \in Unhealthy(i, Len(log)) :
       log[l].at = lastFailureAt /\ \A k \in Unhealthy(i, Len(log)) : k <= l

RunsAreCounted == \A i \in 1..Len(log) : Running(i) => WithinStreak(i)

(* The fields are the history's summary, sound and complete.                *)
IndInv == SummaryInv /\ RunsAreCounted /\ TripsOnEveryOutage
=============================================================================
