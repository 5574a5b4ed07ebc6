------------------------- MODULE RateLimiterProofs -------------------------
(***************************************************************************)
(* The rate limiter's schedule, for any number of loops, any interval and  *)
(* pause, and any bounded number of faults and losses of the key.          *)
(*                                                                         *)
(* All results but type correctness rest on KeyOutlivesBacklog, the        *)
(* condition on the configuration that rate-limiter.ts leaves implicit.    *)
(* The argument is an accounting of the backlog: the next free slot is     *)
(* ahead of any later time by no more than the waiting loops and the       *)
(* faults explain (BacklogAccounted).  So the key is never ahead of its    *)
(* own expiry, so a reservation never starts from a forgotten schedule, so *)
(* slots stay apart.                                                       *)
(***************************************************************************)
EXTENDS RateLimiter, FiniteSetTheorems, TLAPS

(* Products by the interval: the only nonlinear facts needed.               *)
LEMMA TimesMonotone ==
  ASSUME NEW i \in Nat, NEW a \in Nat, NEW b \in Nat, a <= b
  PROVE  i * a \in Nat /\ i * a <= i * b
<1>1. i * (b - a) >= 0
  OBVIOUS
<1> QED BY <1>1

LEMMA TimesSuccessor ==
  ASSUME NEW i \in Nat, NEW a \in Nat
  PROVE  i * (a + 1) = i * a + i
OBVIOUS

(* A set of loops is finite, and no larger than the loops are many.         *)
LEMMA LoopsCounted ==
  ASSUME NEW S, S \subseteq Callers
  PROVE  /\ IsFiniteSet(S)
         /\ Cardinality(S) \in Nat
         /\ Cardinality(Callers) \in Nat
         /\ Cardinality(S) <= Cardinality(Callers)
BY CallersAssumption, FS_Subset, FS_CardinalityType

LEMMA OneFewer ==
  ASSUME NEW S, IsFiniteSet(S), NEW c
  PROVE  Cardinality(S \ {c}) >= Cardinality(S) - 1
<1>1. Cardinality(S) \in Nat
  BY FS_CardinalityType
<1>2. Cardinality(S \ {c}) = IF c \in S THEN Cardinality(S) - 1 ELSE Cardinality(S)
  BY FS_RemoveElement
<1> QED BY <1>1, <1>2

LEMMA WaitingAreLoops ==
  \A x : WaitingBeyond(x) \subseteq Callers /\ WaitingBeyond(x)' \subseteq Callers
BY DEF WaitingBeyond

LEMMA BacklogIsNat == Backlog \in Nat
<1>1. Cardinality(Callers) \in Nat
  BY CallersAssumption, FS_CardinalityType
<1>2. Interval * (Cardinality(Callers) + MaxFaults) \in Nat
  BY <1>1, TimesAssumption, BoundsAssumption, TimesMonotone
<1>3. Later(Interval, PauseMs) \in Nat
  BY TimesAssumption DEF Later
<1> QED BY <1>2, <1>3 DEF Backlog

-----------------------------------------------------------------------------
(* Every reachable state is well typed.                                     *)
THEOREM TypeCorrect == Spec => []TypeOK
<1>1. Init => TypeOK
  BY BoundsAssumption DEF Init, TypeOK
<1>2. TypeOK /\ [Next]_vars => TypeOK'
  <2> SUFFICES ASSUME TypeOK, [Next]_vars PROVE TypeOK'
    OBVIOUS
  <2> USE TimesAssumption, BoundsAssumption DEF TypeOK
  <2>1. NextFree \in Nat /\ FreeSlot \in Nat
    BY DEF NextFree, FreeSlot, Later
  <2>2. ASSUME NEW c \in Callers, Reserve(c) PROVE TypeOK'
    BY <2>1, <2>2 DEF Reserve, ReserveScript
  <2>3. ASSUME NEW c \in Callers, ReserveUnanswered(c) PROVE TypeOK'
    BY <2>1, <2>3 DEF ReserveUnanswered, ReserveScript
  <2>4. ASSUME NEW c \in Callers, Wake(c) PROVE TypeOK'
    <3>1. calls' \in Seq(Calls)
      <4>1. CASE calls' = Append(calls, [at |-> now, slot |-> slot[c]])
        <5>1. [at |-> now, slot |-> slot[c]] \in Calls
          BY DEF Calls
        <5> QED BY <4>1, <5>1
      <4>2. CASE UNCHANGED calls
        BY <4>2
      <4> QED BY <2>4, <4>1, <4>2 DEF Wake
    <3>2. pc' \in [Callers -> {"idle", "waiting", "calling"}] /\ slot' \in [Callers -> Nat]
      BY <2>4 DEF Wake
    <3> QED BY <2>4, <3>1, <3>2 DEF Wake
  <2>5. ASSUME NEW c \in Callers, Answer(c) PROVE TypeOK'
    BY <2>5 DEF Answer
  <2>6. ASSUME NEW c \in Callers, AnswerRateLimited(c) PROVE TypeOK'
    BY <2>1, <2>6 DEF AnswerRateLimited, PauseScript, Later
  <2>7. ASSUME NEW c \in Callers, Crash(c) PROVE TypeOK'
    BY <2>7 DEF Crash
  <2>8. CASE LoseKey
    BY <2>8 DEF LoseKey
  <2>9. CASE Tick
    BY <2>9 DEF Tick
  <2>10. CASE UNCHANGED vars
    BY <2>10 DEF vars
  <2> QED
    BY <2>2, <2>3, <2>4, <2>5, <2>6, <2>7, <2>8, <2>9, <2>10 DEF Next, CallerStep
<1> QED BY <1>1, <1>2, PTL DEF Spec

-----------------------------------------------------------------------------
(* What the invariant says of any later time, not just of those before the  *)
(* key's value.                                                             *)
LEMMA AccountedEver ==
  ASSUME TypeOK, BacklogAccounted, NEW x \in Nat, x >= now
  PROVE  Accounted(x)
<1> USE TimesAssumption DEF TypeOK
<1>1. CASE x <= key
  BY <1>1 DEF BacklogAccounted
<1>2. CASE x > key
  <2>1. Interval * (Cardinality(WaitingBeyond(x)) + faults) \in Nat
    <3>1. Cardinality(WaitingBeyond(x)) + faults \in Nat
      BY WaitingAreLoops, LoopsCounted, BoundsAssumption, SMTT(30)
    <3> QED BY <3>1, TimesMonotone
  <2>2. /\ Later(x + Interval, pausedUntil) >= x + Interval
        /\ Later(x + Interval, pausedUntil) \in Nat
    BY DEF Later
  <2> QED BY <1>2, <2>1, <2>2 DEF Accounted
<1> QED BY <1>1, <1>2

(* A key that is accounted for is ahead of the clock n by the backlog at    *)
(* most.                                                                    *)
LEMMA WithinBacklog ==
  ASSUME NEW k \in Nat, NEW n \in Nat, NEW until \in Nat, until <= n + PauseMs,
         NEW waiting \in Nat, waiting <= Cardinality(Callers),
         NEW f \in 0..MaxFaults,
         k <= Later(n + Interval, until) + Interval * (waiting + f)
  PROVE  k <= n + Backlog
<1> USE TimesAssumption, BoundsAssumption
<1> DEFINE loops == Cardinality(Callers)
<1>1. loops \in Nat
  BY CallersAssumption, FS_CardinalityType
<1>2. Backlog = Later(Interval, PauseMs) + Interval * (loops + MaxFaults)
  BY DEF Backlog
<1> HIDE DEF loops
<1>3. waiting + f \in Nat /\ loops + MaxFaults \in Nat /\ waiting + f <= loops + MaxFaults
  BY <1>1 DEF loops
<1>4. Interval * (waiting + f) \in Nat
      /\ Interval * (waiting + f) <= Interval * (loops + MaxFaults)
      /\ Interval * (loops + MaxFaults) \in Nat
  BY <1>3, TimesMonotone
<1>5. Later(n + Interval, until) <= n + Later(Interval, PauseMs)
      /\ Later(n + Interval, until) \in Nat /\ Later(Interval, PauseMs) \in Nat
  BY DEF Later
<1> QED BY <1>2, <1>4, <1>5

(* A reservation never starts before the schedule it forgot: an expired key *)
(* is a key of the past.                                                    *)
LEMMA FreeSlotIsFree ==
  ASSUME TypeOK, KeyOutlivesSchedule
  PROVE  /\ FreeSlot \in Nat
         /\ FreeSlot >= now /\ FreeSlot >= key
         /\ FreeSlot = now \/ FreeSlot = key
BY DEF TypeOK, KeyOutlivesSchedule, FreeSlot, NextFree, Later

-----------------------------------------------------------------------------
(* RESERVE_SCRIPT keeps slots apart and stays ahead of them.                *)
LEMMA ReserveKeepsSpacing ==
  ASSUME ScheduleInv, ReserveScript, UNCHANGED <<now, pausedUntil>>, TypeOK'
  PROVE  /\ SlotsSpaced'
         /\ \A i \in 1..Len(granted') : granted'[i] + Interval <= key'
         /\ key <= key' /\ FreeSlot + Interval = key'
         /\ pausedUntil' <= key' /\ pausedUntil' <= now' + PauseMs
<1> USE TimesAssumption DEF ScheduleInv, TypeOK
<1>1. FreeSlot \in Nat /\ FreeSlot >= now /\ FreeSlot >= key
  BY FreeSlotIsFree
<1>2. key' = FreeSlot + Interval /\ granted' = Append(granted, FreeSlot)
  BY DEF ReserveScript
<1>3. \A i \in 1..Len(granted) : granted[i] \in Nat /\ granted[i] + Interval <= FreeSlot
  BY <1>1, SMTT(30) DEF KeyIsAheadOfSchedule
<1>4. /\ Len(granted') = Len(granted) + 1
      /\ \A i \in 1..Len(granted) : granted'[i] = granted[i]
      /\ granted'[Len(granted')] = FreeSlot
  BY <1>1, <1>2
<1>5. \A i \in 1..Len(granted') : i \in 1..Len(granted) \/ i = Len(granted')
  BY <1>4
<1>6. \A i \in 1..Len(granted') : granted'[i] + Interval <= key'
  BY <1>1, <1>2, <1>3, <1>4, <1>5, SMTT(30)
<1>7. SlotsSpaced'
  <2> SUFFICES ASSUME NEW i \in 1..Len(granted'), NEW k \in 1..Len(granted'), i < k
               PROVE  granted'[i] + Interval <= granted'[k]
    BY DEF SlotsSpaced
  <2>1. i \in 1..Len(granted)
    BY <1>4
  <2>2. CASE k = Len(granted')
    BY <2>1, <2>2, <1>3, <1>4
  <2>3. CASE k \in 1..Len(granted)
    BY <2>1, <2>3, <1>4 DEF SlotsSpaced
  <2> QED BY <2>2, <2>3, <1>5
<1> QED BY <1>1, <1>2, <1>6, <1>7 DEF KeyIsAheadOfSchedule

(* A reservation moves the key by one interval and accounts for it: by the  *)
(* loop that now waits, or by a fault.                                      *)
LEMMA ReserveAccounted ==
  ASSUME ScheduleInv, ReserveScript, UNCHANGED <<now, pausedUntil>>, TypeOK',
         NEW x \in Nat, x >= now,
         FreeSlot > x =>
           Cardinality(WaitingBeyond(x)') + faults' = Cardinality(WaitingBeyond(x)) + faults + 1
  PROVE  Accounted(x)'
<1> USE TimesAssumption DEF ScheduleInv, TypeOK
<1> DEFINE before == Cardinality(WaitingBeyond(x)) + faults
           after == Cardinality(WaitingBeyond(x)') + faults'
<1>1. FreeSlot \in Nat /\ (FreeSlot = now \/ FreeSlot = key) /\ key' = FreeSlot + Interval
  BY FreeSlotIsFree DEF ReserveScript
<1>2. before \in Nat
  <2>1. Cardinality(WaitingBeyond(x)) \in Nat
    BY WaitingAreLoops, LoopsCounted
  <2> QED BY <2>1, BoundsAssumption
<1>3. after \in Nat
  <2>1. Cardinality(WaitingBeyond(x)') \in Nat
    BY WaitingAreLoops, LoopsCounted
  <2> QED BY <2>1, BoundsAssumption
<1>4. Later(x + Interval, pausedUntil) \in Nat /\ Later(x + Interval, pausedUntil) >= x + Interval
  BY DEF Later
<1>5. Accounted(x)' <=> key' <= Later(x + Interval, pausedUntil) + Interval * after
  BY DEF Accounted
<1>6. CASE FreeSlot <= x
  <2>1. Interval * after \in Nat
    BY <1>3, TimesMonotone
  <2>2. key' <= x + Interval
    BY <1>1, <1>6
  <2> HIDE DEF after
  <2> QED BY <2>1, <2>2, <1>1, <1>4, <1>5
<1>7. CASE FreeSlot > x
  <2>1. FreeSlot = key
    BY <1>1, <1>7
  <2>2. after = before + 1
    BY <1>7, <1>1 DEF WaitingBeyond
  <2>3. key <= Later(x + Interval, pausedUntil) + Interval * before
    BY AccountedEver DEF Accounted
  <2>4. Interval * (before + 1) = Interval * before + Interval /\ Interval * before \in Nat
    BY <1>2, TimesSuccessor, TimesMonotone
  <2> HIDE DEF before, after
  <2>5. Interval * after = Interval * before + Interval
    BY <2>2, <2>4
  <2> QED BY <2>1, <2>3, <2>4, <2>5, <1>1, <1>4, <1>5
<1> QED BY <1>1, <1>6, <1>7

(* What a script leaves behind outlives itself.                             *)
LEMMA WrittenKeyOutlives ==
  ASSUME KeyOutlivesBacklog, TypeOK', Accounted(now)', (pausedUntil <= now + PauseMs)',
         keyExpires' = now' + KeyTtl
  PROVE  KeyOutlivesSchedule'
<1> DEFINE waiting == Cardinality(WaitingBeyond(now)')
<1>1. waiting \in Nat /\ waiting <= Cardinality(Callers)
  BY WaitingAreLoops, LoopsCounted
<1>2. key' <= Later(now' + Interval, pausedUntil') + Interval * (waiting + faults')
  BY DEF Accounted
<1>3. /\ key' \in Nat /\ now' \in Nat /\ pausedUntil' \in Nat /\ faults' \in 0..MaxFaults
      /\ pausedUntil' <= now' + PauseMs
  BY DEF TypeOK
<1> HIDE DEF waiting
<1>4. key' <= now' + Backlog
  BY <1>1, <1>2, <1>3, WithinBacklog
<1>5. Backlog <= KeyTtl /\ Backlog \in Nat /\ KeyTtl \in Nat
  BY BacklogIsNat, TimesAssumption DEF KeyOutlivesBacklog
<1>6. \A k, n, b, ttl \in Nat : k <= n + b /\ b <= ttl => k <= n + ttl
  OBVIOUS
<1>7. key' <= now' + KeyTtl
  BY <1>3, <1>4, <1>5, <1>6, Zenon
<1> QED BY <1>7 DEF KeyOutlivesSchedule

(* Steps that leave the key alone lose no account of it: whoever stops      *)
(* waiting for a slot after x is a fault.                                   *)
LEMMA AccountKept ==
  ASSUME TypeOK, TypeOK', BacklogAccounted, now' >= now, UNCHANGED <<key, pausedUntil>>,
         \A x \in Nat : x >= now =>
           Cardinality(WaitingBeyond(x)) + faults <= Cardinality(WaitingBeyond(x)') + faults'
  PROVE  BacklogAccounted'
<1> USE TimesAssumption, BoundsAssumption
<1> SUFFICES ASSUME NEW x \in now'..key' PROVE Accounted(x)'
  BY DEF BacklogAccounted
<1>1. x \in Nat /\ x >= now /\ faults \in Nat /\ faults' \in Nat /\ key \in Nat /\ pausedUntil \in Nat
  BY DEF TypeOK
<1> DEFINE before == Cardinality(WaitingBeyond(x)) + faults
           after == Cardinality(WaitingBeyond(x)') + faults'
<1>2. Cardinality(WaitingBeyond(x)) \in Nat /\ Cardinality(WaitingBeyond(x)') \in Nat
  BY WaitingAreLoops, LoopsCounted
<1>3. before \in Nat /\ after \in Nat /\ before <= after
  BY <1>1, <1>2
<1>4. key <= Later(x + Interval, pausedUntil) + Interval * before
  BY <1>1, AccountedEver DEF Accounted
<1>5. Accounted(x)' <=> key <= Later(x + Interval, pausedUntil) + Interval * after
  BY DEF Accounted
<1> HIDE DEF before, after
<1>6. Interval * before \in Nat /\ Interval * after \in Nat /\ Interval * before <= Interval * after
  BY <1>3, TimesMonotone
<1>7. Later(x + Interval, pausedUntil) \in Nat
  BY <1>1 DEF Later
<1> QED BY <1>1, <1>4, <1>5, <1>6, <1>7

-----------------------------------------------------------------------------
(* One lemma per operation.                                                 *)

LEMMA ReserveInv ==
  ASSUME KeyOutlivesBacklog, ScheduleInv, TypeOK', NEW c \in Callers, Reserve(c)
  PROVE  ScheduleInv'
<1> USE TimesAssumption, BoundsAssumption
<1>1. ReserveScript /\ UNCHANGED <<now, pausedUntil>>
  BY DEF Reserve
<1>2. ASSUME NEW x \in Nat, FreeSlot > x
      PROVE  Cardinality(WaitingBeyond(x)') + faults' = Cardinality(WaitingBeyond(x)) + faults + 1
  <2>1. WaitingBeyond(x)' = WaitingBeyond(x) \cup {c} /\ c \notin WaitingBeyond(x)
    BY <1>2 DEF Reserve, WaitingBeyond, ScheduleInv, TypeOK
  <2>2. IsFiniteSet(WaitingBeyond(x)) /\ Cardinality(WaitingBeyond(x)) \in Nat
    BY WaitingAreLoops, LoopsCounted
  <2>3. Cardinality(WaitingBeyond(x)') = Cardinality(WaitingBeyond(x)) + 1
    BY <2>1, <2>2, FS_AddElement
  <2>4. faults' = faults /\ faults \in Nat
    BY DEF Reserve, ScheduleInv, TypeOK
  <2> QED BY <2>2, <2>3, <2>4
<1>3. \A x \in Nat : x >= now => Accounted(x)'
  BY <1>1, <1>2, ReserveAccounted
<1>4. KeyIsAheadOfSchedule' /\ SlotsSpaced'
  <2>1. /\ SlotsSpaced'
        /\ \A i \in 1..Len(granted') : granted'[i] + Interval <= key'
        /\ key <= key' /\ FreeSlot + Interval = key'
        /\ pausedUntil' <= key' /\ pausedUntil' <= now' + PauseMs
    BY <1>1, ReserveKeepsSpacing
  <2>2. ASSUME losses' = 0, NEW d \in Callers, pc'[d] = "waiting"
        PROVE  slot'[d] + Interval <= key'
    <3>1. CASE d = c
      BY <3>1, <2>1 DEF Reserve, ScheduleInv, TypeOK
    <3>2. CASE d # c
      BY <3>2, <2>1, <2>2 DEF Reserve, ScheduleInv, TypeOK, KeyIsAheadOfSchedule
    <3> QED BY <3>1, <3>2
  <2> QED BY <2>1, <2>2 DEF KeyIsAheadOfSchedule
<1>5. now' = now /\ now \in Nat /\ keyExpires' = now' + KeyTtl /\ key' \in Nat
  BY <1>1 DEF ReserveScript, ScheduleInv, TypeOK
<1>6. Accounted(now)'
  BY <1>3, <1>5 DEF Accounted, WaitingBeyond
<1>7. KeyOutlivesSchedule'
  BY <1>4, <1>5, <1>6, WrittenKeyOutlives DEF KeyIsAheadOfSchedule
<1>8. BacklogAccounted'
  BY <1>3, <1>5 DEF BacklogAccounted
<1> QED BY <1>4, <1>7, <1>8 DEF ScheduleInv

LEMMA ReserveUnansweredInv ==
  ASSUME KeyOutlivesBacklog, ScheduleInv, TypeOK', NEW c \in Callers, ReserveUnanswered(c)
  PROVE  ScheduleInv'
<1> USE TimesAssumption, BoundsAssumption
<1>1. ReserveScript /\ UNCHANGED <<now, pausedUntil>>
  BY DEF ReserveUnanswered
<1>2. ASSUME NEW x \in Nat
      PROVE  Cardinality(WaitingBeyond(x)') + faults' = Cardinality(WaitingBeyond(x)) + faults + 1
  <2>1. WaitingBeyond(x)' = WaitingBeyond(x) /\ faults' = faults + 1 /\ faults \in Nat
    BY DEF ReserveUnanswered, WaitingBeyond, ScheduleInv, TypeOK
  <2>2. Cardinality(WaitingBeyond(x)) \in Nat
    BY WaitingAreLoops, LoopsCounted
  <2> QED BY <2>1, <2>2
<1>3. \A x \in Nat : x >= now => Accounted(x)'
  BY <1>1, <1>2, ReserveAccounted
<1>4. KeyIsAheadOfSchedule' /\ SlotsSpaced'
  <2>1. /\ SlotsSpaced'
        /\ \A i \in 1..Len(granted') : granted'[i] + Interval <= key'
        /\ key <= key' /\ FreeSlot + Interval = key'
        /\ pausedUntil' <= key' /\ pausedUntil' <= now' + PauseMs
    BY <1>1, ReserveKeepsSpacing
  <2>2. ASSUME losses' = 0, NEW d \in Callers, pc'[d] = "waiting"
        PROVE  slot'[d] + Interval <= key'
    BY <2>1, <2>2 DEF ReserveUnanswered, ScheduleInv, TypeOK, KeyIsAheadOfSchedule
  <2> QED BY <2>1, <2>2 DEF KeyIsAheadOfSchedule
<1>5. now' = now /\ now \in Nat /\ keyExpires' = now' + KeyTtl /\ key' \in Nat
  BY <1>1 DEF ReserveScript, ScheduleInv, TypeOK
<1>6. Accounted(now)'
  BY <1>3, <1>5 DEF Accounted, WaitingBeyond
<1>7. KeyOutlivesSchedule'
  BY <1>4, <1>5, <1>6, WrittenKeyOutlives DEF KeyIsAheadOfSchedule
<1>8. BacklogAccounted'
  BY <1>3, <1>5 DEF BacklogAccounted
<1> QED BY <1>4, <1>7, <1>8 DEF ScheduleInv

LEMMA AnswerRateLimitedInv ==
  ASSUME KeyOutlivesBacklog, ScheduleInv, TypeOK', NEW c \in Callers, AnswerRateLimited(c)
  PROVE  ScheduleInv'
<1> USE TimesAssumption, BoundsAssumption
<1>1. /\ now' = now /\ now \in Nat /\ key \in Nat /\ key' \in Nat
      /\ keyExpires' = now' + KeyTtl
      /\ key' >= now + PauseMs
      /\ key' = now + PauseMs \/ key' <= key
      /\ pausedUntil \in Nat /\ pausedUntil' \in Nat
      /\ pausedUntil' >= now + PauseMs /\ pausedUntil' >= pausedUntil
      /\ pausedUntil' <= now + PauseMs
  BY DEF AnswerRateLimited, PauseScript, NextFree, Later, ScheduleInv, TypeOK, KeyIsAheadOfSchedule
<1>2. key <= key'
  BY DEF AnswerRateLimited, PauseScript, NextFree, Later, ScheduleInv, TypeOK, KeyOutlivesSchedule
<1>3. \A x : WaitingBeyond(x)' = WaitingBeyond(x)
  BY DEF AnswerRateLimited, WaitingBeyond, ScheduleInv, TypeOK
<1>4. ASSUME NEW x \in Nat, x >= now PROVE Accounted(x)'
  <2> DEFINE debt == Interval * (Cardinality(WaitingBeyond(x)) + faults)
  <2>1. debt \in Nat
    <3>1. Cardinality(WaitingBeyond(x)) \in Nat
      BY WaitingAreLoops, LoopsCounted
    <3> QED BY <3>1, TimesMonotone, SMTT(30) DEF ScheduleInv, TypeOK
  <2>2. key <= Later(x + Interval, pausedUntil) + debt
    BY <1>4, AccountedEver DEF Accounted, ScheduleInv
  <2>3. Accounted(x)' <=> key' <= Later(x + Interval, pausedUntil') + debt
    BY <1>3 DEF Accounted, AnswerRateLimited
  <2>4. Later(x + Interval, pausedUntil) <= Later(x + Interval, pausedUntil')
        /\ pausedUntil' <= Later(x + Interval, pausedUntil')
        /\ Later(x + Interval, pausedUntil) \in Nat /\ Later(x + Interval, pausedUntil') \in Nat
    BY <1>1 DEF Later
  <2> HIDE DEF debt
  <2> QED BY <1>1, <2>1, <2>2, <2>3, <2>4
<1>5. KeyIsAheadOfSchedule' /\ SlotsSpaced'
  BY <1>1, <1>2
     DEF AnswerRateLimited, ScheduleInv, TypeOK, KeyIsAheadOfSchedule, SlotsSpaced
<1>6. Accounted(now)'
  BY <1>4, <1>1 DEF Accounted, WaitingBeyond
<1>7. KeyOutlivesSchedule'
  BY <1>1, <1>5, <1>6, WrittenKeyOutlives DEF KeyIsAheadOfSchedule
<1>8. BacklogAccounted'
  BY <1>1, <1>4 DEF BacklogAccounted
<1> QED BY <1>5, <1>7, <1>8 DEF ScheduleInv

(* The steps without a script.                                              *)
LEMMA UnscriptedInv ==
  ASSUME ScheduleInv, TypeOK',
         \/ \E c \in Callers : Wake(c) \/ Answer(c) \/ Crash(c)
         \/ Tick
         \/ UNCHANGED vars
  PROVE  ScheduleInv'
<1> USE TimesAssumption, BoundsAssumption DEF ScheduleInv, TypeOK
<1>1. /\ UNCHANGED <<key, keyExpires, granted, pausedUntil, losses>>
      /\ now' >= now
      /\ \A d \in Callers : pc'[d] = "waiting" => pc[d] = "waiting" /\ slot'[d] = slot[d]
  <2>1. CASE \E c \in Callers : Wake(c)
    BY <2>1 DEF Wake
  <2>2. CASE (\E c \in Callers : Answer(c) \/ Crash(c)) \/ Tick \/ UNCHANGED vars
    BY <2>2 DEF Answer, Crash, Tick, vars
  <2> QED BY <2>1, <2>2
<1>2. \A x \in Nat : x >= now =>
        Cardinality(WaitingBeyond(x)) + faults <= Cardinality(WaitingBeyond(x)') + faults'
  <2> SUFFICES ASSUME NEW x \in Nat, x >= now
               PROVE  Cardinality(WaitingBeyond(x)) + faults
                        <= Cardinality(WaitingBeyond(x)') + faults'
    OBVIOUS
  <2>1. /\ IsFiniteSet(WaitingBeyond(x)) /\ Cardinality(WaitingBeyond(x)) \in Nat
        /\ IsFiniteSet(WaitingBeyond(x)') /\ Cardinality(WaitingBeyond(x)') \in Nat
    BY WaitingAreLoops, LoopsCounted
  <2>2. ASSUME NEW c \in Callers, Wake(c) \/ Answer(c)
        PROVE  WaitingBeyond(x)' = WaitingBeyond(x) /\ faults' = faults
    <3>1. CASE Wake(c)
      <4>1. c \notin WaitingBeyond(x) /\ c \notin WaitingBeyond(x)'
        BY <3>1 DEF Wake, WaitingBeyond
      <4>2. \A d \in Callers \ {c} : d \in WaitingBeyond(x) <=> d \in WaitingBeyond(x)'
        BY <3>1 DEF Wake, WaitingBeyond
      <4>3. WaitingBeyond(x)' = WaitingBeyond(x)
        <5>1. \A d : d \in WaitingBeyond(x)' <=> d \in WaitingBeyond(x)
          BY <4>1, <4>2, WaitingAreLoops, Zenon
        <5> QED BY <5>1
      <4> QED BY <3>1, <4>3 DEF Wake
    <3>2. CASE Answer(c)
      BY <3>2 DEF Answer, WaitingBeyond
    <3> QED BY <2>2, <3>1, <3>2
  <2>3. ASSUME NEW c \in Callers, Crash(c)
        PROVE  Cardinality(WaitingBeyond(x)) + faults
                 <= Cardinality(WaitingBeyond(x)') + faults'
    <3>1. WaitingBeyond(x)' = WaitingBeyond(x) \ {c} /\ faults' = faults + 1
      BY <2>3 DEF Crash, WaitingBeyond
    <3>2. Cardinality(WaitingBeyond(x) \ {c}) >= Cardinality(WaitingBeyond(x)) - 1
      BY <2>1, OneFewer
    <3> QED BY <2>1, <3>1, <3>2, SMTT(30)
  <2>4. CASE Tick \/ UNCHANGED vars
    <3>1. WaitingBeyond(x)' = WaitingBeyond(x) /\ faults' = faults
      BY <2>4 DEF Tick, vars, WaitingBeyond
    <3> QED BY <2>1, <3>1
  <2> QED BY <2>1, <2>2, <2>3, <2>4, SMTT(30)
<1>3. BacklogAccounted'
  BY <1>1, <1>2, AccountKept
<1>4. KeyIsAheadOfSchedule'
  <2>1. /\ \A i \in 1..Len(granted') : granted'[i] + Interval <= key'
        /\ pausedUntil' <= key'
    BY <1>1 DEF KeyIsAheadOfSchedule
  <2>2. pausedUntil' <= now' + PauseMs
    <3>1. \A u, n, m, p \in Nat : u <= n + p /\ m >= n => u <= m + p
      OBVIOUS
    <3>2. pausedUntil <= now + PauseMs /\ now' >= now /\ pausedUntil' = pausedUntil
      BY <1>1 DEF KeyIsAheadOfSchedule
    <3>3. pausedUntil \in Nat /\ now \in Nat /\ now' \in Nat /\ PauseMs \in Nat
      OBVIOUS
    <3> QED BY <3>1, <3>2, <3>3, Zenon
  <2>3. losses' = 0 => \A d \in Callers : pc'[d] = "waiting" => slot'[d] + Interval <= key'
    BY <1>1 DEF KeyIsAheadOfSchedule
  <2> QED BY <2>1, <2>2, <2>3 DEF KeyIsAheadOfSchedule
<1>5. SlotsSpaced' /\ KeyOutlivesSchedule'
  BY <1>1 DEF SlotsSpaced, KeyOutlivesSchedule
<1> QED BY <1>3, <1>4, <1>5

LEMMA LoseKeyInv ==
  ASSUME ScheduleInv, TypeOK', LoseKey
  PROVE  ScheduleInv'
<1> USE TimesAssumption, BoundsAssumption DEF ScheduleInv, TypeOK, LoseKey
<1>1. SlotsSpaced' /\ KeyIsAheadOfSchedule' /\ KeyOutlivesSchedule'
  BY DEF SlotsSpaced, KeyIsAheadOfSchedule, KeyOutlivesSchedule
<1>2. ASSUME NEW x \in now'..key' PROVE Accounted(x)'
  <2>1. Cardinality(WaitingBeyond(x)') + faults' \in Nat
    <3>1. Cardinality(WaitingBeyond(x)') \in Nat
      BY WaitingAreLoops, LoopsCounted
    <3> QED BY <3>1
  <2>2. Interval * (Cardinality(WaitingBeyond(x)') + faults') \in Nat
    BY <2>1, TimesMonotone
  <2>3. Later(x + Interval, pausedUntil') \in Nat
    BY DEF Later
  <2> QED BY <2>2, <2>3 DEF Accounted
<1> QED BY <1>1, <1>2 DEF BacklogAccounted

-----------------------------------------------------------------------------
(* The invariant holds in every reachable state, if the key outlives the    *)
(* backlog.                                                                 *)
LEMMA ScheduleHolds == KeyOutlivesBacklog => (Spec => []ScheduleInv)
<1> SUFFICES ASSUME KeyOutlivesBacklog PROVE Spec => []ScheduleInv
  OBVIOUS
<1>1. Init => ScheduleInv
  <2> SUFFICES ASSUME Init PROVE ScheduleInv
    OBVIOUS
  <2> USE TimesAssumption, BoundsAssumption DEF Init
  <2>1. TypeOK
    BY DEF TypeOK
  <2>2. SlotsSpaced /\ KeyIsAheadOfSchedule /\ KeyOutlivesSchedule
    BY DEF SlotsSpaced, KeyIsAheadOfSchedule, KeyOutlivesSchedule
  <2>3. BacklogAccounted
    BY DEF BacklogAccounted
  <2> QED BY <2>1, <2>2, <2>3 DEF ScheduleInv
<1>2. TypeOK /\ TypeOK' /\ ScheduleInv /\ [Next]_vars => ScheduleInv'
  BY ReserveInv, ReserveUnansweredInv, AnswerRateLimitedInv, UnscriptedInv, LoseKeyInv
     DEF Next, CallerStep
<1> QED BY <1>1, <1>2, TypeCorrect, PTL DEF Spec

-----------------------------------------------------------------------------
(* Calls and the slots they were made for.                                  *)

LEMMA CallsAreRecords ==
  ASSUME TypeOK
  PROVE  \A i \in 1..Len(calls) : calls[i].at \in Nat /\ calls[i].slot \in Nat
<1>1. \A i \in 1..Len(calls) : calls[i] \in Calls
  BY DEF TypeOK
<1> QED BY <1>1 DEF Calls

(* A reservation takes a slot apart from all that were taken.               *)
LEMMA ReserveKeepsCalls ==
  ASSUME ScheduleInv, CallsHaveSlots, WaitersHaveSlots, losses = 0,
         NEW c \in Callers, Reserve(c)
  PROVE  CallsHaveSlots' /\ WaitersHaveSlots'
<1> USE TimesAssumption DEF ScheduleInv, TypeOK
<1>1. /\ FreeSlot \in Nat /\ FreeSlot >= now /\ FreeSlot >= key
      /\ key' = FreeSlot + Interval
  BY FreeSlotIsFree DEF Reserve, ReserveScript
<1>2. UNCHANGED <<calls, now>>
  BY DEF Reserve
<1>3. \A i \in 1..Len(calls) : calls[i].slot \in Nat /\ calls[i].slot + Interval <= FreeSlot
  BY <1>1, CallsAreRecords DEF CallsHaveSlots
<1>4. CallsHaveSlots'
  <2>1. \A i \in 1..Len(calls) : calls[i].slot + Interval <= key'
    <3>1. \A t, f \in Nat : t + Interval <= f => t + Interval <= f + Interval
      OBVIOUS
    <3> QED BY <1>1, <1>3, <3>1, Zenon
  <2> QED BY <1>2, <2>1 DEF CallsHaveSlots
<1>5. /\ pc'[c] = "waiting" /\ slot'[c] = FreeSlot
      /\ \A d \in Callers \ {c} : pc'[d] = pc[d] /\ slot'[d] = slot[d]
  BY DEF Reserve
<1>6. \A d \in Callers : pc[d] = "waiting" => slot[d] \in Nat /\ slot[d] + Interval <= FreeSlot
  BY <1>1 DEF KeyIsAheadOfSchedule
<1>7. ASSUME NEW d \in Callers \ {c}, pc'[d] = "waiting"
      PROVE  Apart(slot'[c], slot'[d]) /\ Apart(slot'[d], slot'[c])
  BY <1>5, <1>6, <1>7 DEF Apart
<1>8. ASSUME NEW d \in Callers, pc'[d] = "waiting"
      PROVE  /\ now' <= slot'[d] + MaxLate
             /\ \A i \in 1..Len(calls') : Apart(slot'[d], calls'[i].slot)
             /\ \A e \in Callers \ {d} : pc'[e] = "waiting" => Apart(slot'[d], slot'[e])
  <2>1. CASE d = c
    <3>1. now' <= slot'[d] + MaxLate
      BY <1>1, <1>2, <1>5, <2>1
    <3>2. \A i \in 1..Len(calls') : Apart(slot'[d], calls'[i].slot)
      BY <1>2, <1>3, <1>5, <2>1 DEF Apart
    <3> QED BY <1>7, <2>1, <3>1, <3>2
  <2>2. CASE d # c
    <3>1. pc[d] = "waiting" /\ slot'[d] = slot[d]
      BY <1>5, <1>8, <2>2
    <3>2. \A e \in Callers \ {d} : pc'[e] = "waiting" => Apart(slot'[d], slot'[e])
      BY <1>5, <1>7, <1>8, <2>2, <3>1 DEF WaitersHaveSlots
    <3> QED BY <1>2, <3>1, <3>2 DEF WaitersHaveSlots
  <2> QED BY <2>1, <2>2
<1> QED BY <1>4, <1>8 DEF WaitersHaveSlots

(* A loop that wakes hands its slot over to its call.                       *)
LEMMA WakeKeepsCalls ==
  ASSUME ScheduleInv, CallsHaveSlots, WaitersHaveSlots, losses = 0,
         NEW c \in Callers, Wake(c)
  PROVE  CallsHaveSlots' /\ WaitersHaveSlots'
<1> USE TimesAssumption DEF ScheduleInv, TypeOK
<1>1. /\ pc[c] = "waiting" /\ slot[c] <= now /\ UNCHANGED <<now, key>>
      /\ pc'[c] # "waiting"
      /\ \A d \in Callers \ {c} : pc'[d] = pc[d] /\ slot'[d] = slot[d]
  BY DEF Wake
<1>2. /\ slot[c] \in Nat /\ slot[c] + Interval <= key /\ OnTime(slot[c], now)
      /\ \A i \in 1..Len(calls) : Apart(slot[c], calls[i].slot)
  BY <1>1 DEF KeyIsAheadOfSchedule, WaitersHaveSlots, OnTime
<1>3. CASE UNCHANGED calls
  <2>1. CallsHaveSlots'
    BY <1>1, <1>3 DEF CallsHaveSlots
  <2>2. WaitersHaveSlots'
    BY <1>1, <1>3 DEF WaitersHaveSlots
  <2> QED BY <2>1, <2>2
<1>4. CASE calls' = Append(calls, [at |-> now, slot |-> slot[c]])
  <2>1. PICK n \in Nat : n = Len(calls) + 1
    OBVIOUS
  <2>2. /\ Len(calls') = n /\ \A i \in 1..Len(calls) : calls'[i] = calls[i]
        /\ calls'[n].at = now /\ calls'[n].slot = slot[c]
    BY <1>4, <2>1
  <2>3. \A i \in 1..Len(calls') : i \in 1..Len(calls) \/ i = n
    BY <2>1, <2>2
  <2>4. \A i \in 1..Len(calls) : Apart(calls[i].slot, slot[c])
    BY <1>2 DEF Apart
  <2>5. \A i \in 1..Len(calls') :
          calls'[i].slot + Interval <= key' /\ OnTime(calls'[i].slot, calls'[i].at)
    BY <1>1, <1>2, <2>2, <2>3 DEF CallsHaveSlots
  <2>6. \A i, k \in 1..Len(calls') : i # k => Apart(calls'[i].slot, calls'[k].slot)
    BY <1>2, <2>2, <2>3, <2>4 DEF CallsHaveSlots
  <2>7. ASSUME NEW d \in Callers, pc'[d] = "waiting"
        PROVE  /\ now' <= slot'[d] + MaxLate
               /\ \A i \in 1..Len(calls') : Apart(slot'[d], calls'[i].slot)
               /\ \A e \in Callers \ {d} : pc'[e] = "waiting" => Apart(slot'[d], slot'[e])
    <3>1. d # c /\ pc[d] = "waiting" /\ slot'[d] = slot[d]
      BY <1>1, <2>7
    <3>2. Apart(slot[d], slot[c])
      BY <1>1, <3>1 DEF WaitersHaveSlots
    <3>3. \A i \in 1..Len(calls') : Apart(slot'[d], calls'[i].slot)
      BY <2>2, <2>3, <3>1, <3>2 DEF WaitersHaveSlots
    <3>4. \A e \in Callers \ {d} : pc'[e] = "waiting" => Apart(slot'[d], slot'[e])
      BY <1>1, <3>1 DEF WaitersHaveSlots
    <3> QED BY <1>1, <3>1, <3>3, <3>4 DEF WaitersHaveSlots
  <2> QED BY <2>5, <2>6, <2>7 DEF CallsHaveSlots, WaitersHaveSlots
<1> QED BY <1>3, <1>4 DEF Wake

LEMMA CallsStep ==
  ASSUME ScheduleInv, losses = 0 => CallsHaveSlots /\ WaitersHaveSlots,
         losses' = 0, [Next]_vars
  PROVE  CallsHaveSlots' /\ WaitersHaveSlots'
<1> USE TimesAssumption, BoundsAssumption DEF ScheduleInv, TypeOK
<1>1. CASE LoseKey
  BY <1>1 DEF LoseKey
<1>2. CASE UNCHANGED <<key, keyExpires, granted, pausedUntil, losses, now, slot, calls, pc>>
  BY <1>2 DEF CallsHaveSlots, WaitersHaveSlots
<1>3. ASSUME NEW c \in Callers, Reserve(c) PROVE CallsHaveSlots' /\ WaitersHaveSlots'
  BY <1>3, ReserveKeepsCalls DEF Reserve
<1>4. ASSUME NEW c \in Callers, Wake(c) PROVE CallsHaveSlots' /\ WaitersHaveSlots'
  BY <1>4, WakeKeepsCalls DEF Wake
<1>5. ASSUME UNCHANGED <<now, calls, losses>>, key <= key', key' \in Nat,
             \A d \in Callers : pc'[d] = "waiting" => pc[d] = "waiting" /\ slot'[d] = slot[d]
      PROVE  CallsHaveSlots' /\ WaitersHaveSlots'
  <2>1. CallsHaveSlots'
    BY <1>5, CallsAreRecords DEF CallsHaveSlots
  <2>2. WaitersHaveSlots'
    BY <1>5 DEF WaitersHaveSlots
  <2> QED BY <2>1, <2>2
<1>6. ASSUME NEW c \in Callers, ReserveUnanswered(c)
      PROVE  CallsHaveSlots' /\ WaitersHaveSlots'
  <2>1. FreeSlot \in Nat /\ FreeSlot >= key /\ key' = FreeSlot + Interval
    BY <1>6, FreeSlotIsFree DEF ReserveUnanswered, ReserveScript
  <2>2. key <= key' /\ key' \in Nat
    BY <2>1
  <2> QED BY <1>5, <1>6, <2>2 DEF ReserveUnanswered
<1>7. ASSUME NEW c \in Callers, Answer(c) PROVE CallsHaveSlots' /\ WaitersHaveSlots'
  BY <1>5, <1>7 DEF Answer
<1>8. ASSUME NEW c \in Callers, AnswerRateLimited(c)
      PROVE  CallsHaveSlots' /\ WaitersHaveSlots'
  <2>1. key <= key' /\ key' \in Nat
    BY <1>8 DEF AnswerRateLimited, PauseScript, NextFree, Later, KeyOutlivesSchedule
  <2> QED BY <1>5, <1>8, <2>1 DEF AnswerRateLimited
<1>9. ASSUME NEW c \in Callers, Crash(c) PROVE CallsHaveSlots' /\ WaitersHaveSlots'
  BY <1>5, <1>9 DEF Crash
<1>10. CASE Tick
  <2>1. CallsHaveSlots'
    BY <1>10 DEF Tick, CallsHaveSlots
  <2>2. \A d \in Callers : pc[d] = "waiting" => now' <= slot[d] + MaxLate
    BY <1>10 DEF Tick
  <2>3. WaitersHaveSlots'
    BY <1>10, <2>2 DEF Tick, WaitersHaveSlots
  <2> QED BY <2>1, <2>3
<1>11. CASE UNCHANGED vars
  BY <1>2, <1>11 DEF vars
<1> QED BY <1>1, <1>3, <1>4, <1>6, <1>7, <1>8, <1>9, <1>10, <1>11 DEF Next, CallerStep

(* The invariant with the calls: each has a slot of its own that it is at   *)
(* most MaxLate behind.                                                     *)
THEOREM Invariance == KeyOutlivesBacklog => (Spec => []IndInv)
<1> SUFFICES ASSUME KeyOutlivesBacklog PROVE Spec => []IndInv
  OBVIOUS
<1> DEFINE CallsInv == losses = 0 => CallsHaveSlots /\ WaitersHaveSlots
<1>1. Init => CallsInv
  BY DEF Init, CallsHaveSlots, WaitersHaveSlots
<1>2. ScheduleInv /\ CallsInv /\ [Next]_vars => CallsInv'
  BY CallsStep
<1>3. Spec => []ScheduleInv
  BY ScheduleHolds
<1>4. IndInv <=> ScheduleInv /\ CallsInv
  BY DEF IndInv
<1> HIDE DEF CallsInv
<1> QED BY <1>1, <1>2, <1>3, <1>4, PTL DEF Spec

-----------------------------------------------------------------------------
(* Numbers an interval apart fall into different intervals.                 *)
LEMMA DifferentIntervals ==
  ASSUME NEW i \in Nat \ {0}, NEW s \in Nat, NEW t \in Nat, s + i <= t
  PROVE  s \div i # t \div i
<1>1. PICK q \in Nat : q = s \div i
  OBVIOUS
<1>2. PICK p \in Nat : p = t \div i
  OBVIOUS
<1>3. i * q <= s /\ t < i * p + i
  BY <1>1, <1>2
<1> QED BY <1>1, <1>2, <1>3

LEMMA IntervalsFit ==
  ASSUME NEW i \in Nat \ {0}, NEW n \in Nat \ {0}, NEW s \in Nat, s < n * i
  PROVE  s \div i \in 0..(n - 1)
<1>1. PICK q \in Nat : q = s \div i
  OBVIOUS
<1>2. i * q <= s
  BY <1>1
<1>3. ASSUME q >= n PROVE FALSE
  <2>1. i * n <= i * q
    BY <1>3, TimesMonotone
  <2> QED BY <1>2, <2>1
<1> QED BY <1>1, <1>3

(* Calls in a window were made for different slots of the window that       *)
(* begins MaxLate earlier, and no more than ApiLimit of those are an        *)
(* interval apart.                                                          *)
LEMMA WindowHoldsLimit ==
  ASSUME TypeOK, CallsHaveSlots, LimitHasHeadroom, NEW from \in Nat
  PROVE  Cardinality(CallsIn(from)) <= ApiLimit
<1> USE TimesAssumption, ApiAssumption DEF TypeOK
<1> DEFINE place(k) == calls[k].slot + MaxLate - from
           Seat == [k \in CallsIn(from) |-> place(k) \div Interval]
<1>1. \A k \in CallsIn(from) :
        /\ k \in 1..Len(calls) /\ calls[k].at \in Nat /\ calls[k].slot \in Nat
        /\ from <= calls[k].at /\ calls[k].at < from + Window
        /\ OnTime(calls[k].slot, calls[k].at)
  BY CallsAreRecords DEF CallsIn, CallsHaveSlots
<1>2. ASSUME NEW k \in CallsIn(from)
      PROVE  place(k) \in Nat /\ place(k) < ApiLimit * Interval
  <2>1. \A b, t, u \in Nat :
          from <= t /\ t < from + Window /\ u <= t /\ t <= u + MaxLate /\ Window + MaxLate <= b
            => u + MaxLate - from \in Nat /\ u + MaxLate - from < b
    OBVIOUS
  <2>2. ApiLimit * Interval \in Nat
    OBVIOUS
  <2> QED BY <1>1, <2>1, <2>2, Zenon DEF LimitHasHeadroom, OnTime
<1>3. ASSUME NEW k \in CallsIn(from), NEW m \in CallsIn(from), k # m
      PROVE  \/ place(k) + Interval <= place(m)
             \/ place(m) + Interval <= place(k)
  <2>1. Apart(calls[k].slot, calls[m].slot)
    BY <1>1, <1>3 DEF CallsHaveSlots
  <2>2. \A t, u \in Nat : t + Interval <= u => t + MaxLate - from + Interval <= u + MaxLate - from
    OBVIOUS
  <2> QED BY <1>1, <2>1, <2>2, Zenon DEF Apart
<1> HIDE DEF place
<1>4. Seat \in [CallsIn(from) -> 0..(ApiLimit - 1)]
  BY <1>2, IntervalsFit
<1>5. ASSUME NEW k \in CallsIn(from), NEW m \in CallsIn(from), k # m
      PROVE  Seat[k] # Seat[m]
  <2>1. place(k) \div Interval # place(m) \div Interval
    BY <1>2, <1>3, <1>5, DifferentIntervals
  <2> QED BY <2>1
<1> HIDE DEF Seat
<1>6. Seat \in Injection(CallsIn(from), 0..(ApiLimit - 1))
  BY <1>4, <1>5 DEF Injection, IsInjective
<1>7. IsFiniteSet(0..(ApiLimit - 1)) /\ Cardinality(0..(ApiLimit - 1)) = ApiLimit
  BY FS_Interval
<1>8. Cardinality(CallsIn(from)) <= Cardinality(0..(ApiLimit - 1))
  BY <1>6, <1>7, FS_Injection
<1> QED BY <1>7, <1>8

(* No window of the API sees more calls than it takes, for any number of    *)
(* loops and faults, if loops are as punctual as the API's headroom allows. *)
THEOREM Headroom ==
  KeyOutlivesBacklog /\ LimitHasHeadroom => (Spec => []UnderApiLimit)
<1> SUFFICES ASSUME KeyOutlivesBacklog, LimitHasHeadroom PROVE Spec => []UnderApiLimit
  OBVIOUS
<1>1. IndInv => UnderApiLimit
  BY WindowHoldsLimit DEF IndInv, ScheduleInv, TypeOK, UnderApiLimit
<1>2. Spec => []IndInv
  BY Invariance
<1> QED BY <1>1, <1>2, PTL

(* Slots stay an interval apart, whoever takes them.                        *)
THEOREM Spacing == KeyOutlivesBacklog => (Spec => []SlotsSpaced)
<1> SUFFICES ASSUME KeyOutlivesBacklog PROVE Spec => []SlotsSpaced
  OBVIOUS
<1>1. ScheduleInv => SlotsSpaced
  BY DEF ScheduleInv
<1>2. Spec => []ScheduleInv
  BY ScheduleHolds
<1> QED BY <1>1, <1>2, PTL

(* No loop sleeps longer than the backlog less one interval.                *)
THEOREM Waiting == KeyOutlivesBacklog => (Spec => []WaitBounded)
<1> SUFFICES ASSUME KeyOutlivesBacklog PROVE Spec => []WaitBounded
  OBVIOUS
<1>1. ScheduleInv => WaitBounded
  <2> USE TimesAssumption, BoundsAssumption DEF ScheduleInv, TypeOK
  <2> SUFFICES ASSUME ScheduleInv, losses = 0, NEW c \in Callers, pc[c] = "waiting"
               PROVE  slot[c] - now <= Backlog - Interval
    BY DEF WaitBounded
  <2>1. slot[c] + Interval <= key
    BY DEF KeyIsAheadOfSchedule
  <2>2. Cardinality(WaitingBeyond(now)) \in Nat
        /\ Cardinality(WaitingBeyond(now)) <= Cardinality(Callers)
    BY WaitingAreLoops, LoopsCounted
  <2>3. key <= Later(now + Interval, pausedUntil)
                 + Interval * (Cardinality(WaitingBeyond(now)) + faults)
    BY AccountedEver DEF Accounted
  <2>4. key <= now + Backlog
    BY <2>2, <2>3, WithinBacklog DEF KeyIsAheadOfSchedule
  <2> QED BY <2>1, <2>4, BacklogIsNat
<1>2. Spec => []ScheduleInv
  BY ScheduleHolds
<1> QED BY <1>1, <1>2, PTL

(* Every slot reserved after a pause lies after it.                         *)
THEOREM PausesBind == KeyOutlivesBacklog => (Spec => PauseBindsNewSlots)
<1> SUFFICES ASSUME KeyOutlivesBacklog PROVE Spec => PauseBindsNewSlots
  OBVIOUS
<1>1. ScheduleInv /\ [Next]_vars =>
        [granted' # granted /\ granted' # <<>>
           => granted'[Len(granted')] >= pausedUntil]_vars
  <2> SUFFICES ASSUME ScheduleInv, Next, granted' # granted, granted' # <<>>
               PROVE  granted'[Len(granted')] >= pausedUntil
    OBVIOUS
  <2> USE DEF ScheduleInv, TypeOK
  <2>1. ReserveScript
    BY DEF Next, CallerStep, Reserve, ReserveUnanswered, Wake, Answer, AnswerRateLimited,
           Crash, LoseKey, Tick
  <2>2. FreeSlot \in Nat /\ FreeSlot >= key
    BY FreeSlotIsFree
  <2>3. granted'[Len(granted')] = FreeSlot
    BY <2>1, <2>2 DEF ReserveScript
  <2> QED BY <2>2, <2>3 DEF KeyIsAheadOfSchedule
<1>2. Spec => []ScheduleInv
  BY ScheduleHolds
<1> QED BY <1>1, <1>2, PTL DEF Spec, PauseBindsNewSlots
=============================================================================
