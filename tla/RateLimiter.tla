---------------------------- MODULE RateLimiter ----------------------------
(***************************************************************************)
(* enrichment/rate-limiter.ts: the schedule of time slots kept in one      *)
(* Redis key, and the worker loops of all processes that reserve a slot,   *)
(* sleep until it, and call the API (worker-pool.ts, tick and process).    *)
(*                                                                         *)
(* The two Lua scripts are atomic in Redis and read Redis' clock, so each  *)
(* is one action on the one clock `now'.  A loop sleeps on a timer of its  *)
(* own and claims a task before it calls: a call starts at its slot or     *)
(* later.  The in-process limiter is the same with a key that never        *)
(* expires.                                                                *)
(***************************************************************************)
EXTENDS Integers, Sequences, FiniteSets

CONSTANTS
  Callers,       (* worker loops, of all processes                          *)
  Interval,      (* intervalFor(RATE_LIMIT_PER_SECOND)                      *)
  PauseMs,       (* RATE_LIMIT_PAUSE_MS                                     *)
  KeyTtl,        (* PX of both scripts                                      *)
  Window,        (* the API's counting window                               *)
  ApiLimit,      (* calls the API accepts in a window                       *)
  MaxLate,       (* bound: how long after its slot a loop gets to its call  *)
  MaxFaults,     (* bound: loops that died or lost an answer of Redis       *)
  MaxKeyLosses   (* bound: restarts of Redis, which keeps nothing on disk   *)

ASSUME CallersAssumption == IsFiniteSet(Callers)
ASSUME TimesAssumption ==
  /\ Interval \in Nat \ {0} /\ PauseMs \in Nat /\ KeyTtl \in Nat \ {0}
  /\ MaxLate \in Nat
ASSUME ApiAssumption == Window \in Nat \ {0} /\ ApiLimit \in Nat \ {0}
ASSUME BoundsAssumption == MaxFaults \in Nat /\ MaxKeyLosses \in Nat

VARIABLES
  now,           (* Redis' clock                                            *)
  key,           (* the value last written: the next free slot              *)
  keyExpires,    (* when Redis drops it                                     *)
  pc,            (* idle, waiting for a slot, or calling the API            *)
  slot,          (* the slot a waiting loop sleeps until                    *)
  granted,       (* slots handed out since the key was last lost, in order  *)
  calls,         (* when the API was called, and for which slot             *)
  pausedUntil,   (* the end of the longest pause asked for                  *)
  faults,
  losses

vars == <<now, key, keyExpires, pc, slot, granted, calls, pausedUntil, faults, losses>>

Later(a, b) == IF a >= b THEN a ELSE b

Calls == [at : Nat, slot : Nat]

TypeOK ==
  /\ now \in Nat
  /\ key \in Nat
  /\ keyExpires \in Nat
  /\ pc \in [Callers -> {"idle", "waiting", "calling"}]
  /\ slot \in [Callers -> Nat]
  /\ granted \in Seq(Nat)
  /\ calls \in Seq(Calls)
  /\ pausedUntil \in Nat
  /\ faults \in 0..MaxFaults
  /\ losses \in 0..MaxKeyLosses

Init ==
  /\ now = 1
  /\ key = 0
  /\ keyExpires = 0
  /\ pc = [c \in Callers |-> "idle"]
  /\ slot = [c \in Callers |-> 0]
  /\ granted = <<>>
  /\ calls = <<>>
  /\ pausedUntil = 0
  /\ faults = 0
  /\ losses = 0

-----------------------------------------------------------------------------
(* The scripts.                                                             *)

(* GET, or '0' once the key is gone.                                        *)
NextFree == IF now < keyExpires THEN key ELSE 0

(* Mutated form of FreeSlot: a free slot is handed out at once.             *)
FreeSlotAtOnce == now

FreeSlot == Later(now, NextFree)

(* RESERVE_SCRIPT.                                                          *)
ReserveScript ==
  /\ key' = FreeSlot + Interval
  /\ keyExpires' = now + KeyTtl
  /\ granted' = Append(granted, FreeSlot)

(* Mutated form of PauseScript: the pause replaces the schedule.            *)
PauseScriptOverwrites ==
  /\ key' = now + PauseMs
  /\ keyExpires' = now + KeyTtl
  /\ pausedUntil' = Later(pausedUntil, now + PauseMs)

(* Mutated form of PauseScript: pauses add up.                              *)
PauseScriptAccumulates ==
  /\ key' = FreeSlot + PauseMs
  /\ keyExpires' = now + KeyTtl
  /\ pausedUntil' = Later(pausedUntil, now + PauseMs)

(* Mutated form of PauseScript: the key keeps its old time to live.         *)
PauseScriptKeepsTtl ==
  /\ key' = Later(NextFree, now + PauseMs)
  /\ UNCHANGED keyExpires
  /\ pausedUntil' = Later(pausedUntil, now + PauseMs)

(* PAUSE_SCRIPT.                                                            *)
PauseScript ==
  /\ key' = Later(NextFree, now + PauseMs)
  /\ keyExpires' = now + KeyTtl
  /\ pausedUntil' = Later(pausedUntil, now + PauseMs)

-----------------------------------------------------------------------------
(* The loops.                                                               *)

Reserve(c) ==
  /\ pc[c] = "idle"
  /\ ReserveScript
  /\ pc' = [pc EXCEPT ![c] = "waiting"]
  /\ slot' = [slot EXCEPT ![c] = FreeSlot]
  /\ UNCHANGED <<now, calls, pausedUntil, faults, losses>>

(* The script ran, its answer did not arrive: acquire throws, the loop      *)
(* backs off and the slot is nobody's.                                      *)
ReserveUnanswered(c) ==
  /\ pc[c] = "idle"
  /\ faults < MaxFaults
  /\ faults' = faults + 1
  /\ ReserveScript
  /\ UNCHANGED <<now, pc, slot, calls, pausedUntil, losses>>

(* Mutated form of Wake: the loop does not wait for its slot.               *)
WakeEarly(c) ==
  /\ pc[c] = "waiting"
  /\ slot' = [slot EXCEPT ![c] = 0]
  /\ \/ pc' = [pc EXCEPT ![c] = "calling"] /\ calls' = Append(calls, [at |-> now, slot |-> slot[c]])
     \/ pc' = [pc EXCEPT ![c] = "idle"] /\ UNCHANGED calls
  /\ UNCHANGED <<now, key, keyExpires, granted, pausedUntil, faults, losses>>

(* The sleep is over; the loop calls the API, or found no task due.         *)
Wake(c) ==
  /\ pc[c] = "waiting"
  /\ slot[c] <= now
  /\ slot' = [slot EXCEPT ![c] = 0]
  /\ \/ pc' = [pc EXCEPT ![c] = "calling"] /\ calls' = Append(calls, [at |-> now, slot |-> slot[c]])
     \/ pc' = [pc EXCEPT ![c] = "idle"] /\ UNCHANGED calls
  /\ UNCHANGED <<now, key, keyExpires, granted, pausedUntil, faults, losses>>

(* Any answer but a 429, or a 429 whose pause failed (the error is caught). *)
Answer(c) ==
  /\ pc[c] = "calling"
  /\ pc' = [pc EXCEPT ![c] = "idle"]
  /\ UNCHANGED <<now, key, keyExpires, slot, granted, calls, pausedUntil, faults, losses>>

AnswerRateLimited(c) ==
  /\ pc[c] = "calling"
  /\ PauseScript
  /\ pc' = [pc EXCEPT ![c] = "idle"]
  /\ UNCHANGED <<now, slot, granted, calls, faults, losses>>

(* The loop's process dies and starts again; its slot stays taken.          *)
Crash(c) ==
  /\ pc[c] # "idle"
  /\ faults < MaxFaults
  /\ faults' = faults + 1
  /\ pc' = [pc EXCEPT ![c] = "idle"]
  /\ slot' = [slot EXCEPT ![c] = 0]
  /\ UNCHANGED <<now, key, keyExpires, granted, calls, pausedUntil, losses>>

(* Redis comes back empty.                                                  *)
LoseKey ==
  /\ losses < MaxKeyLosses
  /\ losses' = losses + 1
  /\ key' = 0
  /\ keyExpires' = 0
  /\ granted' = <<>>
  /\ pausedUntil' = 0
  /\ UNCHANGED <<now, pc, slot, calls, faults>>

Tick ==
  /\ \A c \in Callers : pc[c] = "waiting" => now < slot[c] + MaxLate
  /\ now' = now + 1
  /\ UNCHANGED <<key, keyExpires, pc, slot, granted, calls, pausedUntil, faults, losses>>

CallerStep(c) ==
  \/ Reserve(c) \/ ReserveUnanswered(c) \/ Wake(c)
  \/ Answer(c) \/ AnswerRateLimited(c) \/ Crash(c)

Next == (\E c \in Callers : CallerStep(c)) \/ LoseKey \/ Tick

Spec == Init /\ [][Next]_vars
-----------------------------------------------------------------------------
(* A key must outlive the schedule it holds: the pause, then a slot for     *)
(* every loop and for every loop that died or lost its answer.  config.ts   *)
(* does not check it; the defaults (250 ms, 1 s, 8 loops, 60 s) satisfy it  *)
(* with more than 200 faults.                                               *)
Backlog == Later(Interval, PauseMs) + Interval * (Cardinality(Callers) + MaxFaults)
KeyOutlivesBacklog == Backlog <= KeyTtl

(* Slots are an interval apart, whoever took them and in whatever order     *)
(* loops reserve, pause, die and come back, and although the key expires    *)
(* ("never two close together", rate-limiter.ts:9-10).                      *)
SlotsSpaced ==
  \A i, k \in 1..Len(granted) : i < k => granted[i] + Interval <= granted[k]

(* No loop sleeps longer than the backlog: a slot is never further away     *)
(* than the pause and one interval per loop and per fault, however long the *)
(* system ran.                                                              *)
WaitBounded ==
  losses = 0 =>
    \A c \in Callers : pc[c] = "waiting" => slot[c] - now <= Backlog - Interval

(* A pause holds for every slot reserved after it ("Pushes every caller's   *)
(* next slot", rate-limiter.ts:20).                                         *)
PauseBindsNewSlots ==
  [][granted' # granted /\ granted' # <<>>
       => granted'[Len(granted')] >= pausedUntil]_vars

(* The API takes as many calls in a window as there are slots in one that   *)
(* begins MaxLate earlier.  config.ts does not check it; at the defaults    *)
(* (250 ms, 5 in a second) loops may be up to an interval late.             *)
LimitHasHeadroom == Window + MaxLate <= ApiLimit * Interval

(* No window of the API, wherever it starts, sees more calls than the API   *)
(* takes, as long as a loop gets to its call within MaxLate of its slot:    *)
(* the headroom the comment in config.ts:22 counts on ("Kept below the      *)
(* simulator's 5 req/s").                                                   *)
CallsIn(from) == {i \in 1..Len(calls) : from <= calls[i].at /\ calls[i].at < from + Window}
UnderApiLimit ==
  losses = 0 => \A from \in 1..now : Cardinality(CallsIn(from)) <= ApiLimit

-----------------------------------------------------------------------------
(* The inductive invariant behind these.                                    *)

(* Every slot handed out, and every pause, ends before the next free slot.  *)
KeyIsAheadOfSchedule ==
  /\ \A i \in 1..Len(granted) : granted[i] + Interval <= key
  /\ pausedUntil <= key
  /\ pausedUntil <= now + PauseMs
  /\ losses = 0 => \A c \in Callers : pc[c] = "waiting" => slot[c] + Interval <= key

(* Seen from any later time x: what the key is ahead of x by is accounted   *)
(* for by a slot or a pause that starts there, the loops waiting for slots  *)
(* after x, and the slots nobody waits for.                                 *)
WaitingBeyond(x) == {c \in Callers : pc[c] = "waiting" /\ slot[c] > x}
Accounted(x) ==
  key <= Later(x + Interval, pausedUntil)
           + Interval * (Cardinality(WaitingBeyond(x)) + faults)
BacklogAccounted == \A x \in now..key : Accounted(x)

(* The key never expires while a slot it stands for is still to come.       *)
KeyOutlivesSchedule == key <= keyExpires

ScheduleInv ==
  /\ TypeOK
  /\ SlotsSpaced
  /\ KeyIsAheadOfSchedule
  /\ BacklogAccounted
  /\ KeyOutlivesSchedule

(* Every call, made or waiting to be made, has a slot of its own, an        *)
(* interval from the others' and from the next free one, and is at most     *)
(* MaxLate behind it.                                                       *)
Apart(s, t) == s + Interval <= t \/ t + Interval <= s
OnTime(s, t) == s <= t /\ t <= s + MaxLate

CallsHaveSlots ==
  /\ \A i \in 1..Len(calls) :
       calls[i].slot + Interval <= key /\ OnTime(calls[i].slot, calls[i].at)
  /\ \A i, k \in 1..Len(calls) : i # k => Apart(calls[i].slot, calls[k].slot)

WaitersHaveSlots ==
  \A c \in Callers : pc[c] = "waiting" =>
    /\ now <= slot[c] + MaxLate
    /\ \A i \in 1..Len(calls) : Apart(slot[c], calls[i].slot)
    /\ \A d \in Callers \ {c} : pc[d] = "waiting" => Apart(slot[c], slot[d])

IndInv == ScheduleInv /\ (losses = 0 => CallsHaveSlots /\ WaitersHaveSlots)
=============================================================================
