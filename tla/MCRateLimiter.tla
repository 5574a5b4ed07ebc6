--------------------------- MODULE MCRateLimiter ---------------------------
(***************************************************************************)
(* Small instances of RateLimiter for TLC.  A unit of time is half an      *)
(* interval; the API's window holds two slots.                             *)
(*                                                                         *)
(* The clock has no bound: states that differ only by a shift in time, or  *)
(* by slots and calls too old to matter, are one state to TLC.             *)
(***************************************************************************)
EXTENDS RateLimiter

CONSTANTS c1, c2

Ahead(t) == IF t > now THEN t - now ELSE 0

LastGranted ==
  IF granted = <<>> \/ granted[Len(granted)] + Interval <= now THEN 0 - Interval
  ELSE granted[Len(granted)] - now

RecentCalls ==
  [age \in 0..(Window - 1) |-> Cardinality({i \in 1..Len(calls) : calls[i].at = now - age})]

RecentSlots ==
  {now - calls[i].slot : i \in {k \in 1..Len(calls) : calls[k].at > now - Window}}

SinceNow ==
  <<Ahead(key), Ahead(keyExpires), Ahead(pausedUntil), pc,
    [c \in Callers |-> IF pc[c] = "waiting" THEN slot[c] - now ELSE 0],
    LastGranted, RecentCalls, RecentSlots, faults, losses>>
=============================================================================
