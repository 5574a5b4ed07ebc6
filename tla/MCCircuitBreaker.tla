-------------------------- MODULE MCCircuitBreaker --------------------------
(***************************************************************************)
(* A small instance of CircuitBreaker for TLC: a window of two ticks and   *)
(* three failures, so that a streak can be too short in time, too short in *)
(* number, interrupted by silence, and still trip.                         *)
(***************************************************************************)
EXTENDS CircuitBreaker
=============================================================================
