---------------------------- MODULE MCWorkerPool ----------------------------
(***************************************************************************)
(* A small instance of WorkerPool for TLC: a loop, two stores and both     *)
(* signals.                                                                *)
(***************************************************************************)
EXTENDS WorkerPool
CONSTANTS w1
=============================================================================
