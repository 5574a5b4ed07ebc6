---------------------------- MODULE MCJobEvents ----------------------------
(***************************************************************************)
(* Small instances of JobEvents for TLC: the job has stores enough for a   *)
(* change before its last one.                                             *)
(***************************************************************************)
EXTENDS JobEvents

CONSTANTS v1, v2, l1, l2
=============================================================================
