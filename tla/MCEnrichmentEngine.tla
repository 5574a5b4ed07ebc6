------------------------ MODULE MCEnrichmentEngine ------------------------
(***************************************************************************)
(* Small instances of EnrichmentEngine for TLC.                            *)
(***************************************************************************)
EXTENDS EnrichmentEngine, TLC

CONSTANTS j1, j2, t1, t2, w1, w2, p1, p2

(* One job of two stores; two jobs of one store each.                       *)
OneJob   == t1 :> j1 @@ t2 :> j1
TwoJobs  == t1 :> j1 @@ t2 :> j2

(* Two loops in one process; one loop in each of two processes.             *)
OnePool  == w1 :> p1 @@ w2 :> p1
TwoPools == w1 :> p1 @@ w2 :> p2
=============================================================================
