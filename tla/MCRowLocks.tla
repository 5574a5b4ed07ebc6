----------------------------- MODULE MCRowLocks -----------------------------
(***************************************************************************)
(* A small instance of RowLocks for TLC: one job of two stores.            *)
(***************************************************************************)
EXTENDS RowLocks, TLC

CONSTANTS j1, t1, t2, x1, x2, x3

OneJob == t1 :> j1 @@ t2 :> j1

(* Transactions are alike, and so are the stores. *)
TxnsAndStoresAlike == Permutations(Txns) \cup Permutations(Tasks)
=============================================================================
