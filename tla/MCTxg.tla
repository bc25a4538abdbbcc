------------------------------- MODULE MCTxg -------------------------------
(* Model values and bounds for checking Txg with TLC.                      *)
EXTENDS TxgRefinement, TLC

(* Transactions are interchangeable, and so are waiting threads.           *)
Symmetry == Permutations(Txs) \cup Permutations(Waiters)
=============================================================================
