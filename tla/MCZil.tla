------------------------------- MODULE MCZil -------------------------------
(* Bounds for checking Zil with TLC.                                       *)
EXTENDS Zil

(* Every thread logs one record.                                           *)
OneEach == [th \in Threads |-> 1]

(* The devices are alike, and so are threads that all log synchronously.   *)
Symmetry == Permutations(Vdevs) \cup Permutations(Threads)
=============================================================================
