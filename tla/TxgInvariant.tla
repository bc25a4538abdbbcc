--------------------------- MODULE TxgInvariant ---------------------------
(***************************************************************************)
(* The inductive invariant behind the theorems about Txg.  The properties  *)
(* of Txg are not inductive alone: that a drained count of 0 means no      *)
(* holder needs the count to be the number of holders, that no late holder *)
(* appears needs the owners of tc_open_lock, and both need the place of    *)
(* each thread tied to the group numbers.                                  *)
(***************************************************************************)
EXTENDS Txg

(* tx_threads counts the live kernel threads; nobody calls in before they  *)
(* are started.                                                            *)
ThreadInv ==
    /\ \A w \in Waiters : w_op[w] # "none" => pool # "loading"
    /\ q_pc = "off" <=> pool = "loading"
    /\ s_pc = "off" <=> pool = "loading"
    /\ q_pc \notin {"off", "exited"} => tx_threads >= 1
    /\ s_pc \notin {"off", "exited"} => tx_threads >= 1
    /\ q_pc \notin {"off", "exited"} /\ s_pc \notin {"off", "exited"} =>
         tx_threads = 2

(* A transaction in txg_hold_open owns the lock of its CPU and its group   *)
(* is the open one; the quiesce thread owns the locks below q_cpu.         *)
LockInv ==
    /\ \A t \in Txs : Active(t) => th_cpu[t] \in CPUs
    /\ \A t \in Txs : OwnsLock(t) =>
         /\ tc_open_lock[th_cpu[t]] = t
         /\ th_txg[t] = tx_open_txg
    /\ \A c \in CPUs :
         tc_open_lock[c] = "quiesce" <=> q_pc = "lock" /\ c < q_cpu

(* The place of the two threads tells which group numbers are set.         *)
PipeInv ==
    /\ tx_open_txg >= TXG0
    /\ tx_synced_txg = 0 \/ tx_synced_txg >= TXG0
    /\ tx_quiescing_txg =
         IF q_pc = "lock" THEN tx_open_txg
         ELSE IF Draining THEN tx_open_txg - 1 ELSE 0
    /\ tx_quiesced_txg # 0 =>
         tx_quiesced_txg = tx_open_txg - 1 /\ q_pc \notin {"lock", "drain", "tc_cv"}
    /\ tx_syncing_txg # 0 <=> s_pc = "sync"
    /\ Last = Front - 1 \/ (Last = 0 /\ Front = TXG0)
    /\ tx_syncing_txg # 0 =>
         \/ tx_synced_txg = tx_syncing_txg - 1
         \/ tx_synced_txg = 0 /\ tx_syncing_txg = TXG0

(* tc_count[c][g] is the number of counted handles on CPU c and slot g.    *)
Holders(c, g) == {t \in Txs : Counted(t) /\ th_cpu[t] = c /\ HandleSlot(t) = g}
CountInv ==
    \A c \in CPUs, g \in Slots : tc_count[c][g] = Cardinality(Holders(c, g))

IndInv == ThreadInv /\ LockInv /\ PipeInv /\ CountInv /\ HoldsKeepGroup
=============================================================================
