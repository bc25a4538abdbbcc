--------------------------- MODULE TxgRefinement ---------------------------
(* The transaction group pipeline of Txg implements TxgGroups.             *)
EXTENDS Txg

(* Whether t has left a callback, wherever the callback is now.            *)
HasCallback(t) ==
    \/ t \in cb_taskq \cup cb_called
    \/ \E c \in CPUs, g \in Slots : t \in tc_callbacks[c][g]

GroupState(t) ==
    CASE th_st[t] = "new" -> "new"
      [] th_st[t] = "registered" -> "callback"
      [] th_st[t] = "done" -> IF HasCallback(t) THEN "committed" ELSE "plain"
      [] OTHER -> "active"

(* tx_synced_txg is 0 until the first group has been synced.               *)
SyncedGroup == IF tx_synced_txg = 0 THEN TXG0 - 1 ELSE tx_synced_txg

Groups == INSTANCE TxgGroups WITH
    First <- TXG0,
    open <- tx_open_txg,
    synced <- SyncedGroup,
    state <- [t \in Txs |-> GroupState(t)],
    group <- th_txg,
    released <- cb_taskq \cup cb_called

(* Every behaviour of the pipeline, seen without its threads and locks, is *)
(* one of TxgGroups: a group is durable only when all its transactions     *)
(* have committed, and its callbacks are released in that very step.       *)
ImplementsGroups == Groups!GSpec
=============================================================================
