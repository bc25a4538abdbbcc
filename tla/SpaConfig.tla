----------------------------- MODULE SpaConfig -----------------------------
(***************************************************************************)
(* The configuration locks of a pool (spa_config_* of                      *)
(* src/kernel/fs/zfs/spa_misc.c) with the callers whose waiting for one    *)
(* another they have to survive: spa_sync, the writers of log blocks, the  *)
(* administrator's changes of the vdev tree (spa_vdev_enter, _exit) and of *)
(* vdev states (spa_vdev_state_enter, _exit), and zpool clear.  Of the     *)
(* seven locks the four with more than one kind of user are modelled.  A   *)
(* log block or a zio is one activity with the thread that started it.     *)
(***************************************************************************)
EXTENDS Naturals, FiniteSets, FiniteSetsExt

CONSTANTS
    Sync,           \* the sync thread of the pool
    LogWriters,     \* log blocks that may be in flight at once
    VdevOps,        \* threads that change the vdev tree
    StateOps,       \* threads that change vdev states, or clear errors
    NoThread,
    Root,           \* spa_is_root
    TXG_DEFER_SIZE, \* groups that txg_wait_synced(0) waits beyond the open one
    MaxFails        \* bound on the failures to write the labels

Admins == VdevOps \cup StateOps
Threads == {Sync} \cup LogWriters \cup Admins

ASSUME ConfigAssumption ==
    /\ NoThread \notin Threads
    /\ Sync \notin LogWriters \cup Admins
    /\ LogWriters \cap Admins = {} /\ VdevOps \cap StateOps = {}
    /\ Root \in BOOLEAN
    /\ TXG_DEFER_SIZE \in Nat /\ MaxFails \in Nat

(* The locks, in the order of their bits.                                  *)
SCL_CONFIG == 0
SCL_STATE == 1
SCL_ALLOC == 2
SCL_ZIO == 3
SCL_ALL == 0 .. 3
SCL_STATE_ALL == {SCL_STATE, SCL_ZIO}

VARIABLES
    scl_writer,             \* the fields of each spa_config_lock_t:
    scl_count,              \*   the tags that are counted,
    scl_write_wanted,
    scl_cv,                 \*   the threads asleep on it
    left,                   \* the locks a spa_config_enter has still to take
    slept,                  \* whether it has slept for the first of them
    pc,                     \* where each thread is
    spa_namespace_lock,     \* its owner
    spa_state_dirty_list,   \* the changes are named by who made them
    spa_config_dirty_list,
    spa_suspended,
    synced,     \* groups that became spa_ubsync and not yet tx_synced_txg
    waitfor,    \* how many more groups each thread needs synced
    closed,     \* the next group to be synced is not open any more
    lwb_tx,     \* 0, 1 or 2: none, in the next group, in the one after it
    oplocks,    \* argument of spa_vdev_state_enter; empty for zpool clear
    fails       \* label writes that failed

lockVars == <<scl_writer, scl_count, scl_write_wanted, scl_cv, left, slept>>
dirtyVars == <<spa_state_dirty_list, spa_config_dirty_list>>
txgVars == <<synced, waitfor, closed, lwb_tx>>
vars == <<lockVars, pc, spa_namespace_lock, dirtyVars, spa_suspended,
          txgVars, oplocks, fails>>

Init ==
    /\ scl_writer = [l \in SCL_ALL |-> NoThread]
    /\ scl_count = [l \in SCL_ALL |-> {}]
    /\ scl_write_wanted = [l \in SCL_ALL |-> 0]
    /\ scl_cv = [l \in SCL_ALL |-> {}]
    /\ left = [t \in Threads |-> {}]
    /\ slept = [t \in Threads |-> FALSE]
    /\ pc = [t \in Threads |-> "idle"]
    /\ spa_namespace_lock = NoThread
    /\ spa_state_dirty_list = {} /\ spa_config_dirty_list = {}
    /\ spa_suspended = FALSE
    /\ synced = 0
    /\ waitfor = [t \in Threads |-> 0]
    /\ closed = FALSE
    /\ lwb_tx = [t \in LogWriters |-> 0]
    /\ oplocks = [t \in StateOps |-> {}]
    /\ fails = 0

-----------------------------------------------------------------------------
(* spa_config_enter takes its locks one by one, each in its own critical   *)
(* section; the thread at p goes on at q when it has the last.  The locks  *)
(* of a spa_config_exit are dropped in one step: nobody waits meanwhile.   *)

Asleep(t) == \E l \in SCL_ALL : t \in scl_cv[l]

(* A thread at p is about to enter locks, or on its way: what is left.     *)
Todo(t, locks) == IF left[t] = {} THEN locks ELSE left[t]

Takes(t, l, todo, q) ==
    /\ scl_count' = [scl_count EXCEPT ![l] = @ \cup {t}]
    /\ left' = [left EXCEPT ![t] = todo \ {l}]
    /\ slept' = [slept EXCEPT ![t] = FALSE]
    /\ pc' = [pc EXCEPT ![t] = IF todo = {l} THEN q ELSE @]
    /\ UNCHANGED scl_cv

Sleeps(t, l, todo) ==
    /\ scl_cv' = [scl_cv EXCEPT ![l] = @ \cup {t}]
    /\ left' = [left EXCEPT ![t] = todo]
    /\ slept' = [slept EXCEPT ![t] = TRUE]
    /\ UNCHANGED <<scl_count, pc>>

(* Mutant: readers do not wait for writers that are waiting.               *)
ReaderMayPast(l) == scl_writer[l] = NoThread
(* Mutant: readers look only for writers that are waiting.                 *)
ReaderMayShare(l) == scl_write_wanted[l] = 0
ReaderMay(l) == scl_writer[l] = NoThread /\ scl_write_wanted[l] = 0

EnterReader(t, p, locks, q) ==
    /\ pc[t] = p /\ ~Asleep(t)
    /\ LET todo == Todo(t, locks)
           l == Min(todo)
       IN IF ReaderMay(l) THEN Takes(t, l, todo, q) ELSE Sleeps(t, l, todo)
    /\ UNCHANGED <<scl_writer, scl_write_wanted>>

(* A writer that was woken first takes back its scl_write_wanted.          *)
EnterWriter(t, p, locks, q) ==
    /\ pc[t] = p /\ ~Asleep(t)
    /\ LET todo == Todo(t, locks)
           l == Min(todo)
           wanted == scl_write_wanted[l] - (IF slept[t] THEN 1 ELSE 0)
       IN IF scl_count[l] = {}
          THEN /\ scl_writer' = [scl_writer EXCEPT ![l] = t]
               /\ scl_write_wanted' = [scl_write_wanted EXCEPT ![l] = wanted]
               /\ Takes(t, l, todo, q)
          ELSE /\ scl_write_wanted' =
                    [scl_write_wanted EXCEPT ![l] = wanted + 1]
               /\ Sleeps(t, l, todo)
               /\ UNCHANGED scl_writer

(* The last to leave a lock wakes everybody who waits for it.              *)
Exit(t, p, locks, q) ==
    LET last == {l \in locks : scl_count[l] = {t}} IN
    /\ pc[t] = p
    /\ scl_count' = [l \in SCL_ALL |->
         IF l \in locks THEN scl_count[l] \ {t} ELSE scl_count[l]]
    /\ scl_writer' = [l \in SCL_ALL |->
         IF l \in last THEN NoThread ELSE scl_writer[l]]
    /\ scl_cv' = [l \in SCL_ALL |-> IF l \in last THEN {} ELSE scl_cv[l]]
    /\ pc' = [pc EXCEPT ![t] = q]
    /\ UNCHANGED <<scl_write_wanted, left, slept>>

(* A step without these locks.                                             *)
Goes(t, p, q) ==
    /\ pc[t] = p
    /\ pc' = [pc EXCEPT ![t] = q]
    /\ UNCHANGED lockVars

-----------------------------------------------------------------------------
(* The groups of transactions, as far as the callers wait for them.        *)

(* txg_quiesce: what is assigned from now on is in a later group.          *)
CloseTxg ==
    /\ ~closed
    /\ closed' = TRUE
    /\ UNCHANGED <<lockVars, pc, spa_namespace_lock, dirtyVars,
                   spa_suspended, synced, waitfor, lwb_tx, oplocks, fails>>

(* tx_open_txg + TXG_DEFER_SIZE, counted from tx_synced_txg.               *)
OpenDeferred ==
    (IF pc[Sync] = "idle" THEN 0 ELSE 1) + (IF closed THEN 1 ELSE 0)
    + 1 + TXG_DEFER_SIZE

-----------------------------------------------------------------------------
(* spa_sync.                                                               *)

(* The sync thread takes a group that nobody holds any more.               *)
SyncStart ==
    /\ closed /\ \A t \in LogWriters : lwb_tx[t] # 1
    /\ Goes(Sync, "idle", "sync_begin")
    /\ closed' = FALSE
    /\ lwb_tx' = [t \in LogWriters |-> IF lwb_tx[t] = 2 THEN 1 ELSE 0]
    /\ UNCHANGED <<spa_namespace_lock, dirtyVars, spa_suspended,
                   synced, waitfor, oplocks, fails>>

(* The calls it makes until the passes begin, and those of a pass: blocks  *)
(* are allocated, which may need a read, and written.                      *)
SyncCalls ==
    \/ EnterReader(Sync, "sync_begin", {SCL_CONFIG}, "sync_state")
    \/ EnterReader(Sync, "sync_state", {SCL_STATE}, "sync_dirty")
    \/ /\ spa_state_dirty_list # {}
       /\ Exit(Sync, "sync_dirty", {SCL_CONFIG, SCL_STATE}, "sync_upgrade")
    \/ /\ spa_state_dirty_list = {}
       /\ Exit(Sync, "sync_dirty", {SCL_STATE}, "sync_pass")
    \/ EnterWriter(Sync, "sync_upgrade", {SCL_CONFIG, SCL_STATE}, "sync_clean")
    \/ EnterReader(Sync, "sync_downgrade", {SCL_CONFIG, SCL_STATE},
                   "sync_dirty")
    \/ EnterReader(Sync, "sync_pass", {SCL_ALLOC}, "sync_alloc")
    \/ EnterReader(Sync, "sync_alloc", {SCL_ZIO}, "sync_zio")
    \/ Exit(Sync, "sync_zio", {SCL_ZIO}, "sync_allocated")
    \/ Exit(Sync, "sync_allocated", {SCL_ALLOC}, "sync_uberblock")
    \/ EnterReader(Sync, "sync_uberblock", {SCL_STATE}, "sync_labels")
    \/ Exit(Sync, "sync_labels", {SCL_STATE}, "sync_done")

SyncCall ==
    /\ SyncCalls
    /\ UNCHANGED <<spa_namespace_lock, dirtyVars, spa_suspended,
                   txgVars, oplocks, fails>>

(* With both locks as writer the state changes become config changes.      *)
SyncStateClean ==
    /\ Exit(Sync, "sync_clean", {SCL_CONFIG, SCL_STATE}, "sync_downgrade")
    /\ spa_config_dirty_list' = spa_config_dirty_list \cup spa_state_dirty_list
    /\ spa_state_dirty_list' = {}
    /\ UNCHANGED <<spa_namespace_lock, spa_suspended, txgVars,
                   oplocks, fails>>

(* The labels cannot be written: the pool is suspended ...                 *)
SyncLabelsFail ==
    /\ fails < MaxFails
    /\ Exit(Sync, "sync_labels", {SCL_STATE}, "sync_failed")
    /\ fails' = fails + 1
    /\ UNCHANGED <<spa_namespace_lock, dirtyVars, spa_suspended,
                   txgVars, oplocks>>

ZioSuspend ==
    /\ Goes(Sync, "sync_failed", "sync_suspended")
    /\ spa_suspended' = TRUE
    /\ UNCHANGED <<spa_namespace_lock, dirtyVars, txgVars, oplocks,
                   fails>>

(* ... until zio_resume.                                                   *)
ZioResumeWait ==
    /\ ~spa_suspended
    /\ Goes(Sync, "sync_suspended", "sync_uberblock")
    /\ UNCHANGED <<spa_namespace_lock, dirtyVars, spa_suspended,
                   txgVars, oplocks, fails>>

(* The end of spa_sync: spa_ubsync is set before SCL_CONFIG is dropped.    *)
SyncUbsync ==
    /\ Exit(Sync, "sync_done", {SCL_CONFIG}, "sync_return")
    /\ spa_config_dirty_list' = {}
    /\ synced' = 1
    /\ UNCHANGED <<spa_namespace_lock, spa_state_dirty_list,
                   spa_suspended, waitfor, closed, lwb_tx, oplocks, fails>>

(* txg_sync_thread: tx_synced_txg is the group and waiters are woken.      *)
SyncReturn ==
    /\ Goes(Sync, "sync_return", "idle")
    /\ synced' = 0
    /\ waitfor' = [t \in Threads |->
         IF waitfor[t] = 0 THEN 0 ELSE waitfor[t] - 1]
    /\ UNCHANGED <<spa_namespace_lock, dirtyVars, spa_suspended,
                   closed, lwb_tx, oplocks, fails>>

SyncThread ==
    \/ SyncStart \/ SyncCall \/ SyncStateClean \/ SyncLabelsFail
    \/ ZioSuspend \/ ZioResumeWait \/ SyncUbsync \/ SyncReturn

-----------------------------------------------------------------------------
(* A log block, from zil_lwb_write_issue to zil_lwb_flush_vdevs_done.      *)

LwbIssue(t) ==
    /\ Goes(t, "idle", "lwb_issue")
    /\ lwb_tx' = [lwb_tx EXCEPT ![t] = IF closed THEN 2 ELSE 1]
    /\ UNCHANGED <<spa_namespace_lock, dirtyVars, spa_suspended,
                   synced, waitfor, closed, oplocks, fails>>

(* The next block is allocated, for which a space map may have to be read; *)
(* SCL_STATE is held for the block until it is flushed, SCL_ZIO for its    *)
(* write.                                                                  *)
LwbCalls(t) ==
    \/ EnterReader(t, "lwb_issue", {SCL_ALLOC}, "lwb_alloc")
    \/ EnterReader(t, "lwb_issue", {SCL_ALLOC}, "lwb_load")
    \/ EnterReader(t, "lwb_load", {SCL_ZIO}, "lwb_read")
    \/ Exit(t, "lwb_read", {SCL_ZIO}, "lwb_alloc")
    \/ Exit(t, "lwb_alloc", {SCL_ALLOC}, "lwb_allocated")
    \/ EnterReader(t, "lwb_allocated", {SCL_STATE}, "lwb_issued")
    \/ EnterReader(t, "lwb_issued", {SCL_ZIO}, "lwb_zio")
    \/ Exit(t, "lwb_zio", {SCL_ZIO}, "lwb_flush")
    \/ Exit(t, "lwb_flush", {SCL_STATE}, "lwb_flushed")

LwbCall(t) ==
    /\ LwbCalls(t)
    /\ UNCHANGED <<spa_namespace_lock, dirtyVars, spa_suspended,
                   txgVars, oplocks, fails>>

LwbDone(t) ==
    /\ Goes(t, "lwb_flushed", "idle")
    /\ lwb_tx' = [lwb_tx EXCEPT ![t] = 0]
    /\ UNCHANGED <<spa_namespace_lock, dirtyVars, spa_suspended,
                   synced, waitfor, closed, oplocks, fails>>

LogWriter(t) == LwbIssue(t) \/ LwbCall(t) \/ LwbDone(t)

-----------------------------------------------------------------------------
(* spa_vdev_enter and spa_vdev_exit.                                       *)

(* The ioctl is refused while the pool is suspended (POOL_CHECK_SUSPENDED).*)
VdevStart(t) ==
    /\ ~spa_suspended
    /\ Goes(t, "idle", "vdev_enter")
    /\ UNCHANGED <<spa_namespace_lock, dirtyVars, spa_suspended,
                   txgVars, oplocks, fails>>

VdevEnter(t) ==
    /\ spa_namespace_lock = NoThread
    /\ Goes(t, "vdev_enter", "vdev_config_enter")
    /\ spa_namespace_lock' = t
    /\ UNCHANGED <<dirtyVars, spa_suspended, txgVars, oplocks, fails>>

(* Mutant: tx_synced_txg + 1, which is the group just synced for a moment.  *)
VdevTxgSynced == 1
(* What spa_vdev_config_enter returns, counted from tx_synced_txg:         *)
(* spa_last_synced_txg(spa) + 1.                                           *)
VdevTxg == synced + 1

(* The tree is changed, and the locks dropped before the group is waited   *)
(* for ...                                                                 *)
VdevChange(t) ==
    /\ Exit(t, "vdev_change", SCL_ALL, "vdev_wait")
    /\ spa_config_dirty_list' = spa_config_dirty_list \cup {t}
    /\ waitfor' = [waitfor EXCEPT ![t] = VdevTxg]
    /\ UNCHANGED <<spa_namespace_lock, spa_state_dirty_list,
                   spa_suspended, synced, closed, lwb_tx, oplocks, fails>>

(* ... or the operation fails.  Either way there may be a vdev to be freed *)
(* under the locks.                                                        *)
VdevCalls(t) ==
    \/ EnterWriter(t, "vdev_config_enter", SCL_ALL, "vdev_change")
    \/ Exit(t, "vdev_change", SCL_ALL, "vdev_free_enter")
    \/ Exit(t, "vdev_change", SCL_ALL, "vdev_exit")
    \/ waitfor[t] = 0 /\ Goes(t, "vdev_wait", "vdev_free_enter")
    \/ waitfor[t] = 0 /\ Goes(t, "vdev_wait", "vdev_exit")
    \/ EnterWriter(t, "vdev_free_enter", SCL_ALL, "vdev_free")
    \/ Exit(t, "vdev_free", SCL_ALL, "vdev_exit")

VdevCall(t) ==
    /\ VdevCalls(t)
    /\ UNCHANGED <<spa_namespace_lock, dirtyVars, spa_suspended,
                   txgVars, oplocks, fails>>

VdevExit(t) ==
    /\ Goes(t, "vdev_exit", "idle")
    /\ spa_namespace_lock' = NoThread
    /\ UNCHANGED <<dirtyVars, spa_suspended, txgVars, oplocks, fails>>

VdevOp(t) ==
    VdevStart(t) \/ VdevEnter(t) \/ VdevChange(t) \/ VdevCall(t) \/ VdevExit(t)

-----------------------------------------------------------------------------
(* spa_vdev_state_enter and _exit, for zpool offline and zpool clear.      *)

StateLocks(t) == SCL_STATE_ALL \cup oplocks[t]

(* spa_open looks the pool up under spa_namespace_lock.  While the pool is *)
(* suspended only zpool clear is let in; it is used for nothing else here. *)
StateOpen(t) ==
    /\ spa_namespace_lock = NoThread
    /\ Goes(t, "idle", "state_enter")
    /\ oplocks' = [oplocks EXCEPT ![t] =
         IF spa_suspended THEN {} ELSE {SCL_ALLOC}]
    /\ UNCHANGED <<spa_namespace_lock, dirtyVars, spa_suspended,
                   txgVars, fails>>

(* The locks above SCL_ZIO, with which vdev_hold of a root pool may read.  *)
HighLocks(t) == {l \in StateLocks(t) : l < SCL_ZIO}

(* Without vdev_hold the two calls take the locks as one call would.       *)
StateCalls(t) ==
    \/ EnterWriter(t, "state_enter", HighLocks(t),
                   IF Root THEN "state_hold" ELSE "state_held")
    \/ EnterReader(t, "state_hold", {SCL_ZIO}, "state_zio")
    \/ Exit(t, "state_zio", {SCL_ZIO}, "state_held")
    \/ EnterWriter(t, "state_held", StateLocks(t) \ HighLocks(t),
                   "state_change")

StateCall(t) ==
    /\ StateCalls(t)
    /\ UNCHANGED <<spa_namespace_lock, dirtyVars, spa_suspended,
                   txgVars, oplocks, fails>>

(* The state of a vdev is changed.                                         *)
StateChange(t) ==
    /\ oplocks[t] # {}
    /\ Exit(t, "state_change", StateLocks(t), "state_wait")
    /\ spa_state_dirty_list' = spa_state_dirty_list \cup {t}
    /\ UNCHANGED <<spa_namespace_lock, spa_config_dirty_list,
                   spa_suspended, txgVars, oplocks, fails>>

(* vdev_clear may change states too; nobody waits for that to be synced.   *)
StateClear(t) ==
    /\ oplocks[t] = {}
    /\ Exit(t, "state_change", StateLocks(t), "state_resume")
    /\ \E changed \in SUBSET {t} :
         spa_state_dirty_list' = spa_state_dirty_list \cup changed
    /\ UNCHANGED <<spa_namespace_lock, spa_config_dirty_list, spa_suspended,
                   txgVars, oplocks, fails>>

(* An operation fails, or zpool clear finds no such vdev.                  *)
StateFail(t) ==
    /\ Exit(t, "state_change", StateLocks(t), "idle")
    /\ oplocks' = [oplocks EXCEPT ![t] = {}]
    /\ UNCHANGED <<spa_namespace_lock, dirtyVars, spa_suspended, txgVars,
                   fails>>

(* txg_wait_synced(0).                                                     *)
StateWait(t) ==
    /\ Goes(t, "state_wait", "state_waiting")
    /\ waitfor' = [waitfor EXCEPT ![t] = OpenDeferred]
    /\ UNCHANGED <<spa_namespace_lock, dirtyVars, spa_suspended,
                   synced, closed, lwb_tx, oplocks, fails>>

(* The cache file is written under spa_namespace_lock.                     *)
StateCache(t) ==
    /\ waitfor[t] = 0 /\ spa_namespace_lock = NoThread
    /\ Goes(t, "state_waiting", "idle")
    /\ oplocks' = [oplocks EXCEPT ![t] = {}]
    /\ UNCHANGED <<spa_namespace_lock, dirtyVars, spa_suspended, txgVars,
                   fails>>

ZioResume(t) ==
    /\ Goes(t, "state_resume", "idle")
    /\ spa_suspended' = FALSE
    /\ UNCHANGED <<spa_namespace_lock, dirtyVars, txgVars, oplocks,
                   fails>>

StateOp(t) ==
    \/ StateOpen(t) \/ StateCall(t) \/ StateChange(t) \/ StateFail(t)
    \/ StateClear(t) \/ StateWait(t) \/ StateCache(t) \/ ZioResume(t)

Next ==
    \/ CloseTxg
    \/ SyncThread
    \/ \E t \in LogWriters : LogWriter(t)
    \/ \E t \in VdevOps : VdevOp(t)
    \/ \E t \in StateOps : StateOp(t)

Spec == Init /\ [][Next]_vars

(* Threads and zios inside a call go on and groups are synced; nobody has  *)
(* to start an operation.                                                  *)
FairSpec ==
    /\ Spec
    /\ WF_vars(CloseTxg) /\ WF_vars(SyncThread)
    /\ \A t \in LogWriters : WF_vars(LwbCall(t) \/ LwbDone(t))
    /\ \A t \in VdevOps :
         WF_vars(VdevEnter(t) \/ VdevChange(t) \/ VdevCall(t) \/ VdevExit(t))
    /\ \A t \in StateOps :
         WF_vars(StateCall(t) \/ StateChange(t) \/ StateFail(t)
                 \/ StateClear(t) \/ StateWait(t) \/ StateCache(t)
                 \/ ZioResume(t))

-----------------------------------------------------------------------------
(* While the vdev tree is changed nothing is allocated, written or in      *)
(* flight and no label is written; while vdev states are changed no zio,   *)
(* log block or label write is under way, however the locks were taken.    *)
ConfigStable ==
    \A t, u \in Threads : t # u =>
        /\ pc[t] \in {"vdev_change", "vdev_free"} =>
             pc[u] \notin
               {"vdev_change", "vdev_free", "state_change", "state_hold",
                "state_zio", "state_held", "sync_dirty", "sync_clean",
                "sync_pass", "sync_alloc", "sync_zio", "sync_allocated",
                "sync_uberblock", "sync_labels", "sync_failed",
                "sync_suspended", "sync_done", "lwb_alloc", "lwb_load",
                "lwb_read", "lwb_issued", "lwb_zio", "lwb_flush"}
        /\ pc[t] = "state_change" =>
             pc[u] \notin
               {"state_change", "sync_dirty", "sync_clean", "sync_zio",
                "sync_labels", "lwb_read", "lwb_issued", "lwb_zio",
                "lwb_flush"}

(* When spa_vdev_exit and spa_vdev_state_exit are done waiting, the change *)
(* they made is on disk: "zpool(8) commands are synchronous".              *)
ChangesSynced ==
    \A t \in Admins :
        pc[t] \in {"vdev_wait", "vdev_free_enter", "vdev_free",
                  "vdev_exit", "state_waiting"}
        /\ waitfor[t] = 0
        => t \notin spa_state_dirty_list \cup spa_config_dirty_list

(* Once the pool is not suspended any more every operation ends: a waiting *)
(* writer is not passed by log blocks and groups that keep coming, and no  *)
(* cycle of threads that hold locks, log blocks and groups waits for       *)
(* itself.  Only an administrator who never stops can keep others waiting. *)
ConfigOpsEnd ==
    \A t \in LogWriters \cup Admins :
        /\ <>[]~spa_suspended
        /\ \A a \in Admins \ {t} : <>[](pc[a] = "idle") \/ <>[](pc[a] # "idle")
        => (pc[t] # "idle") ~> (pc[t] = "idle")
=============================================================================
