-------------------------------- MODULE Txg --------------------------------
(***************************************************************************)
(* The ZFS transaction group pipeline (src/kernel/fs/zfs/txg.c).           *)
(*                                                                         *)
(* A transaction (dmu_tx) takes a hold on the open group, keeps the        *)
(* tc_open_lock of the CPU it ran on until it is assigned, and drops its   *)
(* hold when it commits.  The quiesce thread closes the open group by      *)
(* taking every tc_open_lock, opens the next one, waits until the holds on *)
(* the closed group are gone and hands it to the sync thread, which writes *)
(* it (spa_sync) and then hands the commit callbacks to a task queue.      *)
(* Other threads wait for a group to be open or synced, or stop the pool.  *)
(*                                                                         *)
(* One action is one critical section of tx_sync_lock or tc_lock, ended by *)
(* an unlock or by the cv_wait that gives the lock up.  tc_open_lock is    *)
(* held across sections, so its owner is part of the state.                *)
(***************************************************************************)
EXTENDS Naturals, FiniteSets

CONSTANTS
    Txs,        \* transactions; a retried dmu_tx is another member
    Waiters,    \* threads that call txg_wait_synced, txg_wait_open, txg_sync_stop
    NCPU,       \* max_ncpus
    TXG0,       \* the group txg_init opens (TXG_INITIAL for a new pool)
    MaxTxg,     \* bound: once this group is open nobody asks for more
    WaitArgs    \* the group numbers the waiters pass; 0 asks for the default

ASSUME TxgAssumption ==
    /\ IsFiniteSet(Txs)
    /\ NCPU \in Nat \ {0}
    /\ TXG0 \in Nat /\ TXG0 >= 4
    /\ MaxTxg \in Nat
    /\ WaitArgs \subseteq Nat

Free == "free"                        \* owner of a free tc_open_lock

(* The threads that own locks and sleep on condition variables are distinct. *)
ASSUME ThreadAssumption ==
    /\ Txs \cap Waiters = {}
    /\ {"quiesce", "sync", Free} \cap (Txs \cup Waiters) = {}

TXG_CONCURRENT_STATES == 3
TXG_SIZE == 4
TXG_DEFER_SIZE == 2

CPUs == 1 .. NCPU
NoCpu == 0                            \* th_cpu == NULL, and no lock wanted
Slots == 0 .. TXG_SIZE - 1
(* Mutant: too few slots for the live groups.                              *)
SlotTwo(txg) == txg % 2
Slot(txg) == txg % TXG_SIZE           \* txg & TXG_MASK

Threads == {"quiesce", "sync"} \cup Txs \cup Waiters
CVs == {"sync_more", "sync_done", "quiesce_more", "quiesce_done", "exit"}

VARIABLES
    (* tx_state: group numbers, 0 for none *)
    tx_open_txg, tx_quiescing_txg, tx_quiesced_txg, tx_syncing_txg,
    tx_synced_txg, tx_sync_txg_waiting, tx_quiesce_txg_waiting,
    tx_threads, tx_exiting,
    (* tx_cpu *)
    tc_open_lock,     \* CPU -> its owner
    tc_count,         \* CPU -> slot -> holds
    tc_callbacks,     \* CPU -> slot -> transactions with a callback listed
    (* the condition variables of tx_state: the threads asleep on each *)
    cv,
    (* txg_handle and progress of each transaction *)
    th_st, th_cpu, th_txg,
    (* tx_commit_cb_taskq: callbacks queued, and callbacks run *)
    cb_taskq, cb_called,
    (* the quiesce thread: where it is, and the CPU it locks or drains *)
    q_pc, q_cpu,
    (* the sync thread: where it is, and whether its timer has run out *)
    s_pc, s_due,
    (* what each waiter has called, and the group it waits for *)
    w_op, w_txg,
    pool              \* life of the pool: decides who may call in

pipeVars == <<tx_open_txg, tx_quiescing_txg, tx_quiesced_txg,
              tx_syncing_txg, tx_synced_txg>>
askVars == <<tx_sync_txg_waiting, tx_quiesce_txg_waiting>>
lifeVars == <<tx_threads, tx_exiting, pool>>
cpuVars == <<tc_open_lock, tc_count, tc_callbacks>>
thVars == <<th_st, th_cpu, th_txg>>
cbVars == <<cb_taskq, cb_called>>
qVars == <<q_pc, q_cpu>>
sVars == <<s_pc, s_due>>
wVars == <<w_op, w_txg>>
vars == <<pipeVars, askVars, lifeVars, cpuVars, cv, thVars, cbVars, qVars,
          sVars, wVars>>

TxStates == {"new", "opening", "held", "delay", "delayed", "assigned", "unassign",
             "registered", "done"}
WaitOps == {"none", "synced", "open", "stop", "stopsync", "stopexit"}

(* Every variable of txg.c has its range; tc_count never goes below zero    *)
(* and tx_threads never above the two threads there are.                   *)
TypeOK ==
    /\ tx_open_txg \in Nat
    /\ tx_quiescing_txg \in Nat
    /\ tx_quiesced_txg \in Nat
    /\ tx_syncing_txg \in Nat
    /\ tx_synced_txg \in Nat
    /\ tx_sync_txg_waiting \in Nat
    /\ tx_quiesce_txg_waiting \in Nat
    /\ tx_threads \in 0 .. 2
    /\ tx_exiting \in BOOLEAN
    /\ tc_open_lock \in [CPUs -> {Free, "quiesce"} \cup Txs]
    /\ tc_count \in [CPUs -> [Slots -> Nat]]
    /\ tc_callbacks \in [CPUs -> [Slots -> SUBSET Txs]]
    /\ cv \in [CVs -> SUBSET Threads]
    /\ th_st \in [Txs -> TxStates]
    /\ th_cpu \in [Txs -> CPUs \cup {NoCpu}]
    /\ th_txg \in [Txs -> Nat]
    /\ cb_taskq \in SUBSET Txs
    /\ cb_called \in SUBSET Txs
    /\ q_pc \in {"off", "wait", "lock", "drain", "tc_cv", "exited"}
    /\ q_cpu \in 1 .. NCPU + 1
    /\ s_pc \in {"off", "wait", "prompt", "sync", "exited"}
    /\ s_due \in BOOLEAN
    /\ w_op \in [Waiters -> WaitOps]
    /\ w_txg \in [Waiters -> Nat]
    /\ pool \in {"loading", "active", "exporting", "stopped", "destroyed"}

-----------------------------------------------------------------------------
(* Condition variables.  A broadcast empties the set of sleepers.          *)
Sleep(c, t, sleepers) == [sleepers EXCEPT ![c] = @ \cup {t}]
Broadcast(cs, sleepers) == [c \in CVs |-> IF c \in cs THEN {} ELSE sleepers[c]]

Raise(asked, txg) == IF asked < txg THEN txg ELSE asked

(* Transactions between txg_hold_open and the end of txg_rele_to_sync.     *)
Active(t) == th_st[t] \notin {"new", "done"}
(* Those that own a tc_open_lock, and those the count already includes.    *)
OwnsLock(t) == th_st[t] \in {"opening", "held", "delay", "delayed"}
Counted(t) == Active(t) /\ th_st[t] # "opening"

(* txg_init: bzero and the first open group.                               *)
Init ==
    /\ tx_open_txg = TXG0
    /\ tx_quiescing_txg = 0
    /\ tx_quiesced_txg = 0
    /\ tx_syncing_txg = 0
    /\ tx_synced_txg = 0
    /\ tx_sync_txg_waiting = 0
    /\ tx_quiesce_txg_waiting = 0
    /\ tx_threads = 0
    /\ tx_exiting = FALSE
    /\ tc_open_lock = [c \in CPUs |-> Free]
    /\ tc_count = [c \in CPUs |-> [g \in Slots |-> 0]]
    /\ tc_callbacks = [c \in CPUs |-> [g \in Slots |-> {}]]
    /\ cv = [c \in CVs |-> {}]
    /\ th_st = [t \in Txs |-> "new"]
    /\ th_cpu = [t \in Txs |-> NoCpu]
    /\ th_txg = [t \in Txs |-> 0]
    /\ cb_taskq = {}
    /\ cb_called = {}
    /\ q_pc = "off"
    /\ q_cpu = 1
    /\ s_pc = "off"
    /\ s_due = FALSE
    /\ w_op = [w \in Waiters |-> "none"]
    /\ w_txg = [w \in Waiters |-> 0]
    /\ pool = "loading"

-----------------------------------------------------------------------------
(* Starting and stopping.                                                  *)

TxgSyncStart ==
    /\ pool = "loading"
    /\ tx_threads' = 2
    /\ q_pc' = "wait"
    /\ s_pc' = "wait"
    /\ pool' = "active"
    /\ UNCHANGED <<pipeVars, askVars, tx_exiting, cpuVars, cv, thVars, cbVars,
                   q_cpu, s_due, wVars>>

(* spa_export_common lets a pool be unloaded only when nobody else holds a *)
(* reference to it: no transaction is active, no other thread is inside.   *)
Idle == /\ \A t \in Txs : ~Active(t)
        /\ \A w \in Waiters : w_op[w] = "none"

(* Mutant: nothing is flushed before the threads are stopped.              *)
StopTargetNone == tx_synced_txg
StopTarget == tx_open_txg + TXG_DEFER_SIZE

(* txg_sync_stop up to the call of txg_wait_synced, whose argument is read *)
(* without a lock.                                                         *)
TxgSyncStop(w) ==
    /\ pool = "active"
    /\ Idle
    /\ pool' = "exporting"
    /\ w_op' = [w_op EXCEPT ![w] = "stop"]
    /\ w_txg' = [w_txg EXCEPT ![w] = StopTarget]
    /\ UNCHANGED <<pipeVars, askVars, tx_threads, tx_exiting, cpuVars, cv,
                   thVars, cbVars, qVars, sVars>>

(* The rest of txg_sync_stop, once its txg_wait_synced has returned.       *)
StopThreads(w) ==
    /\ w_op[w] = "stopsync"
    /\ w \notin cv["sync_done"]
    /\ tx_synced_txg >= w_txg[w]
    /\ tx_exiting' = TRUE
    /\ w_op' = [w_op EXCEPT ![w] = "stopexit"]
    /\ cv' = Sleep("exit", w,
                Broadcast({"quiesce_more", "quiesce_done", "sync_more"}, cv))
    /\ UNCHANGED <<pipeVars, askVars, tx_threads, pool, cpuVars, thVars,
                   cbVars, qVars, sVars, w_txg>>

StopJoin(w) ==
    /\ w_op[w] = "stopexit"
    /\ w \notin cv["exit"]
    /\ IF tx_threads # 0
       THEN /\ cv' = Sleep("exit", w, cv)
            /\ UNCHANGED <<tx_exiting, w_op, pool>>
       ELSE /\ tx_exiting' = FALSE
            /\ w_op' = [w_op EXCEPT ![w] = "none"]
            /\ pool' = "stopped"
            /\ UNCHANGED cv
    /\ UNCHANGED <<pipeVars, askVars, tx_threads, cpuVars, thVars, cbVars,
                   qVars, sVars, w_txg>>

(* txg_fini: taskq_destroy waits for the callbacks still queued.           *)
TxgFini ==
    /\ pool = "stopped"
    /\ cb_taskq = {}
    /\ pool' = "destroyed"
    /\ UNCHANGED <<pipeVars, askVars, tx_threads, tx_exiting, cpuVars, cv,
                   thVars, cbVars, qVars, sVars, wVars>>

-----------------------------------------------------------------------------
(* Transactions.                                                           *)

(* Mutant: the slot of whatever group is open now.                         *)
HandleSlotOpen(t) == Slot(tx_open_txg)
(* The slot of the group that the handle of t names.                       *)
HandleSlot(t) == Slot(th_txg[t])

(* txg_hold_open on CPU c: take tc_open_lock and read tx_open_txg ...      *)
TxgHoldOpen(t, c) ==
    /\ pool = "active"
    /\ tx_open_txg < MaxTxg
    /\ th_st[t] = "new"
    /\ tc_open_lock[c] = Free
    /\ tc_open_lock' = [tc_open_lock EXCEPT ![c] = t]
    /\ th_st' = [th_st EXCEPT ![t] = "opening"]
    /\ th_cpu' = [th_cpu EXCEPT ![t] = c]
    /\ th_txg' = [th_txg EXCEPT ![t] = tx_open_txg]
    /\ UNCHANGED <<pipeVars, askVars, lifeVars, tc_count, tc_callbacks, cv,
                   cbVars, qVars, sVars, wVars>>

(* ... then count the hold under tc_lock; tc_open_lock stays held.         *)
TxgHoldCount(t) ==
    /\ th_st[t] = "opening"
    /\ tc_count' = [tc_count EXCEPT ![th_cpu[t]][HandleSlot(t)] = @ + 1]
    /\ th_st' = [th_st EXCEPT ![t] = "held"]
    /\ UNCHANGED <<pipeVars, askVars, lifeVars, tc_open_lock, tc_callbacks,
                   cv, th_cpu, th_txg, cbVars, qVars, sVars, wVars>>

TxgStalled == tx_quiesce_txg_waiting > tx_open_txg

(* The condition on which txg_delay keeps a transaction of group txg       *)
(* asleep, its time limit apart.                                           *)
DelayCond(txg) == tx_syncing_txg < txg - 1 /\ ~TxgStalled

(* txg_delay, called while the space reservation of an assignment fails    *)
(* with tc_open_lock still held; a call that returns at once is a stutter. *)
TxgDelay(t) ==
    /\ th_st[t] = "held"
    /\ tx_open_txg <= th_txg[t]
    /\ tx_synced_txg # th_txg[t] - 1
    /\ DelayCond(th_txg[t])
    /\ th_st' = [th_st EXCEPT ![t] = "delay"]
    /\ cv' = Sleep("quiesce_more", t, cv)
    /\ UNCHANGED <<pipeVars, askVars, lifeVars, cpuVars, th_cpu, th_txg,
                   cbVars, qVars, sVars, wVars>>

(* The loop of txg_delay: asleep, only the timeout ends it; woken, it ends *)
(* unless time is left and the condition still holds.                      *)
TxgDelayEnd(t) ==
    /\ th_st[t] = "delay"
    /\ th_st' = [th_st EXCEPT ![t] = "delayed"]
    /\ cv' = [cv EXCEPT !["quiesce_more"] = @ \ {t}]
    /\ UNCHANGED <<pipeVars, askVars, lifeVars, cpuVars, th_cpu, th_txg,
                   cbVars, qVars, sVars, wVars>>

TxgDelayAgain(t) ==
    /\ th_st[t] = "delay"
    /\ t \notin cv["quiesce_more"]
    /\ DelayCond(th_txg[t])
    /\ cv' = Sleep("quiesce_more", t, cv)
    /\ UNCHANGED <<pipeVars, askVars, lifeVars, cpuVars, thVars, cbVars,
                   qVars, sVars, wVars>>

(* After a delay the assignment fails and dmu_tx_unassign makes this call. *)
TxgReleToQuiesce(t) ==
    /\ th_st[t] \in {"held", "delayed"}
    /\ tc_open_lock' = [tc_open_lock EXCEPT ![th_cpu[t]] = Free]
    /\ th_st' = [th_st EXCEPT ![t] = IF @ = "held" THEN "assigned" ELSE "unassign"]
    /\ UNCHANGED <<pipeVars, askVars, lifeVars, tc_count, tc_callbacks, cv,
                   th_cpu, th_txg, cbVars, qVars, sVars, wVars>>

(* dmu_tx_commit with callbacks calls this before txg_rele_to_sync.        *)
TxgRegisterCallbacks(t) ==
    /\ th_st[t] = "assigned"
    /\ tc_callbacks' =
         [tc_callbacks EXCEPT ![th_cpu[t]][HandleSlot(t)] = @ \cup {t}]
    /\ th_st' = [th_st EXCEPT ![t] = "registered"]
    /\ UNCHANGED <<pipeVars, askVars, lifeVars, tc_open_lock, tc_count, cv,
                   th_cpu, th_txg, cbVars, qVars, sVars, wVars>>

(* dmu_tx_commit, or dmu_tx_unassign of a failed assignment.  The          *)
(* broadcast of tc_cv wakes the quiesce thread if it drains this count.    *)
TxgReleToSync(t) ==
    /\ th_st[t] \in {"assigned", "unassign", "registered"}
    /\ LET c == th_cpu[t]
           g == HandleSlot(t)
       IN /\ tc_count' = [tc_count EXCEPT ![c][g] = @ - 1]
          /\ q_pc' = IF /\ q_pc = "tc_cv"
                        /\ q_cpu = c
                        /\ Slot(tx_quiescing_txg) = g
                        /\ tc_count[c][g] = 1
                     THEN "drain" ELSE q_pc
    /\ th_st' = [th_st EXCEPT ![t] = "done"]
    /\ th_cpu' = [th_cpu EXCEPT ![t] = NoCpu]
    /\ UNCHANGED <<pipeVars, askVars, lifeVars, tc_open_lock, tc_callbacks,
                   cv, th_txg, cbVars, q_cpu, sVars, wVars>>

(* A worker of tx_commit_cb_taskq in txg_do_callbacks.                     *)
TxgDoCallbacks(t) ==
    /\ t \in cb_taskq
    /\ cb_taskq' = cb_taskq \ {t}
    /\ cb_called' = cb_called \cup {t}
    /\ UNCHANGED <<pipeVars, askVars, lifeVars, cpuVars, cv, thVars, qVars,
                   sVars, wVars>>

-----------------------------------------------------------------------------
(* The quiesce thread.                                                     *)

(* Mutant: a group still waiting to be synced does not hold us back.       *)
QuiesceIdleNoCheck == tx_open_txg >= tx_quiesce_txg_waiting
QuiesceIdle == tx_open_txg >= tx_quiesce_txg_waiting \/ tx_quiesced_txg # 0

QuiesceAwake == q_pc = "wait" /\ "quiesce" \notin cv["quiesce_more"]

QuiesceWait ==
    /\ QuiesceAwake
    /\ ~tx_exiting
    /\ QuiesceIdle
    /\ cv' = Sleep("quiesce_more", "quiesce", cv)
    /\ UNCHANGED <<pipeVars, askVars, lifeVars, cpuVars, thVars, cbVars,
                   qVars, sVars, wVars>>

(* txg_thread_exit, called by the quiesce thread.                          *)
QuiesceExit ==
    /\ QuiesceAwake
    /\ tx_exiting
    /\ q_pc' = "exited"
    /\ tx_threads' = tx_threads - 1
    /\ cv' = Broadcast({"exit"}, cv)
    /\ UNCHANGED <<pipeVars, askVars, tx_exiting, pool, cpuVars, thVars,
                   cbVars, q_cpu, sVars, wVars>>

QuiesceStart ==
    /\ QuiesceAwake
    /\ ~tx_exiting
    /\ ~QuiesceIdle
    /\ tx_quiescing_txg' = tx_open_txg
    /\ q_pc' = "lock"
    /\ q_cpu' = 1
    /\ UNCHANGED <<tx_open_txg, tx_quiesced_txg, tx_syncing_txg,
                   tx_synced_txg, askVars, lifeVars, cpuVars, cv, thVars,
                   cbVars, sVars, wVars>>

(* txg_quiesce: every tc_open_lock in turn ...                             *)
QuiesceLock ==
    /\ q_pc = "lock"
    /\ q_cpu <= NCPU
    /\ tc_open_lock[q_cpu] = Free
    /\ tc_open_lock' = [tc_open_lock EXCEPT ![q_cpu] = "quiesce"]
    /\ q_cpu' = q_cpu + 1
    /\ UNCHANGED <<pipeVars, askVars, lifeVars, tc_count, tc_callbacks, cv,
                   thVars, cbVars, q_pc, sVars, wVars>>

(* Mutant: the last CPU is left unlocked.                                  *)
AllLockedButLast == q_cpu = NCPU
AllLocked == q_cpu = NCPU + 1

(* ... then the next group opens and the locks are dropped ...             *)
QuiesceOpenNext ==
    /\ q_pc = "lock"
    /\ AllLocked
    /\ tx_open_txg' = tx_open_txg + 1
    /\ tc_open_lock' = [c \in CPUs |-> Free]
    /\ q_pc' = "drain"
    /\ q_cpu' = 1
    /\ UNCHANGED <<tx_quiescing_txg, tx_quiesced_txg, tx_syncing_txg,
                   tx_synced_txg, askVars, lifeVars, tc_count, tc_callbacks,
                   cv, thVars, cbVars, sVars, wVars>>

(* Mutant: the slot of the group just opened.                              *)
DrainSlotOpen == Slot(tx_open_txg)
DrainSlot == Slot(tx_quiescing_txg)

(* ... and each CPU's count on the closed group is waited for.             *)
QuiesceDrain ==
    /\ q_pc = "drain"
    /\ q_cpu <= NCPU
    /\ IF tc_count[q_cpu][DrainSlot] # 0
       THEN q_pc' = "tc_cv" /\ q_cpu' = q_cpu
       ELSE q_pc' = "drain" /\ q_cpu' = q_cpu + 1
    /\ UNCHANGED <<pipeVars, askVars, lifeVars, cpuVars, cv, thVars, cbVars,
                   sVars, wVars>>

(* Mutant: only the sync thread's idle wait is woken.                      *)
HandOffWakesIdle == {"sync_more"}
HandOffWakes == {"sync_more", "quiesce_done"}

(* Back in txg_quiesce_thread: hand the group to the sync thread.          *)
QuiesceHandOff ==
    /\ q_pc = "drain"
    /\ q_cpu = NCPU + 1
    /\ tx_quiescing_txg' = 0
    /\ tx_quiesced_txg' = tx_quiescing_txg
    /\ cv' = Broadcast(HandOffWakes, cv)
    /\ q_pc' = "wait"
    /\ q_cpu' = 1
    /\ UNCHANGED <<tx_open_txg, tx_syncing_txg, tx_synced_txg, askVars,
                   lifeVars, cpuVars, thVars, cbVars, sVars, wVars>>

-----------------------------------------------------------------------------
(* The sync thread.  s_due stands for the reasons to sync that come from   *)
(* outside: the timer at 0, a scan under way, enough dirty data.           *)

(* Mutant: the timer is not looked at.                                     *)
SyncIdleNoTimer == tx_synced_txg >= tx_sync_txg_waiting /\ tx_quiesced_txg = 0
SyncIdle == /\ ~s_due
            /\ tx_synced_txg >= tx_sync_txg_waiting
            /\ tx_quiesced_txg = 0

(* Awake at the head of the first wait loop, or of the second.             *)
SyncAwake1 == s_pc = "wait" /\ "sync" \notin cv["sync_more"]
SyncAwake2 == s_pc = "prompt" /\ "sync" \notin cv["quiesce_done"]

SyncWait ==
    /\ SyncAwake1
    /\ ~tx_exiting
    /\ SyncIdle
    /\ cv' = Sleep("sync_more", "sync", cv)
    /\ UNCHANGED <<pipeVars, askVars, lifeVars, cpuVars, thVars, cbVars,
                   qVars, sVars, wVars>>

(* cv_timedwait runs into its timeout.                                     *)
SyncTimeout ==
    /\ "sync" \in cv["sync_more"]
    /\ tx_open_txg < MaxTxg
    /\ s_due' = TRUE
    /\ cv' = [cv EXCEPT !["sync_more"] = @ \ {"sync"}]
    /\ UNCHANGED <<pipeVars, askVars, lifeVars, cpuVars, thVars, cbVars,
                   qVars, s_pc, wVars>>

(* Past the first loop: in one critical section the thread exits, takes    *)
(* the quiesced group, or asks for one and sleeps.                         *)
SyncReady == SyncAwake2 \/ (SyncAwake1 /\ (tx_exiting \/ ~SyncIdle))

SyncPrompt ==
    /\ SyncReady
    /\ ~tx_exiting
    /\ tx_quiesced_txg = 0
    /\ tx_quiesce_txg_waiting' = Raise(tx_quiesce_txg_waiting, tx_open_txg + 1)
    /\ cv' = Sleep("quiesce_done", "sync", Broadcast({"quiesce_more"}, cv))
    /\ s_pc' = "prompt"
    /\ UNCHANGED <<pipeVars, tx_sync_txg_waiting, lifeVars, cpuVars, thVars,
                   cbVars, qVars, s_due, wVars>>

SyncExit ==
    /\ SyncReady
    /\ tx_exiting
    /\ s_pc' = "exited"
    /\ tx_threads' = tx_threads - 1
    /\ cv' = Broadcast({"exit"}, cv)
    /\ UNCHANGED <<pipeVars, askVars, tx_exiting, pool, cpuVars, thVars,
                   cbVars, qVars, s_due, wVars>>

(* Mutant: the quiesce thread is not told that its group is taken.         *)
ConsumeWakesNobody == {}
ConsumeWakes == {"quiesce_more"}

SyncConsume ==
    /\ SyncReady
    /\ ~tx_exiting
    /\ tx_quiesced_txg # 0
    /\ tx_quiesced_txg' = 0
    /\ tx_syncing_txg' = tx_quiesced_txg
    /\ cv' = Broadcast(ConsumeWakes, cv)
    /\ s_pc' = "sync"
    /\ UNCHANGED <<tx_open_txg, tx_quiescing_txg, tx_synced_txg, askVars,
                   lifeVars, cpuVars, thVars, cbVars, qVars, s_due, wVars>>

(* What txg_dispatch_callbacks takes from the lists: no lock is held.      *)
Listed(g) == UNION {tc_callbacks[c][g] : c \in CPUs}
Unlisted(g) ==
    [c \in CPUs |-> [tc_callbacks[c] EXCEPT ![g] = {}]]

(* After spa_sync: publish, then txg_dispatch_callbacks; a slow spa_sync   *)
(* leaves the timer at 0.                                                  *)
SyncDone ==
    /\ s_pc = "sync"
    /\ tx_synced_txg' = tx_syncing_txg
    /\ tx_syncing_txg' = 0
    /\ cb_taskq' = cb_taskq \cup Listed(Slot(tx_syncing_txg))
    /\ tc_callbacks' = Unlisted(Slot(tx_syncing_txg))
    /\ cv' = Broadcast({"sync_done"}, cv)
    /\ s_pc' = "wait"
    /\ s_due' \in {FALSE, tx_open_txg < MaxTxg}
    /\ UNCHANGED <<tx_open_txg, tx_quiescing_txg, tx_quiesced_txg, askVars,
                   lifeVars, tc_open_lock, tc_count, thVars, cb_called,
                   qVars, wVars>>

-----------------------------------------------------------------------------
(* Waiting threads.                                                        *)

(* The loop of txg_wait_synced for thread w and group txg.                 *)
SyncedLoop(w, txg, op) ==
    /\ w_txg' = [w_txg EXCEPT ![w] = txg]
    /\ IF tx_synced_txg < txg
       THEN /\ w_op' = [w_op EXCEPT ![w] = op]
            /\ cv' = Sleep("sync_done", w, Broadcast({"sync_more"}, cv))
       ELSE /\ w_op' = [w_op EXCEPT ![w] = IF op = "synced" THEN "none" ELSE op]
            /\ UNCHANGED cv

TxgWaitSynced(w, arg) ==
    /\ pool = "active"
    /\ w_op[w] = "none"
    /\ tx_open_txg < MaxTxg
    /\ LET txg == IF arg = 0 THEN tx_open_txg + TXG_DEFER_SIZE ELSE arg
       IN /\ tx_sync_txg_waiting' = Raise(tx_sync_txg_waiting, txg)
          /\ SyncedLoop(w, txg, "synced")
    /\ UNCHANGED <<pipeVars, tx_quiesce_txg_waiting, lifeVars, cpuVars,
                   thVars, cbVars, qVars, sVars>>

(* The same call made by txg_sync_stop.                                    *)
StopWaitSynced(w) ==
    /\ w_op[w] = "stop"
    /\ tx_sync_txg_waiting' = Raise(tx_sync_txg_waiting, w_txg[w])
    /\ SyncedLoop(w, w_txg[w], "stopsync")
    /\ UNCHANGED <<pipeVars, tx_quiesce_txg_waiting, lifeVars, cpuVars,
                   thVars, cbVars, qVars, sVars>>

(* Woken on tx_sync_done_cv.                                               *)
WaitSyncedWake(w) ==
    /\ \/ w_op[w] = "synced"
       \/ w_op[w] = "stopsync" /\ tx_synced_txg < w_txg[w]
    /\ w \notin cv["sync_done"]
    /\ SyncedLoop(w, w_txg[w], w_op[w])
    /\ UNCHANGED <<pipeVars, askVars, lifeVars, cpuVars, thVars, cbVars,
                   qVars, sVars>>

(* The loop of txg_wait_open for thread w and group txg.                   *)
OpenLoop(w, txg) ==
    /\ w_txg' = [w_txg EXCEPT ![w] = txg]
    /\ IF tx_open_txg < txg
       THEN /\ w_op' = [w_op EXCEPT ![w] = "open"]
            /\ cv' = Sleep("quiesce_done", w, Broadcast({"quiesce_more"}, cv))
       ELSE /\ w_op' = [w_op EXCEPT ![w] = "none"]
            /\ UNCHANGED cv

TxgWaitOpen(w, arg) ==
    /\ pool = "active"
    /\ w_op[w] = "none"
    /\ tx_open_txg < MaxTxg
    /\ LET txg == IF arg = 0 THEN tx_open_txg + 1 ELSE arg
       IN /\ tx_quiesce_txg_waiting' = Raise(tx_quiesce_txg_waiting, txg)
          /\ OpenLoop(w, txg)
    /\ UNCHANGED <<pipeVars, tx_sync_txg_waiting, lifeVars, cpuVars, thVars,
                   cbVars, qVars, sVars>>

WaitOpenWake(w) ==
    /\ w_op[w] = "open"
    /\ w \notin cv["quiesce_done"]
    /\ OpenLoop(w, w_txg[w])
    /\ UNCHANGED <<pipeVars, askVars, lifeVars, cpuVars, thVars, cbVars,
                   qVars, sVars>>

(* txg_kick, from any thread that holds a reference to the pool.           *)
TxgKick ==
    /\ pool = "active"
    /\ tx_open_txg < MaxTxg
    /\ tx_syncing_txg = 0
    /\ tx_quiescing_txg = 0
    /\ tx_quiesce_txg_waiting <= tx_open_txg
    /\ tx_sync_txg_waiting <= tx_synced_txg
    /\ tx_quiesced_txg <= tx_synced_txg
    /\ tx_quiesce_txg_waiting' = tx_open_txg + 1
    /\ cv' = Broadcast({"quiesce_more"}, cv)
    /\ UNCHANGED <<pipeVars, tx_sync_txg_waiting, lifeVars, cpuVars, thVars,
                   cbVars, qVars, sVars, wVars>>

-----------------------------------------------------------------------------
QuiesceThread ==
    \/ QuiesceWait
    \/ QuiesceExit
    \/ QuiesceStart
    \/ QuiesceLock
    \/ QuiesceOpenNext
    \/ QuiesceDrain
    \/ QuiesceHandOff

SyncThread ==
    \/ SyncWait
    \/ SyncPrompt
    \/ SyncExit
    \/ SyncConsume
    \/ SyncDone

(* What a transaction that has its hold does next.                         *)
TxStep(t) ==
    \/ TxgHoldCount(t)
    \/ TxgDelayEnd(t)
    \/ TxgReleToQuiesce(t)
    \/ TxgReleToSync(t)

WaiterStep(w) ==
    \/ StopThreads(w)
    \/ StopJoin(w)
    \/ StopWaitSynced(w)
    \/ WaitSyncedWake(w)
    \/ WaitOpenWake(w)

(* New calls into the subsystem.                                           *)
Call ==
    \/ TxgSyncStart
    \/ TxgFini
    \/ TxgKick
    \/ \E t \in Txs :
         \/ \E c \in CPUs : TxgHoldOpen(t, c)
         \/ TxgDelay(t)
         \/ TxgDelayAgain(t)
         \/ TxgRegisterCallbacks(t)
    \/ \E w \in Waiters :
         \/ TxgSyncStop(w)
         \/ \E arg \in WaitArgs : TxgWaitSynced(w, arg)
         \/ \E arg \in WaitArgs : TxgWaitOpen(w, arg)

(* The pool is gone; nothing is left to do.                                *)
Terminated == pool = "destroyed" /\ UNCHANGED vars

Next ==
    \/ QuiesceThread
    \/ SyncThread
    \/ SyncTimeout
    \/ \E t \in Txs : TxStep(t) \/ TxgDoCallbacks(t)
    \/ \E w \in Waiters : WaiterStep(w)
    \/ Call
    \/ Terminated

Spec == Init /\ [][Next]_vars

(* Kernel threads run, sleeps with a timeout end, a transaction that has   *)
(* its hold commits, task queue workers run.  Nothing makes a new call.    *)
Fairness ==
    /\ WF_vars(QuiesceThread)
    /\ WF_vars(SyncThread)
    /\ WF_vars(SyncTimeout)
    /\ \A t \in Txs : WF_vars(TxStep(t)) /\ WF_vars(TxgDoCallbacks(t))
    /\ \A w \in Waiters : WF_vars(WaiterStep(w))

FairSpec == Spec /\ Fairness
-----------------------------------------------------------------------------
(* Properties.                                                             *)

Draining == q_pc \in {"drain", "tc_cv"}

(* The group that will enter syncing next, and the last one that did.      *)
Front == IF Draining \/ tx_quiesced_txg # 0 THEN tx_open_txg - 1 ELSE tx_open_txg
Last == IF tx_syncing_txg # 0 THEN tx_syncing_txg ELSE tx_synced_txg

(* The groups in the pipeline are consecutive, none is skipped or sent     *)
(* twice, and at most three are live (the assertions of txg_verify), though *)
(* the quiesce thread moves tx_open_txg without tx_sync_lock.              *)
PipelineOrder ==
    /\ Last = Front - 1 \/ (Last = 0 /\ Front = TXG0)
    /\ tx_quiesced_txg # 0 =>
         tx_quiesced_txg = tx_open_txg - 1 /\ tx_quiescing_txg = 0
    /\ Draining => tx_quiescing_txg = tx_open_txg - 1
    /\ tx_syncing_txg # 0 =>
         tx_synced_txg = tx_syncing_txg - 1 \/ tx_syncing_txg = TXG0
    /\ tx_open_txg <= Raise(tx_synced_txg, TXG0 - 1) + TXG_CONCURRENT_STATES

(* A transaction that holds a group keeps it from being handed to the sync *)
(* thread: the group is open, or closed and its CPU not yet drained.       *)
HoldsKeepGroup ==
    \A t \in Txs : Active(t) =>
        \/ th_txg[t] = tx_open_txg
        \/ /\ th_txg[t] = tx_open_txg - 1
           /\ Draining
           /\ th_cpu[t] >= q_cpu

(* txg_dispatch_callbacks walks the slot of the synced group without       *)
(* tc_lock: no live handle may use the same slot at that time.             *)
DispatchNeedsNoLock ==
    s_pc = "sync" =>
        \A t \in Txs : Active(t) => Slot(th_txg[t]) # Slot(tx_syncing_txg)

(* A commit callback is queued only when its group is on disk, and then at *)
(* once: none stays behind on a list, where a later group using the same   *)
(* slot would pick it up.                                                  *)
CallbacksFollowSync ==
    /\ \A t \in cb_taskq \cup cb_called :
         th_st[t] = "done" /\ th_txg[t] <= tx_synced_txg
    /\ \A c \in CPUs, g \in Slots : \A t \in tc_callbacks[c][g] :
         /\ g = Slot(th_txg[t])
         /\ th_txg[t] > tx_synced_txg
         /\ t \notin cb_taskq \cup cb_called

(* Stopping loses nothing: once txg_sync_stop is done every group that had *)
(* a transaction is synced, no hold and no callback is left (list_destroy  *)
(* in txg_fini requires it), though groups may still be in the pipeline.   *)
StopLosesNothing ==
    pool \in {"stopped", "destroyed"} =>
        /\ \A t \in Txs : th_st[t] # "new" => th_txg[t] <= tx_synced_txg
        /\ \A c \in CPUs, g \in Slots :
             tc_count[c][g] = 0 /\ tc_callbacks[c][g] = {}

(* No wakeup is lost: a thread sleeps on a condition variable only while   *)
(* what it waits for has not happened and whoever makes it happen is on    *)
(* its way.                                                                *)
NoLostWakeup ==
    /\ "quiesce" \in cv["quiesce_more"] => QuiesceIdle /\ ~tx_exiting
    /\ "sync" \in cv["sync_more"] => SyncIdle /\ ~tx_exiting
    /\ "sync" \in cv["quiesce_done"] =>
         /\ tx_quiesced_txg = 0 /\ ~tx_exiting
         /\ TxgStalled \/ Draining
    /\ q_pc = "tc_cv" => tc_count[q_cpu][Slot(tx_quiescing_txg)] # 0
    /\ \A t \in Txs : t \in cv["quiesce_more"] => DelayCond(th_txg[t])
    /\ \A w \in Waiters :
         /\ w \in cv["sync_done"] =>
              tx_synced_txg < w_txg[w] /\ w_txg[w] <= tx_sync_txg_waiting
         /\ w \in cv["quiesce_done"] =>
              \/ tx_open_txg < w_txg[w] /\ w_txg[w] <= tx_quiesce_txg_waiting
              \/ Draining
         /\ w \in cv["exit"] => tx_threads # 0

(* Every call returns: txg_wait_synced, txg_wait_open and txg_sync_stop.   *)
WaitersReturn == \A w \in Waiters : (w_op[w] # "none") ~> (w_op[w] = "none")

(* A transaction reaches the disk, its callback runs, without anyone       *)
(* waiting: the timer of the sync thread pushes the group through.         *)
CommitsReachDisk ==
    \A t \in Txs :
        /\ Active(t) ~> (th_st[t] = "done" /\ th_txg[t] <= tx_synced_txg)
        /\ (th_st[t] = "registered") ~> (t \in cb_called)
=============================================================================
