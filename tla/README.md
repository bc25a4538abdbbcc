# ZFS concurrency: specifications, checks and proofs

This directory holds a TLA+ verification project for the ZFS implementation in
`src/kernel/fs/zfs`. The repository is a complete illumos-derived operating
system; ZFS is its largest piece of self-contained core logic, and the part whose
correctness depends most on interleavings that tests hardly reach. The project
starts with the machinery everything else in ZFS stands on: transaction groups,
the re-entrant and reader-mostly locks, file range locks, and the background
threads of a pool with the export that stops them. On top of it come the two
components that decide when a write is admitted and when it is safe: transactions
with the dirty data throttle, and the intent log with crashes and replay; and the
configuration locks under which all of them share the devices with the administrator.

Every definition is translated from the code. `PROJECT.json` maps each one to the
lines it models, lists the runs with the properties they check, a mutation of the
code model that each property catches, the hazards the properties are aimed at,
and the theorems.

## 1. Inventory

### The system's parts

| Component | State it keeps | Operations | Interacts with |
|---|---|---|---|
| Transaction groups, `txg.c` | group numbers of the pipeline (open, quiescing, quiesced, syncing, synced), requests (`tx_sync_txg_waiting`, `tx_quiesce_txg_waiting`), per CPU and slot hold counts and callback lists, five condition variables, two threads | hold/release, register and dispatch callbacks, quiesce, sync, wait, delay, kick, start/stop | called by every `dmu_tx`; calls `spa_sync`; task queue for callbacks |
| Transactions and dirty throttle, `dmu_tx.c`, `dsl_pool.c`, `dsl_dir.c` | a `dmu_tx`'s holds and group, the group a dnode is assigned to, `dp_dirty_total`, `dp_dirty_pertxg`, reserved and dirty space of a directory | assign, wait, commit, dirty/undirty space, reserve and clear | holds groups of `txg.c`; woken through `dp_spaceavail_cv` and `dn_notxholds`; operations of the ZPL retry around it |
| Re-entrant read lock, `rrwlock.c` | writer, wanted flag, anonymous and linked counts, nodes in thread specific data | enter read (also with priority), enter write, exit, held | DSL pool config lock; part of the reader-mostly lock |
| Reader-mostly lock, `rrwlock.c` | an array of the above | the same | `z_teardown_lock` of a mounted file system |
| Range locks, `zfs_rlock.c` | AVL tree of ranges with counts and two condition variables each | enter, reduce, exit, a callback that widens the range | `zfs_read`, `zfs_write`, `zfs_trunc`, zvol; reads the file's size and block size |
| Worker threads, `zthr.c` | thread, cancel flag, condition variable | procedure, wakeup, cancel, resume, destroy | condensing, checkpoint discard, ARC |
| Async tasks and export, `spa.c` | requested tasks, suspension count, async thread, pool references, `spa_namespace_lock` | request, dispatch, suspend, resume, export, unload | zthrs; dispatched by `spa_sync`; sync tasks open the pool |
| Intent log, `zil.c` | itx lists per group, log write blocks, commit waiters, the on-disk chain and its header | assign, commit, clean, sync, claim, replay, destroy | groups (`zil_sync`, `zil_clean`), zio callbacks, the ZPL, crash recovery |
| Pool config locks, `spa_misc.c` | seven read/write locks with `scl_write_wanted` | enter, tryenter, exit | vdev state changes, every zio |
| Zero reference lock `zrlock.c`, blocking queue `bqueue.c` | a counter changed by compare-and-swap; a bounded list with sizes | add/remove/lock; enqueue/dequeue | dnode slots; send and receive |
| ARC, dbuf, dnode, DSL, metaslab, zio, vdev, ZAP, ZPL, channel programs | large object graphs in memory and on disk | - | see section 8 |
| The rest of the system | kernel primitives, dispatcher, VM, other file systems, network, drivers, user land | - | see section 8 |

### What is hard here, and what correctness means

* **Transaction groups.** Three groups are live at once and share four slots
  (`txg & TXG_MASK`). The open group number is moved by the quiesce thread without
  `tx_sync_lock`, only under all per-CPU locks; a transaction takes only the lock
  of its own CPU. Correct means: groups stay consecutive and go to disk in order,
  no group is synced while a transaction of it is active, callbacks run after their
  group is durable and never with a later group that has the same slot, no wakeup is
  lost among five condition variables, stop flushes everything, every wait returns.
* **rrwlock.** Holds are counted in two ways depending on what a reader saw when it
  came, and an exit finds out only by looking for a node. Correct means: the two
  counts never lose a hold, exclusion, and no re-entering reader ever waits behind
  the writer that waits for it.
* **rrmlock.** A writer collects the locks one by one while readers and another
  writer do the same. Correct means exclusion and no deadlock.
* **Range locks.** Overlapping readers are split into proxies with counts; handles
  disappear from the tree; writers widen their range to the whole file when the
  block size must grow and narrow it again after. Correct means: the tree says
  exactly who holds what after any history, sleepers stay reachable from nodes that
  will be broadcast, the append offset is not stale, growth is alone.
* **Async tasks and export.** A caller drops `spa_namespace_lock` before it stops
  threads that need it, takes it again and decides. Several callers may do so at
  once. Correct means: nothing runs when the structures are freed, nobody waits for a
  thread that needs the lock it has, failed exports leave everything running.
* **Transactions and throttle.** A transaction checks the throttle, holds the open
  group, then its dnodes one at a time, then space; each may fail, after which it gives
  everything back in an order of its own and waits for one of three things. Sleepers
  on dirty space are woken one by one. Correct means: a dnode is changed in one group
  at a time, dirty space is booked to the right group, the quota is overrun by at most
  one transaction, no sleeper is forgotten and every assignment ends, also where a lock
  is taken before the assignment by one operation and after it by another.
* **Intent log.** Threads queue records per group; whoever has the issuer lock moves
  everybody's records into chained blocks; zios complete in any order, with errors;
  timeouts issue half-full blocks; `spa_sync` frees blocks and throws queued records
  away while all this goes on. Correct means: what `zil_commit` has returned for is in
  the pool or found by replay after a crash at any point, also a crash during replay;
  nothing is replayed twice; every `zil_commit` returns.
* **Pool configuration locks.** Readers wait for writers that are only wanted, so a
  reader that already has a lock or a group may wait behind a writer that waits for it.
  A log block keeps a transaction's group open while it asks for `SCL_STATE`; `spa_sync`
  drops its locks to take them as writer; an administrator keeps `spa_namespace_lock`
  while he waits for locks and groups; a failed label write suspends the pool in the
  middle of a group. Correct means: nothing uses the devices while the tree or a state is
  changed, a command that has returned is on disk, every operation ends.

`PROJECT.json` lists these as hazards with their lines and the properties aimed at them.

## 2. Plan

Order: what everything else rests on comes first.

1. *(done)* `Txg`, its abstract specification `TxgGroups` and the refinement; the
   inductive invariant and its proof.
2. *(done)* `Rrwlock` with proofs, `Rrmlock` built from it.
3. *(done)* `RangeLock` with the ZPL's use of it.
4. *(done)* `Zthr`, composed into `SpaAsync`.
5. *(done)* `DmuTx`: assignment, retry, reservations and dirty data throttle.
6. *(done)* `Zil` and `ZilReplay`: itx lists, log write blocks from opened to flushed,
   commit waiters and their timeout, `zil_sync` and `zil_clean`; a crash at any point,
   claim, replay and destroy.
7. *(done)* `SpaConfig`: configuration locks with `spa_sync`, log blocks, changes of the
   vdev tree and of vdev states, suspension and `zpool clear`. Left for later:
   `Zrlock`, `Bqueue` and `TxgList`, small components, alone or with a caller; in
   `SpaConfig` `spa_config_tryenter` and `metaslab_group_passivate`; in `Zil`
   `zil_suspend`/`zil_close` and the log begun after recovery.
8. *(done)* Proofs: the refinement of `TxgGroups`, `CallbacksFollowSync`,
   `StopLosesNothing`, `NoLostWakeup`; `SleepersAnnounced` and the reader-mostly lock;
   `SpaConfig`; `DmuTx`; `AsyncQuiet`; the three properties of range locks; of the
   intent log `GroupsLive`, `WaiterLwbLive`, `LwbListAsserted`, `GroupInOrder`,
   `ReplayedOnce` and `HeaderMatches` (section 6). Section 7 says what stays with TLC and why.

## 3. Modules and the code they model

| Module | Role |
|---|---|
| `Txg` | the pipeline: 25 state variables, one action per critical section |
| `TxgGroups` | abstract specification: what transaction groups promise |
| `TxgRefinement` | the refinement mapping and `ImplementsGroups` |
| `TxgInvariant`, `TxgProofs` | inductive invariant; theorems on the pipeline, callbacks, the refinement, stop and wakeups |
| `Rrwlock`, `RrwlockProofs` | the re-entrant lock and theorems |
| `Rrmlock`, `RrmlockProofs` | extends `Rrwlock`: the array of locks; theorems |
| `RangeLock`, `RangeLockProofs` | range locks with size and block size of one file; theorems |
| `Zthr` | the worker thread; its actions are used by |
| `SpaAsync`, `SpaAsyncProofs` | one pool: async thread, zthrs, sync thread, exporting callers; theorem |
| `DmuTx`, `DmuTxProofs` | transactions on their way into a group, throttle, reservations; theorems |
| `Zil` | the commit path of the intent log over transaction groups and zios |
| `ZilReplay` | extends `Zil`: crashes, claim, replay, destroy |
| `ZilProofs` | extends `ZilReplay`: theorems on the log in memory, the order of records in it and its replay, over crashes |
| `SpaConfig`, `SpaConfigProofs` | configuration locks with four kinds of callers; theorems |
| `MCTxg`, `MCRrwlock`, `MCRangeLock`, `MCDmuTx`, `MCZil`, `MCZilReplay` | constants and symmetry for TLC; `MCRrwlock` lets threads use one rrwlock or an array |

Common conventions. An action is one critical section of the mutex that guards the
state, from lock to unlock or to the `cv_wait` that gives it up. A condition
variable is the set of threads asleep on it; a broadcast empties the set, and a
thread not in the set goes round its loop again. Locks held across such sections
(`tc_open_lock`, `spa_namespace_lock`, the rrwlocks inside rrmlock) are variables.
A definition whose comment calls it a mutant is not used by any specification: it is
a plausible bug kept beside what it would replace.

### Txg

Fields keep their names. `th_st` follows a `dmu_tx`: `new`, `opening` (has
`tc_open_lock`, has read `tx_open_txg`), `held` (counted), `delay`/`delayed` (in
`txg_delay` with the lock still held), `assigned` (after `txg_rele_to_quiesce`),
`registered` (callback listed), `unassign` (the assignment failed), `done`.
`q_pc`/`q_cpu` are the quiesce thread's place and the index of its two loops over
CPUs. `s_pc`/`s_due` are the sync thread's place and the reasons to sync that come
from outside it (timer, scan, dirty data). `pool` says who may call in.

| Action | Code |
|---|---|
| `TxgSyncStart`, `TxgSyncStop`, `StopWaitSynced`, `StopThreads`, `StopJoin`, `TxgFini` | `txg_sync_start`, `txg_sync_stop` cut at its waits, `txg_fini` |
| `TxgHoldOpen`, `TxgHoldCount` | `txg_hold_open`: open lock, then the count under `tc_lock` |
| `TxgDelay`, `TxgDelayAgain`, `TxgDelayEnd` | `txg_delay` and its timed wait |
| `TxgReleToQuiesce`, `TxgRegisterCallbacks`, `TxgReleToSync` | the functions of these names |
| `QuiesceWait/Start/Exit/HandOff` | `txg_quiesce_thread` |
| `QuiesceLock`, `QuiesceOpenNext`, `QuiesceDrain` | `txg_quiesce` |
| `SyncWait/Prompt/Exit/Consume/Done`, `SyncTimeout` | `txg_sync_thread`; `SyncDone` includes the dispatch of the callbacks |
| `TxgDoCallbacks` | `txg_do_callbacks` in the task queue |
| `TxgWaitSynced`, `WaitSyncedWake`, `TxgWaitOpen`, `WaitOpenWake`, `TxgKick` | the functions of these names |

`Idle` as the guard of `TxgSyncStop` is what the callers provide: a pool is unloaded
only when nobody holds a reference.

### TxgGroups and the refinement

Five variables: the open group, the last durable group, and for each transaction its
progress, group and whether its callback is released. `Join`, `Register`, `Commit`,
`Close` (only if fewer than three groups are live) and `Sync` (only if all
transactions of the group have committed; it releases exactly their callbacks). The
mapping takes `tx_open_txg`, `tx_synced_txg` (before the first sync: the group before
the first), the handle's group, and the union of queued and called callbacks. So the
code's hold counts, slots and per-CPU locks are shown to implement a specification
that has none.

### Rrwlock and Rrmlock

A read hold is a thread, a tag and a number that tells nested holds apart. `held` is
a history of what callers were given; `rrn` are the nodes in thread specific data.
`ReadLoop` and `WriteLoop` are the bodies of the wait loops with what follows them,
entered by a call or by a wake-up. The fast paths of non-DEBUG kernels do the same as
the loops when nothing blocks. `RrnMatches` is `rrn_find_and_remove`: it compares
thread and tag only, so when a nested hold is left it may take the node of another
hold with the same tag; the model numbers the holds so that this is harmless to
follow. `rr_track_all` is chosen at the start for each lock. `Rrmlock` adds the loop
index and place of each writer and a fixed lock for each thread (`RRM_TD_LOCK`); all
assignments of threads to locks are initial states.

### RangeLock

`rl_tree` is the AVL tree as a set of nodes. `AddReader` is `rangelock_add_reader`: a
node that begins before the new range is split at its offset (`Split`, `Proxify`); of
what the walk over the overlapping nodes then does, `Counted` says what becomes of each
node (one more reader, the last one split at the end of the range) and `Gaps` which
proxies are put in before, between and after them.
`ReaderBlockers`/`WriterBlockers` are the nodes at which the two enter functions stop
and wait; the callback of the ZPL is evaluated at each attempt, with the size and
block size of that moment. `pend` are nodes taken out of the tree whose broadcast is
still to come: `rangelock_exit` of a writer and `rangelock_reduce` broadcast after
`rl_lock` is dropped. `GrowBlocksize`, `RangelockReduce` and `SetSize` are what
`zfs_write` and `zfs_trunc` do between enter and exit. A write is cut off at the limit of
the file size, `MAXOFFSET_T` (`Wend`), and one at or past it leaves with `EFBIG`
(`BelowLimit`).

### Zthr and SpaAsync

`z_pc` is the place of a zthr's thread: about to look at its flag, asleep, in its
function, between `dsl_sync_task` and `spa_open`, in the sync task, leaving, none.
`z_work` is what its check function finds. A caller goes through `spa_export_common`:
look up and hold the pool, drop the namespace lock, suspend (count, wait for the
async thread, cancel each zthr), take the lock again, decide, and either resume or
unload, which suspends again with the lock held, stops syncing and destroys the
zthrs. `AsyncConfig` writes the cache file twice, each of which may fail and request
another update. `ExportDecide` may fail with the pool unreferenced too (an active
shared spare).

### DmuTx

One thread has one transaction, for one of three operations on one directory, which
together use its locks in all the ways there are:

* `zfs_setacl` takes `z_lock`, assigns with `TXG_NOWAIT`, and keeps the lock until it has
  committed;
* `zfs_setattr` assigns with `TXG_WAIT` and takes `z_lock` for the change;
* `zfs_link` takes the lock of the name (`zfs_dirent_lock`), assigns with `TXG_NOWAIT`
  (and `TXG_NOTHROTTLE` once it has waited), and takes `z_lock` in `zfs_link_create`.
  `zfs_create`, `zfs_remove` and `zfs_rename` use the same locks in the same order.

On `ERESTART` the first and the third drop their lock, call `dmu_tx_wait` and begin again
(`Fail`, `Unlock`, `Retry`). `FirstLock` and `InnerLock` say which locks these are;
`DirlocksFree` is the `z_lock` that `zfs_dirent_lock` and `zfs_dirent_unlock` take for a
moment. `ReleToSync` lets the group go and drops the lock of the operation in one step.
`z_acl_lock`, always taken with `z_lock`, is not told apart from it.
`tx` has the fields of `dmu_tx_t`; `held` and `gone` count how many holds of its list
(`Holds`) are made and how many of these are gone again. A list may have the same dnode
several times, as `dn_tx_holds` counts holds and not transactions. `err` is `tx_err`, set
when a hold could not be read, and what `dmu_tx_assign` is to return. The groups are those
of `Txg` reduced to their numbers and to who holds them. `woken` (who was signalled and has
not dirtied anything since) and `quit` are history for `SignalChain` and `AssignEnds`.

| Action | Code |
|---|---|
| `TryAssign`, `HoldOpen`, `HoldDnode`, `TempreserveSpace` | `dmu_tx_try_assign`, cut where it takes another lock; `dsl_dir_tempreserve_impl` for one directory |
| `RemoveHold`, `Unassigned` | `dmu_tx_unassign`, and the loop over dnodes in `dmu_tx_commit` |
| `WaitDirty`, `Wait`, `WaitDnode`, `WaitSynced` | the branches of `dmu_tx_wait` |
| `Dirty`, `WorkFails` | what an operation does between assign and commit: `dmu_objset_willuse_space` once, or nothing if `zfs_link_create` finds the file unlinked |
| `TempreserveClear`, `ReleToSync` | the rest of `dmu_tx_commit` |
| `Top`, `TopEnds`, `TakeLock` | `zfs_setacl`, `zfs_setattr` and `zfs_link` around all this |
| `PhysDone`, `SyncData`, `SyncDone` | `dbuf_write_physdone`, `dsl_pool_sync`, `dsl_dir_sync` |
| `Suspend`, `Resume` | `zio_suspend`, `zio_resume` |

`DirtyDelta` is `dsl_pool_dirty_delta` with its `cv_signal`, called by `Dirty` and by
every undirtying.

### Zil

The queue is `itxg`, four slots with a synchronous list and, for each file, the list of
its asynchronous records (`i_async_tree`; a thread writes a file of its own).
`lwb` has for every block allocated so far its `lwb_t`; blocks are numbered in the
order of their allocation, so a chain is an interval. `disk` is what a read of the
block would return: `unwritten`, `cache` (written, not flushed), `unflushed` (written, and
nobody is going to flush it any more), `stable`, `failed`, `reused`. `write_after` and `root_after` are the zio dependencies that
`zil_lwb_set_zio_dependency` makes. A thread's `pc` follows `zil_commit`: `async`,
`commit`, `commit_itx`, `writer`, `scan` (looping over the slots), `prune`, `create`,
`process`/`next`, `wait`, `timeout`, and the places where it waits for a group.
`issuer` is `zl_issuer_lock`; the critical sections of `zl_lock`, `itxg_lock` and
`zcw_lock` are one action each.

| Action | Code |
|---|---|
| `Write`, `LogItx` | a transaction with `zil_itx_assign` |
| `Commit`, `AsyncToSync`, `CommitItx` | `zil_commit`, `zil_async_to_sync`, `zil_commit_itx_assign` |
| `Writer`, `GetCommitList`, `PruneCommit`, `PruneEnd` | `zil_commit_writer`, `zil_get_commit_list` one slot at a time, `zil_prune_commit_list` |
| `Create`, `CreateKept` | `zil_create` with a hole, or a block kept by `zil_destroy` |
| `ProcessCommit`, `ProcessFull`, `ProcessRecord`, `ProcessEIO`, `ProcessGone`, `ProcessEnd` | `zil_process_commit_list`, `zil_lwb_commit`, `zil_lwb_write_issue` |
| `WriteDone`, `FlushVdevs`, `FlushVdevsDone` | the two zio callbacks, the first in two parts |
| `WaiterTimeout`, `TimeoutIssue`, `TimeoutLate`, `Return` | `zil_commit_waiter`, `zil_commit_waiter_timeout`, the end of `zil_commit_impl` |
| `Synced` | `txg_wait_synced` returns to `zil_create`, a stall, an error |
| `ZilSync`, `SyncDone`, `ZilClean`, `UbSync`, `ItxgClean` | `zil_sync` in `spa_sync`, the uberblock, `zil_clean`, the update of `spa_ubsync`, `zil_itxg_clean` in its task queue |

Blocks are allocated on any of `Vdevs`, each with a volatile cache, and a flush is of one
device. `FlushVdevs` may find that the flush of one of the devices fails, which nobody is
told (`ZIO_FLAG_CANFAIL | ZIO_FLAG_DONT_PROPAGATE`). `ProcessGone` is the other way
`zl_get_data` fails: the file was removed or truncated, or the block is in a group that was
synced meanwhile (`ENOENT`, `EEXIST`, `EALREADY`). The record is then left out and nothing
is waited for; `vanished` remembers such records. A block without waiters leaves its flush
to the next one (`zil_lwb_flush_defer`) after it has dropped `zl_lock`. The race on the AVL
tree itself, when a next block looks at its tree at that very moment, is not modelled: the
vdevs arrive either before or after the next block's own flush.

Two numbers stand for "synced": `synced` is the group of the uberblock on disk, which
a crash goes back to; `LastSynced` is what `spa_last_synced_txg` answers, which
follows after `zil_clean`.

### ZilReplay

A crash keeps `disk` up to what was not flushed (each such write may or may not have
been kept), `synced`, the headers on disk and the part of `fs` (what replay has done)
that is in a synced group: the first `OnDisk` records, as replay puts them into groups in
order. The recovery is one thread: `Claim` or `ClaimClear` when the
pool is loaded, `Mount`, then `ReplaySkip`, `Replay`, `ReplayError`, `RetryError` for
one record after the other (`ReplayFails` is an error that is not retried, `ReplayNoObject`
a record out of order whose object is gone, which is skipped), `ReplayEnd` with `zil_destroy`, each wait for a group being
a phase of its own, while the pool's groups go on (`SyncHeader` is `zil_sync` with the
replayed sequence number or the destroyed header). A second crash may come at any of
these points. `promised` and `base` remember what was acknowledged and synced when the
running system crashed; `lost` remembers faults that excuse missing records.

### SpaConfig

The fields of `spa_config_lock_t` keep their names; `scl_count` is the set of those
counted, `scl_cv` the threads asleep. `EnterReader` and `EnterWriter` are one round of
the loop of `spa_config_enter` for the lowest lock still to take (`left`), so a thread
may sleep with some of its locks taken; `Exit` is `spa_config_exit`. Groups are counted
from `tx_synced_txg`: `waitfor` is how many more must be synced for a waiter, `synced`
is 1 between `spa_ubsync` and `tx_synced_txg`, `closed` says that the next group is no
longer open, `lwb_tx` in which of the two a log block has its transaction. A log block or
a zio is one activity with its thread. The lists hold who made a change. An allocation, in
`spa_sync` or for a log block, may have to read a space map: `SCL_ZIO` under `SCL_ALLOC`.
`spa_vdev_config_exit` may have a vdev to free, with all locks once more, whether the
operation failed or not; `StateFail` is also `zpool clear` of a vdev that does not exist,
which returns without `zio_resume`.

| Action | Code |
|---|---|
| `CloseTxg`, `SyncStart`, `SyncReturn` | the groups, as `txg.c` gives them to `spa_sync` |
| `SyncCall`, `SyncStateClean`, `SyncUbsync` | `spa_sync`: writer for the dirty states, reader for the passes, `SCL_STATE` for the labels |
| `SyncLabelsFail`, `ZioSuspend`, `ZioResumeWait` | the retry loop around `vdev_config_sync` |
| `LwbIssue`, `LwbCall`, `LwbDone` | `zil_lwb_write_issue` to `zil_lwb_flush_vdevs_done` |
| `VdevStart`, `VdevEnter`, `VdevChange`, `VdevCall`, `VdevExit` | `spa_vdev_enter`, `spa_vdev_config_exit`, `spa_vdev_exit` |
| `StateOpen`, `StateCall`, `StateChange`, `StateFail`, `StateWait`, `StateCache` | `spa_vdev_state_enter` and `_exit` around a change |
| `StateClear`, `ZioResume` | `zfs_ioc_clear` |

## 4. Runs

| Run | Instance | Shows |
|---|---|---|
| `txg` | 2 transactions, 1 waiter, 2 CPUs, groups 4-8 | `PipelineOrder`, `HoldsKeepGroup`, `StopLosesNothing`, `NoLostWakeup`, `DispatchNeedsNoLock`, `CallbacksFollowSync`, and the refinement `ImplementsGroups`, until every slot is used again |
| `txg_live` | 2 transactions, 2 waiters, 1 CPU, groups 4-5, fair | `WaitersReturn`, `CommitsReachDisk` |
| `rr_locks` | 3 threads, 2 writers; one rrwlock with 2 tags, 2 nested holds per tag, both priorities, or an rrmlock of 2 locks with holds that do not nest, fair | `RrwTypeOK`, `Exclusion`, `ReentryNeverWaits`, `SleepersAnnounced`, `HeldExact`, `RrmExclusion`, `RrmWritersProgress` |
| `range_locks` | 3 threads, 2 of them writing, 7 requests: reads that overlap in every way, a write, an append, a truncation; fair | `RangesExclusive`, `NodesExact`, `FileUnderLock`, `SleepersWake` |
| `spa_async` | 2 exporting callers, 2 zthrs, fair | `AsyncQuiet`, `WorkDone` |
| `spa_export` | 2 exporting callers, 1 zthr, fair | violation of `ExportReturns` (finding 1) |
| `dmu_tx` | `zfs_setacl`, `zfs_setattr`, `zfs_link` on one directory: 3 dnodes, one list with two holds on each of two, 2 locks, throttle of 2, quota of 3, fair | `DnodeOneGroup`, `QuotaOverrunByOne`, `DirtyAccounted`, `SignalChain`, `AssignEnds` |
| `zil` | 2 threads, 1 record each, 2 devices, an empty header or one with a block, 1 failure (write, flush, read, allocation) or vanished record, 2 crashes, 1 fault in recovery | `GroupsLive`, `CommitDurableLinked`, `GroupInOrder`, `LwbListAsserted`, `WaiterLwbLive`, `CommitsRestored`, `ReplayedOnce`, `HeaderMatches` |
| `zil_live` | 2 threads, 1 record each (one may be asynchronous), 1 device, an empty header, 1 failure, 2 crashes, 1 fault in recovery, fair | `CommitReturns`, `Recovers` |
| `zil_scan` | 2 threads, 1 record each, 1 device, no failure | violation of `CommitDurable` (finding 2) |
| `zil_flush` | 2 threads, 1 record each, 2 devices, no failure | violation of `StableWhenDone` (finding 3) |
| `spa_config` | sync thread, 1 log block at a time, 1 change of the tree, 1 of a state or clear, root pool, 1 failed label write, fair | `ConfigStable`, `ChangesSynced`, `ConfigOpsEnd` |

### Bounds and why they are enough

* **Txg.** `MaxTxg` stops only new calls (holds, waits, kicks) once that group is
  open; the threads themselves go on until they are idle, and a wait or a stop
  always runs to its end. Groups 4 to 8 let all three live groups exist with a
  transaction in two of them, and go past a full turn of the four slots, so
  that a count or a list left behind would be met again. A transaction that has to
  retry after `ERESTART` is another member of `Txs`, so each goes through its life
  once. Two CPUs are the least for which a hold can be on a CPU already drained, or
  not yet locked; with two transactions the two can be on one CPU or on two. Waiters
  ask for the default group (0) or a given one ahead of the open group.
* **Rrwlock.** Two tags and two holds per tag give a thread anonymous and linked holds
  at once with the same and with different tags. Two writers are needed for the
  wanted flag to be shared. With two locks a third lock of an rrmlock adds only
  more of the same rounds.
* **RangeLock.** Offsets 0 to 4 give ranges that are equal, nested, adjacent, crossing
  and disjoint; `UINT64_MAX` is small so that a request past the end of the offsets is
  one of them. Three threads suffice for a node with count two and one that waits.
  `MAXOFFSET_T` is 2, so that appends reach it and are cut off or refused. The block size starts at 1 and may double once, so growth is
  needed, happens and is then over.
* **SpaAsync.** Each caller exports once; two are enough for one's resume to meet the
  other's suspension. `MaxWork` bounds the sync tasks that all zthrs have left.
  Deadlock is not checked here: once the pool is exported and closed nothing need
  happen.
* **DmuTx.** Each transaction writes 1 or 2 units; two of them reach the throttle, and
  with the third the quota. All three hold the directory, one of them after another dnode,
  so that an assignment fails with a hold already taken, and one twice (a link that also
  upgrades the file and the directory), so that a hold is let go while the same
  transaction still has another on the dnode. `MaxTxg` bounds only groups opened for
  no reason; a waiter or dirty data opens as many as it needs. The pool may be suspended
  in one group, `SuspendTxg`, any number of times. Deadlock is not checked because
  threads end; `AssignEnds` says that they do.
* **Zil.** Blocks of one record make every second record issue a block, and
  `zil_create` start a chain of up to four blocks. Two threads give an issuer and one
  that queues, waits or times out beside it. Two devices are the least for which a flush
  of one block leaves another in a cache. One failure at a time is a failed write, flush,
  read or allocation, or a vanished record; two would make every other outcome an exception
  of `CutOff`. A crash loses any of the writes in the caches. Asynchronous records
  are in `zil_live`, with one device; in `zil` the threads log synchronously and are alike.
  Groups 4 and 5 may open for no reason and every wait opens more, up to group 8 in
  a stall, so a slot is used again. Two crashes are a crash and one during recovery.
  Deadlock is not checked: threads end when their budget is used.
* **SpaConfig.** Operations repeat for ever. One activity of each kind is enough for
  every cycle between locks, groups and `spa_namespace_lock`; `spa_sync` and one log
  block already overlap on `SCL_STATE` often enough to starve a writer that readers do
  not wait for. `MaxFails` lets the pool be suspended once. In a root pool a state change
  reads between its two calls, which is the longer of the two paths.
* **Symmetry** is used only in runs without liveness, over transactions, waiters,
  tags, devices, and threads where no constant singles one of them out.

### Fairness and why the code justifies it

Weak fairness is assumed of what a runnable kernel thread does next: quiesce and sync
threads, task queue workers, zthrs, the async thread, a woken waiter, a timed sleep
reaching its end. A transaction that has its hold is assumed to commit, a caller to
leave the range or section it entered, since none of them waits for anything but what
the model contains. Nobody is assumed to make a new call. Weak fairness is enough for
`tc_open_lock` because each transaction takes it once, so the quiesce thread cannot be
overtaken for ever in the model; with unbounded traffic the same claim needs the kernel
mutex to be fair to the quiesce thread. In `rr_locks` writers of the array make progress from the
wanted flag. In `DmuTx` threads and the pool's groups go on; a suspended pool is resumed
by its administrator, so `Resume` has no fairness and `AssignEnds` is stated for
behaviours in which the pool is not suspended for ever or again and again. In `Zil`
threads inside a call, zios, the steps of `spa_sync` and the recovery go on; a write or
a commit is a thread's choice, a crash nobody's. In `SpaConfig` threads and zios inside
a call and the groups go on, and nobody has to start an operation; `ConfigOpsEnd` is
stated for behaviours in which the pool is not suspended for ever and other
administrators do not start commands for ever, since a writer that comes again and again
may pass another each time (`spa_misc.c:472` looks at `scl_count` only). The one strong
fairness condition is on `SpaAsyncDispatch`: it is not a thread's next step but the end
of every `spa_sync`, and groups keep being synced while the pool is loaded.

## 5. Findings

1. **`ExportReturns`** (`spa.c:5400`). Two callers export one pool at once. The first
   to decide fails with `EBUSY` because of the other's hold, and its
   `spa_async_resume` starts the zthrs although the other still counts on its
   suspension. The other then finds the pool unreferenced, and `spa_unload` cancels
   the running zthr with `spa_namespace_lock` held while the zthr's `dsl_sync_task`
   waits in `spa_open` for that lock. Neither returns. The suspension count protects
   the async thread from this (`AsyncQuiet` holds); the zthrs have no count.
2. **`CommitDurable`** (`zil.c:1934`). The comment on `zil_commit` promises that all itxs
   in the queue when it was called are on stable storage when it returns.
   `zil_get_commit_list` looks at the slots one after the other. A thread whose
   transaction is still in the older group logs its record in a slot the issuer has
   just passed and calls `zil_commit`; its commit itx goes to the open group, which the
   issuer comes to next. The issuer takes it without the record and its waiter is done
   with the issuer's block. A crash then loses the record. `CommitDurableLinked` and
   `StableWhenDone` speak of all other records only (`acked.seen`).
3. **`StableWhenDone`** (`zil.c:1213`). The comments on `zil_lwb_flush_vdevs_done` and
   `zil_lwb_write_done` promise that an lwb is stable when its waiters are signalled, as
   the flushes of the lwbs before it are its own or among those it depends on. But
   `zil_lwb_write_done` makes the block `WRITE_DONE` and drops `zl_lock` before it leaves
   its flush to the next block. A block opened, issued and written in between does not
   depend on the write zio any more (`zil.c:1282`), flushes what it has, and only then is
   given the device of the first, in a tree nobody looks at again, against the assertions
   at `zil.c:1019`. If that is another device, the waiters of the second block are done
   while the first is in a volatile cache; a power failure ends the chain there. With one
   device the flush of the second covers both.

Other places where the code does not do what a comment says, met while modelling and
not made runs of:

* `rrwlock.c:41` says that callers without a read lock give waiting writers priority.
  `rr_writer_wanted` is one flag for all writers and the first to get the lock clears
  it (`rrwlock.c:225`), so a new reader may pass a second writer that has not woken yet.
* `zfs_rlock.c:74` says that two condition variables keep readers from starving a
  writer. A writer announces itself on one overlapping node only (`zfs_rlock.c:198`);
  readers of the other part of its range still get in and may keep it waiting.
* `zil.c:2827`: `zil_commit_impl` falls back on `txg_wait_synced` when its block could
  not be written. The write zio has `ZIO_FLAG_DONT_PROPAGATE` (`zil.c:1332`), so
  `zio_notify_parent` (`zio.c:476`) never gives its error to the root zio whose
  callback sets `zcw_zio_error`, and the flushes have the same flag. In the model this is
  `RootError`, which is never true, and the exception `CutOff` of `CommitDurableLinked`,
  which has three more sources: a flush that failed, the last block before an allocation
  failure (below), and finding 3. Two more kinds of records are not covered by
  `CommitDurableLinked`: those finding 2 passes by, and the vanished ones.
* `zil_read_log_block` (`zil.c:243`) refuses a block without a next one, so the last
  block written before an allocation failure cannot be replayed although its waiters are
  done before the stall ends. Also part of `CutOff`.
* `zil_claim` with `SPA_LOG_CLEAR` (`zil.c:809`) zeroes `zh_log` and leaves
  `zh_claim_txg`; with a header that was claimed before, the assertion of the next
  `zil_create` (`zil.c:639`) does not hold. Hence the exception in
  `HeaderMatches`.
* `dsl_pool.c:548` says "each thread wakes the next waiter". A woken thread that ends
  without dirtying anything (the operation failed, or has nothing to do any more) wakes
  nobody; if no dirty data is left either, the next sleeper stays until somebody else
  writes. Hence `quit` in `SignalChain` and `AssignEnds`.
* `spa.c:7800` waits for a label write that failed to be resumed by `zpool clear`. An
  operation that passed `POOL_CHECK_SUSPENDED` before and is now in `spa_vdev_enter`
  holds `spa_namespace_lock` while it waits for the sync thread's `SCL_CONFIG`;
  `zfs_ioc_clear` (`zfs_ioctl.c:4681`) needs that lock, so the pool stays suspended. The
  code does not claim otherwise; hence `<>[]~spa_suspended` in `ConfigOpsEnd`.

## 6. What is proved

Theorems hold for every value of the constants that meets the named assumptions.

**Transaction groups** (`TxgProofs`), from `TxgAssumption` (finitely many
transactions, at least one CPU, first group at least 4) and `ThreadAssumption` (the
names of threads are distinct): any number of CPUs, transactions, waiters and groups.

* `TypeCorrect`: `Spec => []TypeOK`; in particular no count goes below zero and
  `tx_threads` stays within its two threads.
* `HoldsSafe`: `Spec => []HoldsKeepGroup`.
* `PipelineSafe`: `Spec => []PipelineOrder`.
* `DispatchSafe`: `Spec => []DispatchNeedsNoLock`.

None of these is inductive alone. `IndInv` (module `TxgInvariant`) adds:
`ThreadInv` (the thread count against the places of the threads; nobody calls in
before the start), `LockInv` (a transaction in `txg_hold_open` owns the lock of its
CPU and names the open group; the quiesce thread owns exactly the locks below its
index), `PipeInv` (the places of the two threads determine which group numbers are
set and how they differ) and `CountInv` (each count is the number of holders of that
CPU and slot). The argument: with all locks taken no transaction is in
`txg_hold_open`, so those that hold the closing group are counted; a CPU is passed by
the drain only with count 0, that is by `CountInv` without a holder of the closing
group's slot, and the slot determines the group because holders are in the open or the
closing group only. So at hand-off nobody holds the group. There is one lemma per
conjunct of the invariant, with one step per action or group of actions that can
disturb it; `CoreFrame` deals once with the actions that leave that state alone.

**Re-entrant lock** (`RrwlockProofs`), from `RrwAssumption`: any number of threads,
locks, tags and nested holds. `RrwInvariance` proves `RInv`, which is `RrwTypeOK` and
`Exclusion` with `NodesHeld` (every node belongs to a hold), `CallsFit` (what a
waiting thread is in) and `TrackInv` (no anonymous holds with `rr_track_all`). From
it: `RrwTypeCorrect`, `ExclusionSafe`, `ReentrySafe`, `HeldSafe`. The heart is
`ReaderKnown`: when no anonymous hold is counted, the nodes are a subset of the holds
with the same number of members, hence all of them, so a thread that re-enters finds
its own node.

`SleepersSafe` proves `SleepersAnnounced` with one more fact, `WantedByWriter`:
`rr_writer_wanted` is set only while some writer is in `rrw_enter_write` of the lock,
and a reader sleeps only behind it or behind a writer. It is the shared flag that makes
this delicate: the first writer to get in clears it for all.

**Callbacks and the refinement** (also `TxgProofs`), from the same assumptions.

* `CallbacksSafe`: `Spec => []CallbacksFollowSync`. `HandleInv` bounds the group of
  every handle by the open group, `PlaceInv` says where each callback is. When
  `SyncDone` dispatches a slot, at most three groups are live, so their slots differ and
  every callback on the list is of the group just synced; that none of its transactions
  is still to register one is `HoldsKeepGroup`.
* `TxgImplementsGroups`: `Spec => ImplementsGroups`, the refinement. `TxgHoldOpen` maps
  to `Join`, `TxgRegisterCallbacks` to `Register`, `TxgReleToSync` to `Commit`,
  `QuiesceOpenNext` to `Close` and `SyncDone` to `Sync`; each other step leaves the five
  mapped values alone. `Close`'s bound on the live groups comes from `PipeInv`, `Sync`'s
  "all have committed" from the hold counts, "exactly their callbacks" from `PlaceInv`.
* `StopSafe`: `Spec => []StopLosesNothing`. `StopInv` follows `txg_sync_stop`: once it
  was called nobody holds a group, the group it asked for is no earlier than any
  transaction's, and its wait ends only when that group is synced.
* `WakeupsSafe`: `Spec => []NoLostWakeup`, the largest of these. `WakeInv` has one part
  per kind of sleeper (quiesce thread, sync thread on either of its condition variables,
  the drain on `tc_cv`, delayed transactions, waiters, and `txg_sync_stop` waiting for
  the threads to exit): where its code is, and that the condition it sleeps on still
  holds. So whoever changes the condition has to broadcast, for every condition variable
  and every action.

**Reader-mostly lock** (`RrmlockProofs`), from `RrwAssumption` and `RrmAssumption`; any
number of threads and locks. `RrmInv` says which locks a writer has at each round of its
two loops. `RrmImplementsRrw`: `RrmSpec => RrwSpec`, every step of the array is a step
the single lock's rules allow, so `RInv` holds of it too; `RrmExclusionSafe` follows.

**Pool configuration locks** (`SpaConfigProofs`), from `ConfigAssumption`: any number of
log blocks and administrators. `HeldAt` and `WriteAt` are tables of the places at which a
thread has each lock, as reader and as writer; `LockInv` says that the tables are right
also in the middle of a call (`Collected`) and that a writer is alone (`WriterAlone`).
Every call and exit is shown to lead from one row to another (`ReadFits`, `WriteFits`,
`ExitFits`). `ConfigSafe`: two threads whose places exclude each other would need one
lock. `ChangesSafe`: `DirtyInv` counts for every change on a dirty list that the groups
its author waits for include one whose `spa_sync` has yet to take the list.

**Transactions** (`DmuTxProofs`), from `DmuTxAssumption` (finitely many transactions,
positive limits and sizes): any number of transactions and dnodes, any lists, any sizes.

* `DnodeGroupSafe`: `GroupInv` (transactions are in the open group or the one before,
  those that take dnodes in the open one) and `DnodeInv` (a dnode's group is that of all
  its holders, and its count the number of the holds on it that are made and not gone, as
  pairs of a transaction and a place in its list). A list may have a dnode any number of
  times; an aborted assignment gives the holds back one by one in any interleaving.
* `AccountsSafe`, `QuotaSafe`: `AcctInv` on top, with `GapInv` for the slots.
  `DirtyAccounted` follows directly. For the quota the inductive statement is that
  what is on disk, dirty, or reserved and yet to be dirtied stays below
  `Quota` plus the largest transaction: a reservation is refused once disk, dirty and
  reserved space reach the quota, so the last one admitted is the only overrun. The sum
  of the sizes of a set of transactions is a recursive function; what is needed of it
  (adding and taking away a member) is proved by induction over finite sets, in set form.
* `SignalSafe`: `SignalChain` is preserved given `AcctInv`, since each change of
  `dp_dirty_total` signals if there is room (`DeltaSignals`).

**Range locks** (`RangeLockProofs`), from `RangeAssumption` (finitely many threads; a file
ends below half of `UINT64_MAX`, since offsets are signed): any threads, requests and
block sizes, any file. `NodesSafe`, `ExclusiveSafe` and `FileSafe` come from `RlInv`, which is
`RlTypes`, `ReqsFit` (what a thread that waits or holds asked for, and which range it may
have) and `TreeExact`. The last is `Exact(T, H, R, W)` of the tree, the holders, their
ranges and the writers among them:

* `HeldFit`, `Apart`: ranges and nodes end by the last offset, and nodes are disjoint;
* `Counts`: a node counts its holders, every held range is made up of whole nodes;
* `Owned`: a node with an owner is the whole range of that thread and of nobody else, and
  writers are exactly the owners of writer nodes.

`NodesExact` alone is not inductive: that a handle's node is found again at exit, and that
a writer's node is not split, is in `Owned`. The lemmas on the tree are about arbitrary
`T`, `H`, `R`, `W`: adding and removing an own node (`AddOwn`, `DropOwn`), one reader fewer
(`DropReader`), other contents of the same node (`Relabel`), and the new reader
(`GrownExact`). The last is the heart. The parts `AddReader` makes are compared with the
old nodes: `SplitParts` and `CutParts` (the split at the start of the range), `CountedParts`
(the overlapping nodes), `GapParts` (a byte of the range no node has is in exactly one gap),
`PartsApart`, and then `PartHolders`: a part of an old node has the holders of that node,
and the new one if it is in its range. That readers who wait do not overlap what they wait
for later is not needed; that nobody overlaps a node when it enters as a writer is what
`WriterBlockers` looks for. `FileSafe` adds that a thread which holds the whole file
overlaps everybody (`WholeAlone`), so whoever changes the size or the block size
meanwhile is that thread.

**Async tasks and export** (`SpaAsyncProofs`), from `SpaAsyncAssumption`: any number of
callers and zthrs. `AsyncQuietSafe` proves `AsyncQuiet` from `SInv`: `LockInv` (who must
have `spa_namespace_lock`), `CountInv` (`spa_async_suspended` is the number of callers
with one suspension in force and with two, `spa_refcount` that of holds, sync tasks and
opens), `QuietInv` (no async thread beside a caller past its wait) and `StoppedInv`
(`spa_unload` is alone, and the zthrs it has passed stay stopped). The counts are
cardinalities, each change of a place adds or removes one member. This is what finding 1
lacks for the zthrs of a failed export, and why the async thread is safe there.

**Intent log** (`ZilProofs`), from `ZilAssumption`: any number of threads, records,
groups, failures and crashes. `ReplaySpec => []ZilInv`, from which `GroupsLiveSafe`,
`WaiterLwbSafe` and `LwbListSafe`. `ZilInv` is `PoolInv` (at most three live groups) with
`RunInv` while the system runs and `DownInv` after a crash, when nothing is in memory.
The parts of `RunInv`:

* `HeldInv`: a transaction, also a log block's, is in no group that is being synced.
  `zil_sync` of a group starts only when nobody holds it.
* `QueueInv`: a slot of `zl_itxg` that is in use belongs to a live group not yet cleaned.
  Groups in one slot are four apart and `open` stays within three of the last synced
  group, so `zil_clean` has been at the slot when the next group needs it.
* `LwbInv`: an lwb is `FREE` exactly if it is not on `zl_lwb_list`; all but the last were
  issued; a written and not yet flushed one holds a transaction, which is why `zil_sync`
  may free those it finds with `lwb_max_txg` behind it and no buffer.
* `IssuerInv`: the owner of `zl_issuer_lock`, and that the block it fills is the last.
* `DeadInv`: after a failed allocation the writer stalls until everything is synced. Then
  either the list and the header are empty, or there is a dirty group `d`, not synced and
  below the one the stall waits for, such that no lwb can be filled and all of them are
  of groups up to `d`: `zil_sync` of `d` frees all of them before the stall ends. This is
  the reason behind the assertion that the list is empty, which no single function shows.
* `WaiterInv`: a waiter with an lwb is among that lwb's waiters, and the lwb is opened or
  in flight, hence held by its transaction and not freed.

`ReplayedOnceSafe` and `HeaderSafe` are about the recovery, for any number of crashes, also
during recovery, and of records that fail to be replayed. `DiskInv` says that blocks, in
memory and on disk, contain records and that headers point to blocks; `FlattenType` and
`LogType` conclude that `zil_parse` finds a sequence of records. `RecInv` is inductive with
it and `PoolInv`:

* `FsOrder`: records are replayed in the order of the log, in groups that only grow, and
  none is of a group that was on disk at the first crash (`base`);
* `HeaderOk`, of the header on disk with the last synced group and of the one in memory with
  the group being synced: everything replayed up to that group is covered by
  `zh_replay_seq`, which is the number of a record replayed by then; an unclaimed
  header has nothing replayed;
* `ReplayOk`: what was replayed since is behind `zl_replaying_seq`, in a dirty group, and
  covered by `zl_replayed_seq` of the group's slot. At most three groups are live, so
  `zil_sync` of a group finds the number of that group in the slot (`SlotsApart`);
* `DestroyOk`, `PhaseOk`: what `zil_destroy` and each phase of the recovery leave behind.

So a crash takes back together the records of the groups that are lost and the number
that covers them (`RecCrash`); the next replay starts at the first record not on disk.
The argument does not say that every record is replayed, see section 7.

`GroupInOrderSafe` follows the synchronous records of a group from `zl_itxg` through the
commit list into the blocks, until the group is synced or a crash. `GroupInOrder` speaks of
what is readable on disk only; `OrderInv`, inductive with `RunInv` and `DiskInv`, of
everything on the way. Its parts:

* `GroupOrder`, that is `Ordered` of the blocks, the commit list, the queue and the records
  given up: every logged record is in a block, on the commit list, in its slot or given up,
  or has vanished (`ProcessGone`),
  and wherever a record is, each earlier one of its group is further on: in an earlier
  block or before it in the same one, if the later is in a block; in some block, or before
  it on the list, or given up, if the later is on the list; and so on for the queue.
* `GivenUp`: the groups whose records are dropped from the commit list because the issuer
  has no block, has failed to read a record's data, or stalls. It then waits until the
  group is synced before it goes on, so that no later record of the group gets into a
  block meanwhile; a record is dropped only when it is synced or in `GivenUp`, and
  a group leaves `GivenUp` only when it is synced (`SyncedOrder`).
* `WrittenInv`, `ChainInv`: the contents of a block (`Content`, the lwb's records and for
  a freed one what is on disk) are what is read from it once it can be read; the blocks on
  the list are in the order of their allocation, records are added to the last only, and
  the blocks before the header's are empty. What `zil_sync` frees was written, and has
  only records of groups that are synced with it.
* `EntryInv`, `KnownInv`: a slot has records of its group only, and a record that is
  logged is not anywhere yet, so that its position is well defined.

The lemmas on `Ordered` are about arbitrary sequences: a record dropped (`OrderDropped`),
moved from the list to the last block (`OrderStored`), a slot appended to the list
(`OrderFetched`), itxs added to a slot (`OrderQueued`, `OrderLogged`), blocks added or
emptied (`OrderKept`). Each action has one lemma that says which of these it does.
Asynchronous records, which `zil_async_to_sync` may append late, are not part of the claim.

## 7. What is only model-checked

* Liveness (`WaitersReturn`, `CommitsReachDisk`, `RrmWritersProgress`, `SleepersWake`,
  `WorkDone`, `AssignEnds`, `CommitReturns`, `Recovers`, `ConfigOpsEnd`) under fairness,
  and the three violations: the proof system does not handle fairness.
* `CommitDurableLinked` and `CommitsRestored`: that every acknowledged record is in a
  block the header leads to needs the zio dependencies of all the blocks in flight with
  their caches, of which the proofs know only the order.

## 8. What is not modelled, and why

* **Within modelled components.** Per-group object lists (`txg_list_*`), planned.
  `rrw_destroy` and the panic on a leaked node. `rangelock_init` and `_fini`, the
  allocation of nodes, and `zfs_extend`. zthrs with a timer (the ARC's).
  The vdev removal thread, which `spa_async_suspend` also stops, and `spa_import`,
  `spa_reset` beyond what export does; the effect of the async tasks on vdevs. Time is
  not measured: a timed wait may end at any moment.
* **Transactions.** The estimates of `dmu_tx_hold_*` (what a transaction holds and writes
  is given), netfree transactions, sync tasks, `dbuf_undirty`, the memory throttle
  (`arc_tempreserve_space` and its `txg_delay`), how long `dmu_tx_delay` takes, parent
  directories and refquotas. `dd_used` only grows; frees are not modelled. What the vnode
  operations change, and those other than the three of `DmuTx`.
* **Intent log.** `zil_suspend`, `zil_resume` and `zil_close`; what `TX_REMOVE` and
  `TX_RENAME` do to asynchronous records; one write split over blocks (`lwb_nused`);
  frozen pools; checkpoint rewind; the log a dataset begins after recovery; contents of
  records (`zfs_log.c`, `zfs_replay.c`): a record is its thread, number and group.
  The sizes of blocks (`zl_prev_blks`) are left out.
* **Configuration locks.** `SCL_L2ARC`, `SCL_FREE` and `SCL_VDEV`, which have one kind of
  user each or are taken together with those modelled; `spa_config_tryenter`;
  `metaslab_group_passivate`, which drops and takes `SCL_ZIO`; the users of the locks in
  import and load; retry of zios other than the label writes after suspension.
* **Kernel primitives** (`src/kernel/os`): mutexes, condition variables, threads and
  task queues are taken for what they promise, with broadcasts that wake everybody.
* **Planned components** (section 2): zrlock, bqueue.
* **ARC, dbuf, dnode:** large state machines under hash and dbuf locks; the dbuf state
  machine would be next after the plan. **DSL, metaslab, space maps, ZAP:** mostly
  sequential changes in syncing context to on-disk data. **zio, vdev, checksums,
  compression:** device I/O and byte algorithms. **ZPL directories, ACLs, channel
  programs, ioctls:** data and argument handling.
* **The rest of the operating system** (VM, other file systems, network, drivers,
  dispatcher, linker, user land, vendored code): separate systems.

## 9. Running

    tlc -workers 2 -config MCTxg.cfg MCTxg
    tlapm ZilProofs.tla

`PROJECT.json` gives the module and configuration of every run. All passing runs
finish within four minutes on two workers; the largest are `zil` (3.6 million distinct
states) and `txg` (1.2 million); of those with liveness `zil_live` (540 thousand),
`spa_config` (360 thousand), `dmu_tx` (310 thousand) and `spa_async` (270 thousand).
