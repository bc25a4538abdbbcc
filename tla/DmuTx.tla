------------------------------- MODULE DmuTx -------------------------------
(***************************************************************************)
(* Transactions on their way into a group: dmu_tx_assign, dmu_tx_wait and  *)
(* dmu_tx_commit (src/kernel/fs/zfs/dmu_tx.c), the write throttle of       *)
(* dsl_pool.c and the space a directory reserves for them (dsl_dir.c).     *)
(*                                                                         *)
(* A transaction that cannot be assigned gives up everything it has and    *)
(* waits for dirty data to be written, for a dnode to leave the group that *)
(* quiesces, or for a group to be synced, and tries again.  Operations     *)
(* that hold a lock do not wait in dmu_tx_assign: they drop it, call       *)
(* dmu_tx_wait themselves and begin again.  Three operations on one        *)
(* directory use its locks in the three ways there are: zfs_setacl         *)
(* (zfs_acl.c), zfs_setattr and zfs_link (zfs_vnops.c).                    *)
(*                                                                         *)
(* The groups are as Txg makes them: one is open, one quiesces until the   *)
(* transactions in it have committed, and one is synced.                   *)
(***************************************************************************)
EXTENDS Integers, Sequences, FiniteSets, FiniteSetsExt

CONSTANTS
    Txs,            \* threads, each with one transaction
    Op,             \* thread -> what it does to the directory
    Dnodes,
    Holds,          \* thread -> the dnodes of its tx_holds, in order
    Space,          \* thread -> what it writes
    zfs_dirty_data_max,
    delay_min_bytes,
    Quota,          \* of the dsl_dir all of them write to
    FailContinue,   \* whether failmode is ZIO_FAILURE_MODE_CONTINUE
    SuspendTxg,     \* the group whose writes may suspend the pool
    MaxTxg          \* bound on the groups opened without dirty data or a
                    \* waiter for them

NoTx == "none"
Ops == {"zfs_setacl", "zfs_setattr", "zfs_link"}
Locks == {"dirent", "z_lock"}   \* of the name, and of the directory

ASSUME DmuTxAssumption ==
    /\ IsFiniteSet(Txs) /\ Txs # {}
    /\ Op \in [Txs -> Ops]
    /\ Holds \in [Txs -> Seq(Dnodes)] /\ Space \in [Txs -> Nat \ {0}]
    /\ zfs_dirty_data_max \in Nat \ {0} /\ Quota \in Nat \ {0}
    /\ NoTx \notin Txs /\ NoTx \notin Dnodes

TXG_SIZE == 4
TXG0 == 4           \* the first open group
Slot(t) == t % TXG_SIZE
Slots == 0 .. TXG_SIZE - 1

VARIABLES
    open, synced,   \* the groups
    spa,            \* what spa_sync does with group synced + 1
    suspended,      \* spa_suspended
    dp_dirty_pertxg,
    dp_dirty_total,
    dn_assigned_txg,
    dn_tx_holds,    \* dnode -> how many holds there are on it
    dd_used,        \* dd_used_bytes
    dd_tempreserved,
    dd_space_towrite,
    lock,           \* lock -> its owner
    pc,             \* thread -> where it is
    tx,             \* thread -> its dmu_tx_t
    woken,          \* threads dp_spaceavail_cv was signalled for
    quit            \* whether one of them ended without dirtying anything

poolVars == <<open, synced, spa, suspended>>
dirtyVars == <<dp_dirty_pertxg, dp_dirty_total>>
dnodeVars == <<dn_assigned_txg, dn_tx_holds>>
dirVars == <<dd_used, dd_tempreserved, dd_space_towrite>>
vars == <<poolVars, dirtyVars, dnodeVars, dirVars, lock, pc, tx, woken, quit>>

(* tx_txg, how many of its holds are made and how many of those are gone   *)
(* again, tx_lasttried_txg, the dnode of tx_needassign_txh, tx_wait_dirty, *)
(* tx_dirty_delayed, tx_err or what dmu_tx_assign is to return, and the    *)
(* group txg_wait_synced waits for.                                        *)
NewTx == [txg |-> 0, held |-> 0, gone |-> 0, lasttried |-> 0,
          needassign |-> NoTx, wait_dirty |-> FALSE, delayed |-> FALSE,
          err |-> "0", until |-> 0]

Init ==
    /\ open = TXG0 /\ synced = TXG0 - 1 /\ spa = "idle"
    /\ suspended = FALSE
    /\ dp_dirty_pertxg = [i \in Slots |-> 0] /\ dp_dirty_total = 0
    /\ dn_assigned_txg = [d \in Dnodes |-> 0]
    /\ dn_tx_holds = [d \in Dnodes |-> 0]
    /\ dd_used = 0
    /\ dd_tempreserved = [i \in Slots |-> 0]
    /\ dd_space_towrite = [i \in Slots |-> 0]
    /\ lock = [l \in Locks |-> NoTx]
    /\ pc = [t \in Txs |-> "top"]
    /\ tx = [t \in Txs |-> NewTx]
    /\ woken = {} /\ quit = FALSE

Sum(f) == f[0] + f[1] + f[2] + f[3]     \* over the slots

(* The lock an operation takes before dmu_tx_assign, which it then calls   *)
(* with TXG_NOWAIT, and the one it takes once it is assigned.              *)
FirstLock(t) == CASE Op[t] = "zfs_setacl" -> {"z_lock"}
                  [] Op[t] = "zfs_link" -> {"dirent"}
                  [] OTHER -> {}
InnerLock(t) == IF Op[t] = "zfs_setacl" THEN {} ELSE {"z_lock"}
Nowait(t) == FirstLock(t) # {}

-----------------------------------------------------------------------------
(* The write throttle                                                      *)

SpaceSleepers(p) == {t \in Txs : p[t] = "space_sleep"}

(* dsl_pool_dirty_delta, when the threads are at p, w of them woken, and   *)
(* the total becomes n: cv_signal wakes one sleeper if there is room.      *)
Signal(p, w) ==
    IF SpaceSleepers(p) = {} THEN pc' = p /\ woken' = w
    ELSE \E s \in SpaceSleepers(p) :
            pc' = [p EXCEPT ![s] = "wait"] /\ woken' = w \cup {s}

DirtyDeltaCrossing(p, w, n) ==      \* a mutant: when the total gets below it
    IF n < zfs_dirty_data_max /\ dp_dirty_total >= zfs_dirty_data_max
    THEN Signal(p, w) ELSE pc' = p /\ woken' = w

DirtyDelta(p, w, n) ==
    IF n < zfs_dirty_data_max THEN Signal(p, w) ELSE pc' = p /\ woken' = w

(* dsl_pool_undirty_space *)
UndirtyOpen(space, g) ==    \* a mutant: the slot of the open group
    /\ dp_dirty_pertxg' = [dp_dirty_pertxg EXCEPT ![Slot(open)] = @ - space]
    /\ dp_dirty_total' = dp_dirty_total - space
    /\ DirtyDelta(pc, woken, dp_dirty_total - space)

UndirtySpace(space, g) ==
    LET dirty == dp_dirty_pertxg[Slot(g)]
        less == IF dirty < space THEN dirty ELSE space
    IN  IF space = 0 THEN UNCHANGED <<dirtyVars, pc, woken>>
        ELSE /\ dp_dirty_pertxg' = [dp_dirty_pertxg EXCEPT
                                        ![Slot(g)] = @ - less]
             /\ dp_dirty_total' = dp_dirty_total - less
             /\ DirtyDelta(pc, woken, dp_dirty_total - less)

-----------------------------------------------------------------------------
(* The pool                                                                *)

(* txg_hold_open keeps tc_open_lock until txg_rele_to_quiesce, and a count *)
(* of the group until txg_rele_to_sync.                                    *)
OpenLocked == \E t \in Txs : pc[t] = "holds"
Counted(g) == \E t \in Txs : tx[t].txg = g

OpenNext ==
    /\ \/ open < MaxTxg \/ dp_dirty_pertxg[Slot(open)] > 0
       \/ \E t \in Txs : pc[t] = "synced" /\ tx[t].until >= open
    /\ open - synced < IF spa = "idle" THEN 2 ELSE 3
    /\ ~OpenLocked /\ ~Counted(open - 1)
    /\ open' = open + 1
    /\ UNCHANGED <<synced, spa, suspended, dirtyVars, dnodeVars, dirVars, lock,
                   pc, tx, woken, quit>>

SyncBegin ==
    /\ spa = "idle" /\ synced + 1 < open /\ ~Counted(synced + 1)
    /\ spa' = "data"
    /\ UNCHANGED <<open, synced, suspended, dirtyVars, dnodeVars, dirVars,
                   lock, pc, tx, woken, quit>>

(* dbuf_write_physdone: a part of a block is written; dbuf_write_done adds *)
(* it to dd_used_bytes ...                                                 *)
PhysDone ==
    /\ spa = "data" /\ ~suspended
    /\ dp_dirty_pertxg[Slot(synced + 1)] > 0
    /\ UndirtySpace(1, synced + 1)
    /\ dd_used' = dd_used + 1
    /\ UNCHANGED <<poolVars, dnodeVars, dd_tempreserved, dd_space_towrite,
                   lock, tx, quit>>

(* ... and dsl_pool_sync accounts for the rest.                            *)
SyncData ==
    LET rest == dp_dirty_pertxg[Slot(synced + 1)]
    IN  /\ spa = "data" /\ ~suspended
        /\ spa' = "dir"
        /\ UndirtySpace(rest, synced + 1)
        /\ dd_used' = dd_used + rest
        /\ UNCHANGED <<open, synced, suspended, dnodeVars, dd_tempreserved,
                       dd_space_towrite, lock, tx, quit>>

(* dsl_dir_sync, and the end of spa_sync                                   *)
SyncDone ==
    /\ spa = "dir"
    /\ spa' = "idle" /\ synced' = synced + 1
    /\ dd_space_towrite' = [dd_space_towrite EXCEPT ![Slot(synced + 1)] = 0]
    /\ UNCHANGED <<open, suspended, dirtyVars, dnodeVars, dd_used,
                   dd_tempreserved, lock, pc, tx, woken, quit>>

(* zio_suspend, when a block cannot be written; zio_resume                 *)
Suspend ==
    /\ spa = "data" /\ synced + 1 = SuspendTxg /\ ~suspended
    /\ suspended' = TRUE
    /\ UNCHANGED <<open, synced, spa, dirtyVars, dnodeVars, dirVars, lock, pc,
                   tx, woken, quit>>

Resume ==
    /\ suspended
    /\ suspended' = FALSE
    /\ UNCHANGED <<open, synced, spa, dirtyVars, dnodeVars, dirVars, lock, pc,
                   tx, woken, quit>>

-----------------------------------------------------------------------------
(* dmu_tx_assign                                                           *)

At(t, l) == pc' = [pc EXCEPT ![t] = l]
Tx(t, r) == tx' = [tx EXCEPT ![t] = r]

(* A thread ends without having dirtied anything.                          *)
Quit(t) == woken' = woken \ {t} /\ quit' = (quit \/ t \in woken)

Free(L) == \A l \in L : lock[l] = NoTx
Take(t, L) == lock' = [l \in Locks |-> IF l \in L THEN t ELSE lock[l]]

(* z_lock protects the list that zfs_dirent_lock and _unlock change.       *)
DirlocksFree(t) == Op[t] = "zfs_link" => Free({"z_lock"})

(* dmu_tx_assign fails, to be tried again or not; an operation drops its   *)
(* lock before dmu_tx_wait and before it returns.                          *)
LockKept(t) == UNCHANGED lock       \* a mutant: the lock is kept
Unlock(t) ==
    /\ DirlocksFree(t)
    /\ lock' = [l \in Locks |-> IF lock[l] = t THEN NoTx ELSE lock[l]]

Fail(t, r, err) ==
    /\ Unlock(t)
    /\ IF err = "ERESTART"
       THEN At(t, "wait") /\ Tx(t, r) /\ UNCHANGED <<woken, quit>>
       ELSE At(t, "done") /\ Tx(t, NewTx) /\ Quit(t)

(* An operation begins: it takes its lock, makes a new dmu_tx_t and adds   *)
(* the holds, which read from disk and may fail.                           *)
Top(t) ==
    /\ pc[t] = "top" /\ Free(FirstLock(t)) /\ DirlocksFree(t)
    /\ Take(t, FirstLock(t))
    /\ At(t, "assign")
    /\ \E err \in {"0", "EIO"} :
        Tx(t, [NewTx EXCEPT !.delayed = tx[t].delayed, !.err = err])
    /\ UNCHANGED <<poolVars, dirtyVars, dnodeVars, dirVars, woken, quit>>

(* zfs_dirent_lock finds that the name exists by now.                      *)
TopEnds(t) ==
    /\ pc[t] = "top" /\ Op[t] = "zfs_link"
    /\ Free(FirstLock(t)) /\ DirlocksFree(t)
    /\ At(t, "done") /\ Tx(t, NewTx) /\ Quit(t)
    /\ UNCHANGED <<poolVars, dirtyVars, dnodeVars, dirVars, lock>>

(* dmu_tx_try_assign up to txg_hold_open                                   *)
NeedDirtyDelay(t) == ~tx[t].delayed /\ dp_dirty_total > delay_min_bytes

TryAssign(t) ==
    /\ pc[t] = "assign"
    /\ \/ tx[t].err # "0" /\ Fail(t, tx[t], tx[t].err)
       \/ /\ tx[t].err = "0" /\ suspended
          /\ Fail(t, tx[t],
                  IF FailContinue /\ Nowait(t) THEN "EIO" ELSE "ERESTART")
       \/ /\ tx[t].err = "0" /\ ~suspended /\ NeedDirtyDelay(t)
          /\ Fail(t, [tx[t] EXCEPT !.wait_dirty = TRUE], "ERESTART")
       \/ /\ tx[t].err = "0" /\ ~suspended /\ ~NeedDirtyDelay(t)
          /\ At(t, "open")
          /\ UNCHANGED <<tx, lock, woken, quit>>
    /\ UNCHANGED <<poolVars, dirtyVars, dnodeVars, dirVars>>

HoldOpen(t) ==
    /\ pc[t] = "open"
    /\ Tx(t, [tx[t] EXCEPT !.txg = open, !.needassign = NoTx])
    /\ At(t, "holds")
    /\ UNCHANGED <<poolVars, dirtyVars, dnodeVars, dirVars, lock, woken, quit>>

(* The next hold of the list.  A dnode that is in use in the group that    *)
(* quiesces is not changed in the next one too: dmu_tx_unassign begins,    *)
(* and lets tc_open_lock go first.                                         *)
AlwaysFree(t, d) == FALSE           \* a mutant: the check is missing
InQuiescing(t, d) == dn_assigned_txg[d] = tx[t].txg - 1

HoldsLeft(t) == tx[t].held < Len(Holds[t])

HoldDnode(t) ==
    LET d == Holds[t][tx[t].held + 1]
    IN  /\ pc[t] = "holds" /\ HoldsLeft(t)
        /\ IF InQuiescing(t, d)
           THEN /\ Tx(t, [tx[t] EXCEPT !.needassign = d, !.err = "ERESTART"])
                /\ At(t, "unhold")
                /\ UNCHANGED dnodeVars
           ELSE /\ dn_assigned_txg' = [dn_assigned_txg EXCEPT
                                        ![d] = IF @ = 0 THEN tx[t].txg ELSE @]
                /\ dn_tx_holds' = [dn_tx_holds EXCEPT ![d] = @ + 1]
                /\ Tx(t, [tx[t] EXCEPT !.held = @ + 1])
                /\ UNCHANGED pc
        /\ UNCHANGED <<poolVars, dirtyVars, dirVars, lock, woken, quit>>

(* dsl_dir_tempreserve_space: what is written, dirty or reserved must be   *)
(* less than the quota.                                                    *)
EstDirty == Sum(dd_space_towrite)   \* a mutant: reservations do not count
EstInflight == Sum(dd_space_towrite) + Sum(dd_tempreserved)

TempreserveSpace(t) ==
    /\ pc[t] = "holds" /\ ~HoldsLeft(t)
    /\ IF dd_used + EstInflight >= Quota
       THEN /\ Tx(t, [tx[t] EXCEPT
                        !.err = IF EstInflight > 0 \/ dd_used < Quota
                                THEN "ERESTART" ELSE "EDQUOT"])
            /\ At(t, "unhold")
            /\ UNCHANGED dd_tempreserved
       ELSE /\ dd_tempreserved' = [dd_tempreserved EXCEPT
                                        ![Slot(tx[t].txg)] = @ + Space[t]]
            /\ At(t, "assigned")
            /\ UNCHANGED tx
    /\ UNCHANGED <<poolVars, dirtyVars, dnodeVars, dd_used, dd_space_towrite,
                   lock, woken, quit>>

(* One hold is let go, in dmu_tx_unassign or dmu_tx_commit; when it was    *)
(* the last one on its dnode the sleepers on dn_notxholds are woken.       *)
RemoveHold(t) ==
    LET d == Holds[t][tx[t].gone + 1]
        last == dn_tx_holds[d] = 1
    IN  /\ pc[t] \in {"unhold", "commit"} /\ tx[t].gone < tx[t].held
        /\ dn_tx_holds' = [dn_tx_holds EXCEPT ![d] = @ - 1]
        /\ dn_assigned_txg' = [dn_assigned_txg EXCEPT
                                    ![d] = IF last THEN 0 ELSE @]
        /\ pc' = [s \in Txs |->
                    IF last /\ pc[s] = "dnode_sleep" /\ tx[s].needassign = d
                    THEN "dnode" ELSE pc[s]]
        /\ Tx(t, [tx[t] EXCEPT !.gone = @ + 1])
        /\ UNCHANGED <<poolVars, dirtyVars, dirVars, lock, woken, quit>>

Unassigned(t) ==
    /\ pc[t] = "unhold" /\ tx[t].gone = tx[t].held
    /\ Fail(t, [tx[t] EXCEPT !.lasttried = tx[t].txg, !.txg = 0, !.held = 0,
                             !.gone = 0, !.err = "0"], tx[t].err)
    /\ UNCHANGED <<poolVars, dirtyVars, dnodeVars, dirVars>>

-----------------------------------------------------------------------------
(* dmu_tx_wait                                                             *)

(* It returns: dmu_tx_assign goes round, and an operation begins again;    *)
(* zfs_link passes TXG_NOTHROTTLE once it has waited, zfs_setacl does not. *)
Retry(t, r) ==
    IF Nowait(t)
    THEN At(t, "top") /\ Tx(t, [r EXCEPT !.delayed = Op[t] = "zfs_link"])
    ELSE At(t, "assign") /\ Tx(t, r)

(* There is too much dirty data.  dmu_tx_delay only takes time.            *)
WaitDirty(t) ==
    /\ pc[t] = "wait" /\ tx[t].wait_dirty
    /\ IF dp_dirty_total >= zfs_dirty_data_max
       THEN At(t, "space_sleep") /\ woken' = woken \ {t} /\ UNCHANGED tx
       ELSE /\ Retry(t, [tx[t] EXCEPT !.wait_dirty = FALSE, !.delayed = TRUE])
            /\ UNCHANGED woken
    /\ UNCHANGED <<poolVars, dirtyVars, dnodeVars, dirVars, lock, quit>>

WaitsForDnode(t) == /\ ~suspended /\ tx[t].lasttried # 0
                    /\ tx[t].needassign # NoTx

(* Otherwise a group or, if a dnode was in the way, that dnode is waited   *)
(* for.                                                                    *)
Wait(t) ==
    /\ pc[t] = "wait" /\ ~tx[t].wait_dirty
    /\ IF WaitsForDnode(t)
       THEN At(t, "dnode") /\ UNCHANGED tx
       ELSE At(t, "synced") /\ Tx(t, [tx[t] EXCEPT !.until = synced + 1])
    /\ UNCHANGED <<poolVars, dirtyVars, dnodeVars, dirVars, lock, woken, quit>>

WaitDnode(t) ==
    /\ pc[t] = "dnode"
    /\ IF dn_assigned_txg[tx[t].needassign] = tx[t].lasttried - 1
       THEN At(t, "dnode_sleep") /\ UNCHANGED tx
       ELSE Retry(t, [tx[t] EXCEPT !.needassign = NoTx])
    /\ UNCHANGED <<poolVars, dirtyVars, dnodeVars, dirVars, lock, woken, quit>>

(* txg_wait_synced returns.                                                *)
WaitSynced(t) ==
    /\ pc[t] = "synced" /\ synced >= tx[t].until
    /\ Retry(t, [tx[t] EXCEPT !.until = 0])
    /\ UNCHANGED <<poolVars, dirtyVars, dnodeVars, dirVars, lock, woken, quit>>

-----------------------------------------------------------------------------
(* The work, and dmu_tx_commit                                             *)

(* z_lock of the directory is taken in zfs_setattr and zfs_link_create,    *)
(* and dropped once the change is made.                                    *)
TakeLock(t) ==
    /\ pc[t] = "assigned" /\ InnerLock(t) # {} /\ Free(InnerLock(t))
    /\ Take(t, InnerLock(t))
    /\ At(t, "locked")
    /\ UNCHANGED <<poolVars, dirtyVars, dnodeVars, dirVars, tx, woken, quit>>

Works(t) == pc[t] = IF InnerLock(t) = {} THEN "assigned" ELSE "locked"

Unlocked(t) == lock' = [l \in Locks |-> IF l \in InnerLock(t) THEN NoTx
                                                           ELSE lock[l]]

(* dmu_objset_willuse_space: dsl_dir_willuse_space, dsl_pool_dirty_space   *)
Dirty(t) ==
    LET g == Slot(tx[t].txg)
        total == dp_dirty_total + Space[t]
    IN  /\ Works(t) /\ Unlocked(t)
        /\ dd_space_towrite' = [dd_space_towrite EXCEPT ![g] = @ + Space[t]]
        /\ dp_dirty_pertxg' = [dp_dirty_pertxg EXCEPT ![g] = @ + Space[t]]
        /\ dp_dirty_total' = total
        /\ DirtyDelta([pc EXCEPT ![t] = "commit"], woken \ {t}, total)
        /\ UNCHANGED <<poolVars, dnodeVars, dd_used, dd_tempreserved, tx,
                       quit>>

(* zfs_link_create finds the file unlinked, before it comes to the         *)
(* directory; the transaction is committed all the same.                   *)
WorkFails(t) ==
    /\ pc[t] = "assigned" /\ Op[t] = "zfs_link"
    /\ At(t, "commit") /\ Quit(t)
    /\ UNCHANGED <<poolVars, dirtyVars, dnodeVars, dirVars, lock, tx>>

(* dsl_dir_tempreserve_clear *)
TempreserveClear(t) ==
    /\ pc[t] = "commit" /\ tx[t].gone = tx[t].held
    /\ dd_tempreserved' = [dd_tempreserved EXCEPT
                                ![Slot(tx[t].txg)] = @ - Space[t]]
    /\ At(t, "rele")
    /\ UNCHANGED <<poolVars, dirtyVars, dnodeVars, dd_used, dd_space_towrite,
                   lock, tx, woken, quit>>

(* txg_rele_to_sync, dmu_tx_destroy; then an operation drops its lock.     *)
ReleToSync(t) ==
    /\ pc[t] = "rele"
    /\ Tx(t, NewTx)
    /\ Unlock(t)
    /\ At(t, "done")
    /\ UNCHANGED <<poolVars, dirtyVars, dnodeVars, dirVars, woken, quit>>

-----------------------------------------------------------------------------
TxStep(t) ==
    \/ Top(t) \/ TopEnds(t) \/ TryAssign(t) \/ HoldOpen(t) \/ HoldDnode(t)
    \/ TempreserveSpace(t) \/ RemoveHold(t)
    \/ Unassigned(t) \/ WaitDirty(t) \/ Wait(t) \/ WaitDnode(t)
    \/ WaitSynced(t) \/ TakeLock(t) \/ Dirty(t) \/ WorkFails(t)
    \/ TempreserveClear(t) \/ ReleToSync(t)

PoolStep == OpenNext \/ SyncBegin \/ PhysDone \/ SyncData \/ SyncDone

Next == \/ \E t \in Txs : TxStep(t)
        \/ PoolStep
        \/ Suspend \/ Resume

(* Threads run, and groups are opened and synced: by the sync thread's     *)
(* timer if nothing else asks for it.  A suspended pool is resumed by its  *)
(* administrator, if at all.                                               *)
Spec == /\ Init /\ [][Next]_vars
        /\ \A t \in Txs : WF_vars(TxStep(t))
        /\ WF_vars(PoolStep)

-----------------------------------------------------------------------------
(* The holds on d, each with its transaction and its place in the list.    *)
Kept(t) == tx[t].gone + 1 .. tx[t].held
Positions == UNION {DOMAIN Holds[t] : t \in Txs}
HoldsOn(d) == {h \in Txs \X Positions :
                h[2] \in Kept(h[1]) /\ Holds[h[1]][h[2]] = d}

(* The assertions on dn_assigned_txg: all transactions that hold a dnode   *)
(* are in the same group, so that it is changed in one group at a time in  *)
(* open context, and one that is to hold it finds it free, in its own      *)
(* group or in the one that quiesces.  The dnode is free exactly when no   *)
(* hold is left on it, however often a transaction holds it.  That group   *)
(* is not synced before the transaction is released, whether it is         *)
(* assigned or gives up.                                                   *)
DnodeOneGroup ==
    /\ \A t \in Txs : tx[t].txg \in {0} \cup synced + 1 .. open
    /\ \A d \in Dnodes :
        /\ dn_tx_holds[d] = Cardinality(HoldsOn(d))
        /\ dn_assigned_txg[d] = 0 <=> HoldsOn(d) = {}
        /\ \A h \in HoldsOn(d) : tx[h[1]].txg = dn_assigned_txg[d]
    /\ \A t \in Txs : pc[t] = "holds" /\ HoldsLeft(t) =>
        dn_assigned_txg[Holds[t][tx[t].held + 1]]
            \in {0, tx[t].txg, tx[t].txg - 1}

(* dmu_tx_try_assign: "it is possible to exceed the allowed usage by one   *)
(* transaction", and by no more, however many are assigned at once and     *)
(* whichever of their groups are being synced.                             *)
QuotaOverrunByOne == dd_used < Quota + Max({Space[t] : t \in Txs})

(* What the transactions in T write.                                       *)
SpaceOf(T) == MapThenSumSet(LAMBDA t : Space[t], T)

(* The total is what the groups that are not written have dirtied, and the *)
(* slot of a group is empty when the group is synced.  Reservations are    *)
(* those of the transactions that are assigned to the group.               *)
DirtyAccounted ==
    /\ \A i \in Slots : dd_tempreserved[i] =
        SpaceOf({t \in Txs : /\ pc[t] \in {"assigned", "locked", "commit"}
                             /\ Slot(tx[t].txg) = i})
    /\ dp_dirty_total = Sum(dp_dirty_pertxg)
    /\ \A i \in Slots : dp_dirty_pertxg[i] > 0 =>
        \E g \in synced + 1 .. open : Slot(g) = i

(* "This ensures forward progress -- each thread wakes the next waiter":   *)
(* where somebody sleeps on dp_spaceavail_cv there is dirty data yet to be *)
(* written, or a thread that was woken will dirty some, unless one of them *)
(* has ended without dirtying anything.                                    *)
SignalChain ==
    SpaceSleepers(pc) # {} => dp_dirty_total > 0 \/ woken # {} \/ quit

(* Every transaction is assigned or fails, unless the pool is suspended    *)
(* again and again: those that wait hold nothing that keeps a group from   *)
(* quiescing, and an operation no lock that an assigned one needs.  Only   *)
(* the sleepers that such a thread has left behind may stay.               *)
AssignEnds ==
    <>[](~suspended) =>
        \A t \in Txs : pc[t] \in {"top", "assign"} ~>
            pc[t] = "done" \/ (pc[t] = "space_sleep" /\ quit)
=============================================================================
