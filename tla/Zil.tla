-------------------------------- MODULE Zil --------------------------------
(***************************************************************************)
(* The commit path of the intent log, src/kernel/fs/zfs/zil.c, over the    *)
(* transaction groups of a pool that may crash at any point.               *)
(*                                                                         *)
(* Threads log records of their own file in a transaction and call         *)
(* zil_commit for it.  A thread that gets zl_issuer_lock moves the queued  *)
(* itxs to log blocks (lwbs), which are chained on disk: every block is    *)
(* written with a pointer to the next one, allocated in advance.  zio      *)
(* callbacks mark the waiters of a block done.  spa_sync frees the blocks  *)
(* whose records have reached the pool and moves the header along.         *)
(*                                                                         *)
(* A crash is not an action: Recoverable says in every state what replay   *)
(* would find if the system stopped there.  A device keeps a completed     *)
(* write in its cache, and loses it in a crash, until it is flushed.       *)
(*                                                                         *)
(* Blocks are numbered as they are allocated, so that the block after b in *)
(* a chain is b + 1.                                                       *)
(***************************************************************************)
EXTENDS Integers, Sequences, FiniteSets, SequencesExt, FiniteSetsExt

CONSTANTS
    Threads,        \* threads that write and call zil_commit
    FirstBlocks,    \* what the header may hold at first: 1 a block that an
                    \* earlier zil_destroy has kept, 0 a hole
    Vdevs,          \* devices log blocks are allocated on
    LwbRecords,     \* records that fit in a log block
    AsyncThreads,   \* threads whose records may be asynchronous
    MaxRecords,     \* thread -> bound on its records
    MaxCommits,     \* bound on the commits of a thread
    MaxFailures,    \* bound on allocations, data reads, writes and flushes
                    \* of log blocks that fail, and on records whose data
                    \* is gone when it is to be logged
    MaxTxg          \* bound on the groups opened without a waiter for them

TXG_SIZE == 4
TXG_CONCURRENT_STATES == 3
TXG_DEFER_SIZE == 2
TXG0 == 4           \* the first open group

NoThread == "none"

ASSUME ZilAssumption ==
    /\ NoThread \notin Threads
    /\ FirstBlocks \subseteq {0, 1}
    /\ MaxRecords \in [Threads -> Nat]

VARIABLES
    open,           \* tx_open_txg
    synced,         \* the group of the uberblock on disk
    spa,            \* what spa_sync does for group synced + 1, or after it
    zh_log,         \* the block the header points to on disk, 0 a hole
    zh_syncing,     \* the same in the header spa_sync is writing
    freed,          \* the blocks spa_sync frees in that group
    dirty,          \* groups the dataset is dirty in
    itxg,           \* the queue of itxs, by txg & TXG_MASK
    cleaning,       \* waiters of the itxs handed to dp_zil_clean_taskq
    commit_list,    \* zl_itx_commit_list
    lwb_list,       \* zl_lwb_list
    lwb,            \* block -> its lwb_t
    disk,           \* block -> what a read of it returns
    last_opened,    \* zl_last_lwb_opened, 0 if NULL
    issuer,         \* the owner of zl_issuer_lock
    pc,             \* thread -> where it is
    tx,             \* thread -> the group its transaction holds, 0 if none
    pos,            \* thread -> the groups a loop over the queue has left,
                    \* or the one group txg_wait_synced waits for
    zcw,            \* thread -> its commit waiter
    cur,            \* the lwb of zil_process_commit_list, 0 if NULL
    nolwb,          \* the nolwb_waiters of zil_process_commit_list
    logged,         \* the records, in the order of zil_itx_assign
    due,            \* thread -> records its zil_commit is to make durable
    acked,          \* records some zil_commit has returned for
    vanished,       \* records left out because what they wrote is gone
    budget          \* thread -> records and commits left; failures left

poolVars == <<open, synced, spa, zh_log, zh_syncing, freed, dirty>>
queueVars == <<itxg, cleaning, commit_list>>
lwbVars == <<lwb_list, lwb, disk, last_opened>>
threadVars == <<issuer, pc, tx, pos, zcw, cur, nolwb>>
ghostVars == <<logged, due, acked, vanished, budget>>
vars == <<poolVars, queueVars, lwbVars, threadVars, ghostVars>>

Blocks == DOMAIN lwb
Slot(t) == t % TXG_SIZE
(* The asynchronous itxs of a group are kept by file, that is by thread.   *)
EmptyItxg == [txg |-> 0, sync |-> <<>>, async |-> [th \in Threads |-> <<>>]]
NoLwb == [state |-> "FREE", recs |-> <<>>, waiters |-> {}, tree |-> {},
          vdev |-> 0, tx |-> 0, buf |-> FALSE, max_txg |-> 0, next |-> 0,
          write_after |-> 0, root_after |-> 0, cb |-> "none", error |-> FALSE]
NoBlock == [recs |-> <<>>, next |-> 0, vdev |-> 0, at |-> "unwritten"]
NewWaiter == [lwb |-> 0, done |-> FALSE, error |-> FALSE]

(* Ghost sets: all records, and those no scan of the queue had passed by.  *)
NoRecords == [all |-> {}, seen |-> {}]

IsCommit(itx) == itx.n = 0

Init ==
    /\ open = TXG0 /\ synced = TXG0 - 1 /\ spa = "idle"
    /\ zh_log \in FirstBlocks /\ zh_syncing = zh_log
    /\ freed = {} /\ dirty = {}
    /\ itxg = [i \in 0 .. TXG_SIZE - 1 |-> EmptyItxg]
    /\ cleaning = {} /\ commit_list = <<>>
    /\ lwb_list = <<>> /\ last_opened = 0
    /\ lwb = [b \in 1 .. zh_log |-> NoLwb]
    /\ disk = [b \in 1 .. zh_log |-> NoBlock]
    /\ issuer = NoThread
    /\ pc = [th \in Threads |-> "idle"]
    /\ tx = [th \in Threads |-> 0]
    /\ pos = [th \in Threads |-> <<>>]
    /\ zcw = [th \in Threads |-> NewWaiter]
    /\ cur = 0 /\ nolwb = {}
    /\ logged = <<>> /\ due = [th \in Threads |-> NoRecords]
    /\ acked = NoRecords /\ vanished = {}
    /\ budget = [recs |-> MaxRecords,
                 commits |-> [th \in Threads |-> MaxCommits],
                 fails |-> MaxFailures]

-----------------------------------------------------------------------------
(* The transaction groups, as Txg models them: at most three are live, and *)
(* a group is synced when nobody holds it.                                 *)

Held(t) == \/ \E th \in Threads : tx[th] = t
           \/ \E b \in Blocks : lwb[b].tx = t

(* spa_last_synced_txg, which is set at the end of spa_sync, and           *)
(* tx_synced_txg, which follows it.                                        *)
LastSynced == IF spa \in {"clean", "done"} THEN synced - 1 ELSE synced

Waiting(th) == pc[th] \in {"create_wait", "stall", "timeout_stall", "eio",
                           "error"}

OpenNext ==
    /\ open < MaxTxg \/ \E th \in Threads : /\ Waiting(th)
                                                 /\ Head(pos[th]) >= open
    /\ open - LastSynced < IF spa = "idle" THEN 2 ELSE 3
    /\ ~Held(open - 1)
    /\ open' = open + 1
    /\ UNCHANGED <<synced, spa, zh_log, zh_syncing, freed, dirty, queueVars,
                   lwbVars, threadVars, ghostVars>>

(* zil_sync frees an lwb only when its write is over and its records are   *)
(* in this group or an earlier one.                                        *)
Freeable(b, t) == ~lwb[b].buf /\ lwb[b].max_txg <= t

(* dsl_pool_sync begins with a group; in pass 1 zil_sync runs if the       *)
(* dataset is dirty.                                                       *)
ZilSync ==
    LET t == synced + 1
        kept == {i \in DOMAIN lwb_list : ~Freeable(lwb_list[i], t)}
        first == IF kept = {} THEN Len(lwb_list) + 1 ELSE Min(kept)
        gone == {lwb_list[i] : i \in 1 .. first - 1}
    IN  /\ spa = "idle" /\ t < open /\ ~Held(t)
        /\ spa' = "sync"
        /\ dirty' = dirty \ {t}
        /\ IF t \in dirty /\ lwb_list # <<>>
           THEN /\ lwb_list' = SubSeq(lwb_list, first, Len(lwb_list))
                /\ zh_syncing' = IF kept = {} THEN 0 ELSE lwb_list[first]
                /\ freed' = gone
                /\ lwb' = [b \in Blocks |->
                                IF b \in gone THEN NoLwb ELSE lwb[b]]
                /\ last_opened' = IF last_opened \in gone THEN 0
                                                          ELSE last_opened
           ELSE UNCHANGED <<lwb_list, zh_syncing, freed, lwb, last_opened>>
        /\ UNCHANGED <<open, synced, zh_log, queueVars, disk, threadVars,
                       ghostVars>>

(* The uberblock is written.  The freed blocks may be reused.              *)
SyncDone ==
    /\ spa = "sync"
    /\ spa' = "clean"
    /\ synced' = synced + 1
    /\ zh_log' = zh_syncing
    /\ freed' = {}
    /\ disk' = [b \in Blocks |->
                    IF b \in freed
                    THEN [NoBlock EXCEPT !.at = "reused"]
                    ELSE disk[b]]
    /\ UNCHANGED <<open, zh_syncing, dirty, queueVars, lwb_list, lwb,
                   last_opened, threadVars, ghostVars>>

(* The waiters on a list of itxs that is thrown away.                      *)
NoWaiters(itxs) == {}       \* a mutant: the waiters are forgotten

WaitersOf(itxs) == {itxs[i].by : i \in {j \in DOMAIN itxs :
                                            IsCommit(itxs[j])}}

SlotBehind(t) == Slot(t - 1)        \* a mutant: the wrong slot
CleanSlot(t) == Slot(t)

(* dsl_pool_sync_done calls zil_clean for the group it has synced.         *)
ZilClean ==
    /\ spa = "clean"
    /\ spa' = "done"
    /\ LET s == CleanSlot(synced)
       IN  /\ cleaning' = cleaning \cup WaitersOf(itxg[s].sync)
           /\ itxg' = [itxg EXCEPT ![s] = EmptyItxg]
    /\ UNCHANGED <<open, synced, zh_log, zh_syncing, freed, dirty, commit_list,
                   lwbVars, threadVars, ghostVars>>

(* The end of spa_sync                                                     *)
UbSync ==
    /\ spa = "done"
    /\ spa' = "idle"
    /\ UNCHANGED <<open, synced, zh_log, zh_syncing, freed, dirty, queueVars,
                   lwbVars, threadVars, ghostVars>>

(* zil_commit_waiter_skip *)
Skip(waiters) ==
    zcw' = [th \in Threads |-> IF th \in waiters
                               THEN [zcw[th] EXCEPT !.done = TRUE]
                               ELSE zcw[th]]

(* zil_itxg_clean, in the taskq *)
ItxgClean ==
    /\ cleaning # {}
    /\ \E th \in cleaning : Skip({th}) /\ cleaning' = cleaning \ {th}
    /\ UNCHANGED <<poolVars, itxg, commit_list, lwbVars, issuer, pc, tx, pos,
                   cur, nolwb, ghostVars>>

-----------------------------------------------------------------------------
(* What a crash now would leave.                                           *)

Stable(b) == disk[b].at = "stable"

(* A completed write stays in the cache of its device: with a flush of an  *)
(* lwb to come, or with none.                                              *)
Cached == {"cache", "unflushed"}

(* zil_read_log_block fails with ECKSUM unless the block is intact and     *)
(* names the next.                                                         *)
Readable(b) == Stable(b) /\ disk[b].next # 0

(* The blocks whose records zil_parse finds from the header's block on.    *)
ChainFrom(first) == {b \in Blocks : /\ first # 0 /\ first <= b
                                    /\ \A c \in first .. b : Readable(c)}

Chain == ChainFrom(zh_log)

InBlock(r, b) == r \in ToSet(disk[b].recs)

Recoverable(r) == r.txg <= synced \/ \E b \in Chain : InBlock(r, b)

-----------------------------------------------------------------------------
(* Writing: a transaction logs a record.                                   *)

Goto(th, l) == pc' = [pc EXCEPT ![th] = l]

(* dmu_tx_assign, of a write or of zil_commit_itx_assign *)
TxAssign(th, from, to) ==
    /\ pc[th] = from /\ Goto(th, to)
    /\ tx' = [tx EXCEPT ![th] = open]
    /\ UNCHANGED <<poolVars, queueVars, lwbVars, issuer, pos, zcw, cur, nolwb,
                   ghostVars>>

Write(th) ==
    /\ budget.recs[th] > 0 /\ open <= MaxTxg
    /\ TxAssign(th, "idle", "log")

(* The slot after zil_itx_assign of an itx; a stale slot is replaced.      *)
AssignedInFront(s, itx) ==          \* a mutant: list_insert_head
    LET g == IF s.txg = itx.txg THEN s ELSE [EmptyItxg EXCEPT !.txg = itx.txg]
    IN  IF itx.sync THEN [g EXCEPT !.sync = <<itx>> \o @]
                    ELSE [g EXCEPT !.async[itx.by] = <<itx>> \o @]

Assigned(s, itx) ==
    LET g == IF s.txg = itx.txg THEN s ELSE [EmptyItxg EXCEPT !.txg = itx.txg]
    IN  IF itx.sync THEN [g EXCEPT !.sync = Append(@, itx)]
                    ELSE [g EXCEPT !.async[itx.by] = Append(@, itx)]

(* zil_itx_assign and dmu_tx_commit.  The itxs of a stale slot are cleaned *)
(* here, with the waiters among them.                                      *)
ItxAssign(th, itx) ==
    LET s == Slot(itx.txg)
        stale == IF itxg[s].txg = itx.txg THEN <<>> ELSE itxg[s].sync
    IN  /\ itxg' = [itxg EXCEPT ![s] = Assigned(@, itx)]
        /\ cleaning' = cleaning \cup WaitersOf(stale)
        /\ tx' = [tx EXCEPT ![th] = 0]

LogItx(th) ==
    /\ pc[th] = "log"
    /\ \E sync \in {TRUE, th \notin AsyncThreads} :
        LET r == [by |-> th, n |-> budget.recs[th], sync |-> sync,
                  txg |-> tx[th]]
        IN  ItxAssign(th, r) /\ logged' = Append(logged, r)
    /\ budget' = [budget EXCEPT !.recs[th] = @ - 1]
    /\ dirty' = dirty \cup {tx[th]}
    /\ Goto(th, "idle")
    /\ UNCHANGED <<open, synced, spa, zh_log, zh_syncing, freed, commit_list,
                   lwbVars, issuer, pos, zcw, cur, nolwb, due, acked,
                   vanished>>

-----------------------------------------------------------------------------
(* zil_commit for the thread's own file                                    *)

(* The groups a loop over the queue visits, from what is synced now.       *)
LiveGroups == [i \in 1 .. TXG_CONCURRENT_STATES |-> LastSynced + i]

(* Only the thread queues records of its file, so zil_async_to_sync has    *)
(* something to do just in the groups that hold some now.                  *)
OwnGroups(th) ==
    LET HasOwn(t) == itxg[Slot(t)].async[th] # <<>>
    IN  SelectSeq(LiveGroups, HasOwn)

(* zil_commit, zil_commit_impl: due are the records it promises.           *)
Commit(th) ==
    /\ pc[th] = "idle" /\ budget.commits[th] > 0
    /\ budget' = [budget EXCEPT !.commits[th] = @ - 1]
    /\ due' = [due EXCEPT ![th].all = {r \in ToSet(logged) :
                                        r.sync \/ r.by = th}]
    /\ pos' = [pos EXCEPT ![th] = OwnGroups(th)]
    /\ Goto(th, IF pos'[th] = <<>> THEN "commit" ELSE "async")
    /\ UNCHANGED <<poolVars, queueVars, lwbVars, issuer, tx, zcw, cur, nolwb,
                   logged, acked, vanished>>

(* zil_async_to_sync for the file, one group at a time *)
AsyncToSync(th) ==
    LET t == Head(pos[th])
        s == Slot(t)
    IN  /\ pc[th] = "async"
        /\ IF itxg[s].txg = t
           THEN itxg' = [itxg EXCEPT ![s].sync = @ \o itxg[s].async[th],
                                     ![s].async[th] = <<>>]
           ELSE UNCHANGED itxg
        /\ pos' = [pos EXCEPT ![th] = Tail(@)]
        /\ IF Len(pos[th]) = 1 THEN Goto(th, "commit") ELSE UNCHANGED pc
        /\ UNCHANGED <<poolVars, cleaning, commit_list, lwbVars, issuer, tx,
                       zcw, cur, nolwb, ghostVars>>

(* The issuer's loop over the queue has passed the record's group and will *)
(* still see what is put in group t.                                       *)
PassedBy(r, t) ==
    /\ issuer # NoThread /\ pc[issuer] = "scan"
    /\ r.txg < Head(pos[issuer]) /\ Head(pos[issuer]) <= t
    /\ r \in ToSet(itxg[Slot(r.txg)].sync)

(* zil_alloc_commit_waiter and zil_commit_itx_assign *)
CommitItx(th) ==
    /\ pc[th] = "commit_itx"
    /\ ItxAssign(th, [by |-> th, n |-> 0, sync |-> TRUE, txg |-> tx[th]])
    /\ zcw' = [zcw EXCEPT ![th] = NewWaiter]
    /\ due' = [due EXCEPT ![th].seen = {r \in due[th].all :
                                            ~PassedBy(r, tx[th])}]
    /\ Goto(th, "writer")
    /\ UNCHANGED <<poolVars, commit_list, lwbVars, issuer, pos, cur, nolwb,
                   logged, acked, vanished, budget>>

(* zil_commit_writer takes zl_issuer_lock; another writer may have seen to *)
(* the waiter by then.                                                     *)
Writer(th) ==
    /\ pc[th] = "writer" /\ issuer = NoThread
    /\ IF zcw[th].lwb # 0 \/ zcw[th].done
       THEN Goto(th, "wait") /\ UNCHANGED <<issuer, pos>>
       ELSE /\ Goto(th, "scan")
            /\ issuer' = th
            /\ pos' = [pos EXCEPT ![th] = LiveGroups]
    /\ UNCHANGED <<poolVars, queueVars, lwbVars, tx, zcw, cur, nolwb,
                   ghostVars>>

(* zil_get_commit_list, one group at a time *)
GetCommitList(th) ==
    LET t == Head(pos[th])
        s == Slot(t)
    IN  /\ pc[th] = "scan"
        /\ IF itxg[s].txg = t
           THEN /\ commit_list' = commit_list \o itxg[s].sync
                /\ itxg' = [itxg EXCEPT ![s].sync = <<>>]
           ELSE UNCHANGED <<commit_list, itxg>>
        /\ pos' = [pos EXCEPT ![th] = Tail(@)]
        /\ IF Len(pos[th]) = 1 THEN Goto(th, "prune") ELSE UNCHANGED pc
        /\ UNCHANGED <<poolVars, cleaning, lwbVars, issuer, tx, zcw, cur,
                       nolwb, ghostVars>>

-----------------------------------------------------------------------------
(* From the commit list to log blocks, under zl_issuer_lock                *)

(* A waiter is linked to an lwb: zil_commit_waiter_link_lwb.               *)
Linked(l, b, th) == [l EXCEPT ![b].waiters = @ \cup {th}]
LinkWaiter(b, th) == zcw' = [zcw EXCEPT ![th].lwb = b]

(* zil_prune_commit_list: nothing is left to wait for.                     *)
NoneOpened == last_opened = 0       \* a mutant: the state is not looked at

NothingPending == last_opened = 0 \/ lwb[last_opened].state = "FLUSH_DONE"

HeadIsCommit == commit_list # <<>> /\ IsCommit(Head(commit_list))

(* One commit itx at the head of the list.                                 *)
PruneCommit(th) ==
    /\ pc[th] = "prune" /\ HeadIsCommit
    /\ commit_list' = Tail(commit_list)
    /\ LET w == Head(commit_list).by
       IN  IF NothingPending
           THEN Skip({w}) /\ UNCHANGED lwb
           ELSE /\ LinkWaiter(last_opened, w)
                /\ lwb' = Linked(lwb, last_opened, w)
    /\ UNCHANGED <<poolVars, itxg, cleaning, lwb_list, disk, last_opened,
                   issuer, pc, tx, pos, cur, nolwb, ghostVars>>

(* zil_process_commit_list begins, if there is something left.             *)
PruneEnd(th) ==
    /\ pc[th] = "prune"
    /\ ~HeadIsCommit
    /\ IF commit_list = <<>>
       THEN Goto(th, "wait") /\ issuer' = NoThread /\ UNCHANGED cur
       ELSE /\ Goto(th, IF lwb_list = <<>> THEN "create" ELSE "process")
            /\ cur' = IF lwb_list = <<>> THEN 0 ELSE Last(lwb_list)
            /\ UNCHANGED issuer
    /\ UNCHANGED <<poolVars, queueVars, lwbVars, tx, pos, zcw, nolwb,
                   ghostVars>>

(* zil_alloc_lwb of the next block, in group t                             *)
Fresh(t, v) == [NoLwb EXCEPT !.state = "CLOSED", !.buf = TRUE, !.vdev = v,
                             !.max_txg = t]

(* zio_alloc_zil succeeds and leaves the lwbs l and one more, or fails and *)
(* leaves f.                                                               *)
AllocZil(l, f) ==
    \/ \E v \in Vdevs : /\ lwb' = Append(l, Fresh(open, v))
                         /\ disk' = Append(disk, NoBlock)
                         /\ lwb_list' = Append(lwb_list, Len(lwb) + 1)
                         /\ UNCHANGED budget
    \/ /\ budget.fails > 0
       /\ budget' = [budget EXCEPT !.fails = @ - 1]
       /\ lwb' = f
       /\ UNCHANGED <<disk, lwb_list>>

Allocated == Len(lwb') > Len(lwb)

(* zil_create: the first block of a chain, then txg_wait_synced ...        *)
Create(th) ==
    /\ pc[th] = "create" /\ zh_syncing = 0
    /\ AllocZil(lwb, lwb)
    /\ cur' = IF Allocated THEN Len(lwb') ELSE 0
    /\ dirty' = dirty \cup {open}
    /\ pos' = [pos EXCEPT ![th] = <<open>>]
    /\ Goto(th, "create_wait")
    /\ UNCHANGED <<open, synced, spa, zh_log, zh_syncing, freed, queueVars,
                   last_opened, issuer, tx, zcw, nolwb, logged, due, acked,
                   vanished>>

(* ... or the block the header has.                                        *)
CreateKept(th) ==
    /\ pc[th] = "create" /\ zh_syncing # 0
    /\ \E v \in Vdevs : lwb' = [lwb EXCEPT ![zh_syncing] = Fresh(0, v)]
    /\ lwb_list' = <<zh_syncing>>
    /\ cur' = zh_syncing
    /\ Goto(th, "process")
    /\ UNCHANGED <<poolVars, queueVars, disk, last_opened, issuer, tx, pos,
                   zcw, nolwb, ghostVars>>

(* zil_lwb_write_open and zil_lwb_set_zio_dependency: the root zio of the  *)
(* lwb completes after the previous one's, its write zio after the         *)
(* previous write if that is not over.                                     *)
WriteAfter(p) == IF p # 0 /\ lwb[p].state \in {"OPENED", "ISSUED"}
                 THEN p ELSE 0
RootAfter(p) == IF p # 0 /\ lwb[p].state # "FLUSH_DONE" THEN p ELSE 0

Opened(b) ==
    IF lwb[b].state = "OPENED" THEN lwb
    ELSE [lwb EXCEPT ![b].state = "OPENED",
                     ![b].write_after = WriteAfter(last_opened),
                     ![b].root_after = RootAfter(last_opened)]

(* zil_lwb_write_issue: the block holds a transaction of the open group    *)
(* until it is flushed, and names the next block.                          *)
WriteIssue(b) ==
    LET issued == [lwb EXCEPT ![b].state = "ISSUED", ![b].tx = open,
                              ![b].tree = @ \cup {lwb[b].vdev}]
    IN  /\ AllocZil([issued EXCEPT ![b].next = Len(lwb) + 1], issued)
        /\ dirty' = dirty \cup {open}

Unsynced(itx) == itx.txg > LastSynced

(* zil_process_commit_list of a commit itx, or of a record that needs no   *)
(* block or can get none.                                                  *)
ProcessCommit(th) ==
    /\ pc[th] = "process" /\ commit_list # <<>>
    /\ LET itx == Head(commit_list)
       IN  \/ /\ IsCommit(itx) /\ cur # 0
              /\ lwb' = Linked(Opened(cur), cur, itx.by)
              /\ last_opened' = cur
              /\ LinkWaiter(cur, itx.by)
              /\ UNCHANGED nolwb
           \/ /\ IsCommit(itx) /\ cur = 0
              /\ nolwb' = nolwb \cup {itx.by}
              /\ UNCHANGED <<lwb, last_opened, zcw>>
           \/ /\ ~IsCommit(itx) /\ (~Unsynced(itx) \/ cur = 0)
              /\ UNCHANGED <<lwb, last_opened, zcw, nolwb>>
    /\ commit_list' = Tail(commit_list)
    /\ UNCHANGED <<poolVars, itxg, cleaning, lwb_list, disk, issuer, pc, tx,
                   pos, cur, ghostVars>>

Full(b) == Len(lwb[b].recs) >= LwbRecords

(* zil_lwb_commit of a record that does not fit: the block is issued.      *)
ProcessFull(th) ==
    LET itx == Head(commit_list)
    IN  /\ pc[th] = "process" /\ commit_list # <<>>
        /\ ~IsCommit(itx) /\ Unsynced(itx) /\ cur # 0 /\ Full(cur)
        /\ WriteIssue(cur)
        /\ IF Allocated
           THEN cur' = Len(lwb') /\ Goto(th, "next") /\ UNCHANGED commit_list
           ELSE cur' = 0 /\ commit_list' = Tail(commit_list) /\ UNCHANGED pc
        /\ UNCHANGED <<open, synced, spa, zh_log, zh_syncing, freed, itxg,
                       cleaning, last_opened, issuer, tx, pos, zcw, nolwb,
                       logged, due, acked, vanished>>

HasRoom(th) ==
    /\ commit_list # <<>> /\ ~IsCommit(Head(commit_list)) /\ cur # 0
    /\ \/ pc[th] = "next"
       \/ pc[th] = "process" /\ Unsynced(Head(commit_list)) /\ ~Full(cur)

(* zil_lwb_commit of a record that fits.                                   *)
ProcessRecord(th) ==
    /\ HasRoom(th)
    /\ LET itx == Head(commit_list)
       IN  lwb' = [Opened(cur) EXCEPT
                    ![cur].recs = Append(@, itx),
                    ![cur].max_txg = IF itx.txg > @ THEN itx.txg ELSE @]
    /\ last_opened' = cur
    /\ commit_list' = Tail(commit_list)
    /\ Goto(th, "process")
    /\ UNCHANGED <<poolVars, itxg, cleaning, lwb_list, disk, issuer, tx, pos,
                   zcw, cur, nolwb, ghostVars>>

(* zl_get_data fails with EIO: the record's group is waited for instead.   *)
ProcessEIO(th) ==
    /\ HasRoom(th) /\ budget.fails > 0
    /\ budget' = [budget EXCEPT !.fails = @ - 1]
    /\ lwb' = Opened(cur)
    /\ last_opened' = cur
    /\ pos' = [pos EXCEPT ![th] = <<Head(commit_list).txg>>]
    /\ commit_list' = Tail(commit_list)
    /\ Goto(th, "eio")
    /\ UNCHANGED <<poolVars, itxg, cleaning, lwb_list, disk, issuer, tx, zcw,
                   cur, nolwb, logged, due, acked, vanished>>

(* zl_get_data fails otherwise: the file was removed or truncated since,   *)
(* or the block is in a group that was synced meanwhile.  The record is    *)
(* left out and nothing is waited for.  What kind of record it is is not   *)
(* modelled: only a write whose data was not copied can meet this.         *)
ProcessGone(th) ==
    /\ HasRoom(th) /\ budget.fails > 0
    /\ budget' = [budget EXCEPT !.fails = @ - 1]
    /\ vanished' = vanished \cup {Head(commit_list)}
    /\ lwb' = Opened(cur)
    /\ last_opened' = cur
    /\ commit_list' = Tail(commit_list)
    /\ Goto(th, "process")
    /\ UNCHANGED <<poolVars, itxg, cleaning, lwb_list, disk, issuer, tx, pos,
                   zcw, cur, nolwb, logged, due, acked>>

(* The argument 0 of txg_wait_synced                                       *)
SyncAll == <<open + TXG_DEFER_SIZE>>

NeverStall == FALSE         \* a mutant: the writer goes on
MustStall == cur = 0

(* The list is empty.  Without an lwb the writer stalls until everything   *)
(* is synced: zil_commit_writer_stall.                                     *)
ProcessEnd(th) ==
    /\ pc[th] = "process" /\ commit_list = <<>>
    /\ IF MustStall
       THEN /\ Goto(th, "stall")
            /\ pos' = [pos EXCEPT ![th] = SyncAll]
            /\ UNCHANGED issuer
       ELSE /\ Goto(th, "wait")
            /\ issuer' = NoThread
            /\ UNCHANGED pos
    /\ cur' = 0
    /\ UNCHANGED <<poolVars, queueVars, lwbVars, tx, zcw, nolwb, ghostVars>>

-----------------------------------------------------------------------------
(* The zio callbacks of an lwb                                             *)

(* A zio that waits for the write or the root zio of lwb p may complete.   *)
WriteOver(p) == p # 0 => (lwb[p].cb = "over" \/ lwb[p].state = "FREE")
RootOver(p) == p # 0 => lwb[p].state \in {"FLUSH_DONE", "FREE"}

(* A block as its lwb describes it.                                        *)
Written(b) == [recs |-> lwb[b].recs, next |-> lwb[b].next,
               vdev |-> lwb[b].vdev, at |-> "cache"]

(* The write completes; zil_lwb_write_done up to its release of zl_lock.   *)
WriteDone(b) ==
    /\ lwb[b].state = "ISSUED" /\ WriteOver(lwb[b].write_after)
    /\ \E error \in BOOLEAN :
        /\ lwb' = [lwb EXCEPT ![b].state = "WRITE_DONE", ![b].cb = "flush",
                              ![b].error = error]
        /\ IF error
           THEN /\ budget.fails > 0
                /\ budget' = [budget EXCEPT !.fails = @ - 1]
                /\ disk' = [disk EXCEPT ![b] = [Written(b) EXCEPT
                                                    !.at = "failed"]]
           ELSE disk' = [disk EXCEPT ![b] = Written(b)] /\ UNCHANGED budget
    /\ UNCHANGED <<poolVars, queueVars, lwb_list, last_opened, threadVars,
                   logged, due, acked, vanished>>

DefersAny(b) == lwb[b].next # 0    \* a mutant: its waiters are not looked at

(* The flush of this lwb is left to the next one: zil_lwb_flush_defer.     *)
Defers(b) == lwb[b].waiters = {} /\ lwb[b].next # 0

(* A flush of devices vdevs makes stable what they have in their caches,   *)
(* whichever lwb wrote it.                                                 *)
Flushed(vdevs) ==
    [c \in Blocks |-> IF disk[c].at \in Cached /\ disk[c].vdev \in vdevs
                      THEN [disk[c] EXCEPT !.at = "stable"] ELSE disk[c]]

(* No flush will come for what lwb b was to flush on devices vdevs, of its *)
(* own block and of earlier ones.                                          *)
Unflushed(d, b, vdevs) ==
    [c \in Blocks |-> IF c <= b /\ d[c].at = "cache" /\ d[c].vdev \in vdevs
                      THEN [d[c] EXCEPT !.at = "unflushed"] ELSE d[c]]

(* zil_lwb_flush_defer to an lwb whose own flush is over, against the      *)
(* assertion there: nobody looks at that tree any more.                    *)
DefersLate(b) == lwb[b + 1].cb = "over"

(* The rest of zil_lwb_write_done; the flushes complete, or fail without   *)
(* anybody being told, before the root zio does.                           *)
FlushVdevs(b) ==
    LET tree == lwb[b].tree
        over == [lwb EXCEPT ![b].cb = "over", ![b].tree = {}]
    IN  /\ lwb[b].cb = "flush"
        /\ \/ /\ lwb[b].error
              /\ lwb' = over /\ disk' = Unflushed(disk, b, tree)
              /\ UNCHANGED budget
           \/ /\ ~lwb[b].error /\ Defers(b)
              /\ lwb' = [over EXCEPT ![b + 1].tree = @ \cup tree]
              /\ disk' = IF DefersLate(b) THEN Unflushed(disk, b, tree)
                                          ELSE disk
              /\ UNCHANGED budget
           \/ /\ ~lwb[b].error /\ ~Defers(b)
              /\ lwb' = over
              /\ \E ok \in SUBSET tree :
                    /\ disk' = Unflushed(Flushed(ok), b, tree)
                    /\ IF ok = tree
                       THEN UNCHANGED budget
                       ELSE /\ budget.fails > 0
                            /\ budget' = [budget EXCEPT !.fails = @ - 1]
        /\ UNCHANGED <<poolVars, queueVars, lwb_list, last_opened, threadVars,
                       logged, due, acked, vanished>>

(* zio_notify_parent keeps the error of a write zio, which is created with *)
(* ZIO_FLAG_DONT_PROPAGATE, from the root zio.                             *)
ZIO_FLAG_DONT_PROPAGATE == TRUE
RootError(b) == lwb[b].error /\ ~ZIO_FLAG_DONT_PROPAGATE

(* zil_lwb_flush_vdevs_done *)
FlushVdevsDone(b) ==
    /\ lwb[b].state = "WRITE_DONE" /\ lwb[b].cb = "over"
    /\ RootOver(lwb[b].root_after)
    /\ lwb' = [lwb EXCEPT ![b].state = "FLUSH_DONE", ![b].buf = FALSE,
                          ![b].tx = 0, ![b].waiters = {}]
    /\ zcw' = [th \in Threads |->
                IF th \in lwb[b].waiters
                THEN [lwb |-> 0, done |-> TRUE, error |-> RootError(b)]
                ELSE zcw[th]]
    /\ UNCHANGED <<poolVars, queueVars, lwb_list, disk, last_opened, issuer,
                   pc, tx, pos, cur, nolwb, ghostVars>>

-----------------------------------------------------------------------------
(* The rest of zil_commit: waiting                                         *)

(* zil_commit_waiter finds an open lwb and times out; it drops zcw_lock to *)
(* take zl_issuer_lock.                                                    *)
WaiterTimeout(th) ==
    /\ pc[th] = "wait" /\ ~zcw[th].done /\ zcw[th].lwb # 0
    /\ lwb[zcw[th].lwb].state = "OPENED"
    /\ Goto(th, "timeout")
    /\ UNCHANGED <<poolVars, queueVars, lwbVars, issuer, tx, pos, zcw, cur,
                   nolwb, ghostVars>>

(* What the second look in zil_commit_waiter_timeout finds.                *)
StillOpen(th) == /\ ~zcw[th].done
                 /\ lwb[zcw[th].lwb].state = "OPENED"

TimeoutIssue(th) ==
    /\ pc[th] = "timeout" /\ issuer = NoThread /\ StillOpen(th)
    /\ WriteIssue(zcw[th].lwb)
    /\ IF Allocated
       THEN Goto(th, "wait") /\ UNCHANGED <<issuer, pos>>
       ELSE /\ Goto(th, "timeout_stall")
            /\ issuer' = th
            /\ pos' = [pos EXCEPT ![th] = SyncAll]
    /\ UNCHANGED <<open, synced, spa, zh_log, zh_syncing, freed, queueVars,
                   last_opened, tx, zcw, cur, nolwb, logged, due, acked,
                   vanished>>

TimeoutLate(th) ==
    /\ pc[th] = "timeout" /\ issuer = NoThread /\ ~StillOpen(th)
    /\ Goto(th, "wait")
    /\ UNCHANGED <<poolVars, queueVars, lwbVars, issuer, tx, pos, zcw, cur,
                   nolwb, ghostVars>>

Ack(th) ==
    /\ acked' = [all |-> acked.all \cup due[th].all,
                 seen |-> acked.seen \cup due[th].seen]
    /\ due' = [due EXCEPT ![th] = NoRecords]

(* zil_commit_impl returns, or falls back on spa_sync after an error.      *)
Return(th) ==
    /\ pc[th] = "wait" /\ zcw[th].done
    /\ IF zcw[th].error
       THEN /\ Goto(th, "error")
            /\ pos' = [pos EXCEPT ![th] = SyncAll]
            /\ UNCHANGED <<due, acked>>
       ELSE Goto(th, "idle") /\ Ack(th) /\ UNCHANGED pos
    /\ UNCHANGED <<poolVars, queueVars, lwbVars, issuer, tx, zcw, cur, nolwb,
                   logged, vanished, budget>>

(* txg_wait_synced returns to where it was called.                         *)
Synced(th) ==
    /\ Waiting(th) /\ LastSynced >= Head(pos[th])
    /\ pos' = [pos EXCEPT ![th] = <<>>]
    /\ Goto(th, CASE pc[th] \in {"create_wait", "eio"} -> "process"
                  [] pc[th] \in {"stall", "timeout_stall"} -> "wait"
                  [] OTHER -> "idle")
    /\ IF pc[th] \in {"stall", "timeout_stall"}
       THEN issuer' = NoThread /\ Skip(nolwb) /\ nolwb' = {}
       ELSE UNCHANGED <<issuer, zcw, nolwb>>
    /\ IF pc[th] = "error" THEN Ack(th) ELSE UNCHANGED <<due, acked>>
    /\ UNCHANGED <<poolVars, queueVars, lwbVars, tx, cur, logged, vanished,
                   budget>>

-----------------------------------------------------------------------------
ThreadStep(th) ==
    \/ LogItx(th) \/ AsyncToSync(th) \/ TxAssign(th, "commit", "commit_itx")
    \/ CommitItx(th)
    \/ Writer(th) \/ GetCommitList(th) \/ PruneCommit(th) \/ PruneEnd(th)
    \/ Create(th) \/ CreateKept(th) \/ ProcessCommit(th) \/ ProcessFull(th)
    \/ ProcessRecord(th) \/ ProcessEIO(th) \/ ProcessGone(th)
    \/ ProcessEnd(th)
    \/ WaiterTimeout(th) \/ TimeoutIssue(th) \/ TimeoutLate(th)
    \/ Return(th) \/ Synced(th)

ZioStep == \E b \in Blocks : WriteDone(b) \/ FlushVdevs(b) \/ FlushVdevsDone(b)

SpaStep ==
    \/ OpenNext \/ ZilSync \/ SyncDone \/ ZilClean \/ UbSync
    \/ ItxgClean

Next ==
    \/ \E th \in Threads : Write(th) \/ Commit(th) \/ ThreadStep(th)
    \/ ZioStep
    \/ SpaStep

Spec == Init /\ [][Next]_vars

(* Threads run, zios complete, and the pool's threads go on.  Whether a    *)
(* thread writes or commits is its own choice.                             *)
FairSpec ==
    /\ Spec
    /\ \A th \in Threads : WF_vars(ThreadStep(th))
    /\ WF_vars(ZioStep) /\ WF_vars(SpaStep)

-----------------------------------------------------------------------------
(* Nothing is left in a group that is over.  A transaction, of a thread or *)
(* of a log block, holds a group that is not synced, because dmu_tx_commit *)
(* of a block waits for its flush; and zil_clean has emptied a slot of the *)
(* queue before zil_itx_assign needs it for a later group, so that no      *)
(* waiter is left there.                                                   *)
Live(t) == t = 0 \/ t \in (LastSynced + 1) .. open

GroupsLive ==
    /\ open <= LastSynced + TXG_CONCURRENT_STATES
    /\ \A th \in Threads : Live(tx[th])
    /\ \A b \in Blocks : Live(lwb[b].tx)
    /\ \A i \in DOMAIN itxg : Live(itxg[i].txg)

(* zil_commit: "it will block until all itxs that were in the queue when   *)
(* it was called, are committed to stable storage": whenever the system    *)
(* stops after it has returned, they are in the pool or replay finds them, *)
(* if what they wrote was not gone before they were logged.                *)
CommitDurable == \A r \in acked.all \ vanished : Recoverable(r)

(* zil_lwb_flush_vdevs_done is "called as soon as the contents of an lwb   *)
(* are considered "stable" on disk, and will survive any sudden loss of    *)
(* power" and signals the waiters: what a zil_commit has waited for with   *)
(* an lwb is in the pool or replay finds it, on whatever devices the       *)
(* blocks up to that lwb are.                                              *)
StableWhenDone == \A r \in acked.seen \ vanished : Recoverable(r)

(* A block cuts off from the header the records in it and after it if its  *)
(* write failed, if it was written without the address of a next one, or   *)
(* if it is left in the cache of its device: the flush failed, or was left *)
(* to a block that failed or that had already done its own flush.          *)
Gap(c) == \/ disk[c].at \in {"failed", "unflushed"}
          \/ disk[c].at \in {"cache", "stable"} /\ disk[c].next = 0

CutOff(r) ==
    /\ zh_log # 0
    /\ \E b \in zh_log .. Len(disk) : /\ InBlock(r, b)
                                      /\ \E c \in zh_log .. b : Gap(c)

(* The promise of zil_commit as far as it is kept, on any devices: without *)
(* the records whose group the issuer's loop in zil_get_commit_list had    *)
(* passed when the commit itx was queued, those cut off, by an error or    *)
(* by a flush deferred too late, and those whose data was gone.            *)
CommitDurableLinked ==
    \A r \in acked.seen \ vanished : Recoverable(r) \/ CutOff(r)

(* "the order of sync itxs is preserved": replay finds the synchronous     *)
(* records of one group in the order they were logged, and none is missing *)
(* before one it finds but those zl_get_data found gone.                   *)
Precedes(q, b, r) ==
    \/ \E c \in Chain : c < b /\ InBlock(q, c)
    \/ \E i, j \in DOMAIN disk[b].recs :
            i < j /\ disk[b].recs[i] = q /\ disk[b].recs[j] = r

GroupInOrder ==
    \A b \in Chain : \A i, j \in DOMAIN logged :
        /\ i < j /\ InBlock(logged[j], b) /\ logged[j].txg > synced
        /\ logged[i].txg = logged[j].txg
        /\ logged[i].sync /\ logged[j].sync /\ logged[i] \notin vanished
        => Precedes(logged[i], b, logged[j])

(* The assertions on the list of lwbs: when everything is synced           *)
(* zil_commit_writer_stall finds every lwb freed, whoever stalls, and when *)
(* nobody has the issuer lock the last lwb has not been issued, so that    *)
(* the next zil_process_commit_list can go on with it.                     *)
LwbListAsserted ==
    /\ \A th \in Threads :
        /\ pc[th] \in {"stall", "timeout_stall"}
        /\ LastSynced >= Head(pos[th])
        => lwb_list = <<>> /\ zh_log = 0
    /\ issuer = NoThread /\ lwb_list # <<>> =>
        lwb[Last(lwb_list)].state \in {"CLOSED", "OPENED"}

(* A waiter that is not done points to an lwb that is not freed and will   *)
(* mark it done, also where zil_commit_waiter_timeout drops its lock.      *)
WaiterLwbLive ==
    \A th \in Threads : zcw[th].lwb # 0 =>
        /\ lwb[zcw[th].lwb].state \in {"OPENED", "ISSUED", "WRITE_DONE"}
        /\ th \in lwb[zcw[th].lwb].waiters

(* Every zil_commit returns: an open lwb is issued by a waiter's timeout,  *)
(* a waiter whose group is synced first is marked done by zil_itxg_clean,  *)
(* and a stalled writer is let go.                                         *)
CommitReturns ==
    \A th \in Threads : pc[th] \in {"async", "commit"} ~> pc[th] = "idle"
=============================================================================
