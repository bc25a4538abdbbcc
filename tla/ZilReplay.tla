----------------------------- MODULE ZilReplay -----------------------------
(***************************************************************************)
(* Crashes of the system Zil models, and the recovery of its log:          *)
(* zil_claim when the pool is loaded, zil_replay and zil_destroy when the  *)
(* dataset is mounted, zil_sync of the log header.  A crash may come at    *)
(* any point, also during the recovery from an earlier one.                *)
(*                                                                         *)
(* The log is the sequence of the records zil_parse finds, and a record's  *)
(* lrc_seq its place in it.  What a dataset is mounted for, and the new    *)
(* log it then begins, is not modelled.                                    *)
(***************************************************************************)
EXTENDS Zil

CONSTANTS
    MaxCrashes,     \* bound on the crashes
    MaxFaults       \* bound on the records that cannot be replayed, at once
                    \* or at all, or have lost their object, the claims that
                    \* cannot read the whole log and the imports without a
                    \* log device

VARIABLES
    phase,          \* where the system is: running, or in its recovery
    hdr,            \* the rest of zil_header_t, as spa_sync is writing it
    hdr_disk,       \* the same on disk
    at,             \* zl_replaying_seq
    replayed_seq,   \* zl_replayed_seq, by txg & TXG_MASK
    destroy,        \* zl_destroy_txg and zl_keep_first
    wait,           \* the group txg_wait_synced waits for, 0 if none
    fs,             \* the records replayed: lrc_seq, and the group of each
    base,           \* the last synced group when the system crashed first
    promised,       \* the records of CommitDurableLinked at that point
    left,           \* crashes and the other faults left
    lost            \* the faults in the recovery after which records of
                    \* the log may be missing

recoveryVars == <<phase, hdr, hdr_disk, at, replayed_seq, destroy, wait, fs,
                  base, promised, left, lost>>
allVars == <<vars, recoveryVars>>

NoHeader == [claim_txg |-> 0, claim_lr_seq |-> 0, replay_seq |-> 0,
             needed |-> FALSE]
NoDestroy == [txg |-> 0, keep_first |-> FALSE]
NoneReplayed == [i \in 0 .. TXG_SIZE - 1 |-> 0]

ReplayInit ==
    /\ Init
    /\ phase = "running"
    /\ hdr = NoHeader /\ hdr_disk = NoHeader
    /\ at = 0 /\ replayed_seq = NoneReplayed /\ destroy = NoDestroy
    /\ wait = 0 /\ fs = <<>> /\ base = 0 /\ promised = {}
    /\ left = [crashes |-> MaxCrashes, faults |-> MaxFaults]
    /\ lost = {}

Up == phase = "running" /\ UNCHANGED recoveryVars
Running == Up /\ Next

(* zil_parse from the block of the header in memory on: the records of the *)
(* first n blocks, or of all that can be read.                             *)
ReadBlocks == Cardinality(ChainFrom(zh_syncing))

LogOf(n) == FlattenSeq([i \in 1 .. n |-> disk[zh_syncing + i - 1].recs])
Log == LogOf(ReadBlocks)

-----------------------------------------------------------------------------
(* A write that was not flushed, or not over, may or may not be on disk.   *)
Unsure == {b \in Blocks : \/ disk[b].at \in Cached
                          \/ lwb[b].state = "ISSUED"}

AfterCrash(kept) ==
    [b \in Blocks |->
        IF b \in kept
        THEN [(IF disk[b].at \in Cached THEN disk[b] ELSE Written(b))
                EXCEPT !.at = "stable"]
        ELSE IF Stable(b) THEN disk[b] ELSE NoBlock]

(* The records replayed in a group that is on disk.  A group begins when   *)
(* the one before is closed, so they are the first ones.                   *)
OnDisk == Max({0} \cup {i \in DOMAIN fs : fs[i].txg <= synced})

(* Memory is lost, and the groups after the last synced one with it.       *)
Crash ==
    /\ left.crashes > 0
    /\ left' = [left EXCEPT !.crashes = @ - 1]
    /\ phase' = "down"
    /\ \E kept \in SUBSET Unsure : disk' = AfterCrash(kept)
    /\ open' = synced + 1 /\ spa' = "idle"
    /\ zh_syncing' = zh_log /\ freed' = {} /\ dirty' = {}
    /\ itxg' = [i \in DOMAIN itxg |-> EmptyItxg]
    /\ cleaning' = {} /\ commit_list' = <<>>
    /\ lwb_list' = <<>> /\ lwb' = [b \in Blocks |-> NoLwb]
    /\ last_opened' = 0 /\ issuer' = NoThread
    /\ pc' = [th \in Threads |-> "idle"]
    /\ tx' = [th \in Threads |-> 0]
    /\ pos' = [th \in Threads |-> <<>>]
    /\ zcw' = [th \in Threads |-> NewWaiter]
    /\ cur' = 0 /\ nolwb' = {}
    /\ due' = [th \in Threads |-> NoRecords]
    /\ budget' = [recs |-> [th \in Threads |-> 0],
                  commits |-> [th \in Threads |-> 0], fails |-> 0]
    /\ hdr' = hdr_disk
    /\ at' = 0 /\ replayed_seq' = NoneReplayed /\ destroy' = NoDestroy
    /\ wait' = 0
    /\ fs' = SubSeq(fs, 1, OnDisk)
    /\ IF phase = "running"
       THEN /\ base' = synced
            /\ promised' = {r \in acked.seen \ vanished : ~CutOff(r)}
       ELSE UNCHANGED <<base, promised>>
    /\ logged' = <<>> /\ acked' = NoRecords /\ vanished' = {}
    /\ UNCHANGED <<synced, zh_log, hdr_disk, lost>>

-----------------------------------------------------------------------------
(* The pool during the recovery                                            *)

(* A group is closed when somebody waits for it or it has dirty data.      *)
OpenNextGroup ==
    /\ phase \notin {"running", "down"}
    /\ wait >= open \/ open \in dirty
    /\ open - LastSynced < IF spa = "idle" THEN 2 ELSE 3
    /\ open' = open + 1
    /\ UNCHANGED <<synced, spa, zh_log, zh_syncing, freed, dirty, queueVars,
                   lwbVars, threadVars, ghostVars, recoveryVars>>

(* zil_sync in pass 1 of a group: the header gets the sequence number of   *)
(* the last record replayed in the group, or is cleared.  What the blocks  *)
(* of a destroyed log hold is not found again: they are freed, or the      *)
(* first is kept for a chain with a new GUID.                              *)
SeqBehind(t) ==             \* a mutant: the slot of the group before
    IF replayed_seq[Slot(t - 1)] # 0
    THEN [hdr EXCEPT !.replay_seq = replayed_seq[Slot(t - 1)]]
    ELSE hdr

ReplayedSeq(t) ==
    IF replayed_seq[Slot(t)] # 0
    THEN [hdr EXCEPT !.replay_seq = replayed_seq[Slot(t)]]
    ELSE hdr

ClearedHeader == NoHeader

SyncHeader ==
    LET t == synced + 1
        destroyed == destroy.txg = t
    IN  /\ phase \notin {"running", "down"}
        /\ spa = "idle" /\ t < open
        /\ spa' = "sync"
        /\ dirty' = dirty \ {t}
        /\ IF t \notin dirty
           THEN UNCHANGED <<hdr, replayed_seq, zh_syncing, freed>>
           ELSE IF destroyed
           THEN /\ hdr' = ClearedHeader
                /\ replayed_seq' = NoneReplayed
                /\ zh_syncing' = IF destroy.keep_first THEN zh_syncing ELSE 0
                /\ freed' = ChainFrom(zh_syncing)
           ELSE /\ hdr' = ReplayedSeq(t)
                /\ replayed_seq' = [replayed_seq EXCEPT ![Slot(t)] = 0]
                /\ UNCHANGED <<zh_syncing, freed>>
        /\ UNCHANGED <<open, synced, zh_log, queueVars, lwbVars, threadVars,
                       ghostVars, phase, hdr_disk, at, destroy, wait, fs,
                       base, promised, left, lost>>

(* The uberblock is written.                                               *)
SyncHeaderDone ==
    /\ phase \notin {"running", "down"}
    /\ SyncDone
    /\ hdr_disk' = hdr
    /\ UNCHANGED <<phase, hdr, at, replayed_seq, destroy, wait, fs, base,
                   promised, left, lost>>

SyncNextGroup ==
    /\ phase \notin {"running", "down"}
    /\ ZilClean \/ UbSync
    /\ UNCHANGED recoveryVars

(* txg_wait_synced *)
Wait(t, next) == wait' = t /\ phase' = next
WaitedPast == LastSynced > wait       \* a mutant: one group too many
WaitOver == LastSynced >= wait

-----------------------------------------------------------------------------
(* spa_load waits for the claims to sync, up to spa_claim_max_txg: the     *)
(* first group or a later one, in which a claimed block was allocated.     *)
LoadWait ==
    \E t \in synced + 1 .. synced + TXG_CONCURRENT_STATES :
        /\ zh_syncing = 0 => t = synced + 1
        /\ Wait(t, "load_wait")

(* zil_claim, in the first group of the import: if the header is not       *)
(* claimed yet the blocks that can be read now are, usually all, and no    *)
(* other will be looked at.                                                *)
Claim ==
    /\ phase = "down" /\ LoadWait
    /\ IF hdr.claim_txg = 0 /\ zh_syncing # 0
       THEN \E n \in 0 .. ReadBlocks :
            /\ n < ReadBlocks => left.faults > 0
            /\ hdr' = [claim_txg |-> synced + 1,
                       claim_lr_seq |-> Len(LogOf(n)),
                       replay_seq |-> 0, needed |-> n > 0]
            /\ dirty' = dirty \cup {open}
            /\ IF n < ReadBlocks
               THEN /\ left' = [left EXCEPT !.faults = @ - 1]
                    /\ lost' = lost \cup {"partial"}
               ELSE UNCHANGED <<left, lost>>
       ELSE UNCHANGED <<hdr, dirty, left, lost>>
    /\ UNCHANGED <<open, synced, spa, zh_log, zh_syncing, freed, queueVars,
                   lwbVars, threadVars, ghostVars, hdr_disk, at, replayed_seq,
                   destroy, fs, base, promised>>

(* zil_claim of a pool that is imported without a log device, with         *)
(* SPA_LOG_CLEAR: the log is dropped.                                      *)
ClaimClear ==
    /\ phase = "down" /\ left.faults > 0
    /\ left' = [left EXCEPT !.faults = @ - 1]
    /\ lost' = lost \cup {"cleared"}
    /\ LoadWait
    /\ zh_syncing' = 0
    /\ dirty' = dirty \cup {open}
    /\ UNCHANGED <<open, synced, spa, zh_log, freed, queueVars, lwbVars,
                   threadVars, ghostVars, hdr, hdr_disk, at, replayed_seq,
                   destroy, fs, base, promised>>

(* zil_destroy, in a transaction of the open group.  An empty log, of      *)
(* which the first block is kept, is not waited for.                       *)
Destroy(keep_first) ==
    IF zh_syncing = 0
    THEN phase' = "mounted" /\ UNCHANGED <<destroy, dirty, wait>>
    ELSE /\ destroy' = [txg |-> open, keep_first |-> keep_first]
         /\ dirty' = dirty \cup {open}
         /\ IF keep_first THEN phase' = "mounted" /\ UNCHANGED wait
                          ELSE Wait(open, "destroy_wait")

(* zil_replay begins: the removes in progress are waited for.              *)
Mount ==
    /\ phase = "loaded"
    /\ IF hdr.needed
       THEN /\ Wait(open + TXG_DEFER_SIZE, "replay_wait")
            /\ UNCHANGED <<destroy, dirty>>
       ELSE Destroy(TRUE)
    /\ UNCHANGED <<open, synced, spa, zh_log, zh_syncing, freed, queueVars,
                   lwbVars, threadVars, ghostVars, hdr, hdr_disk, at,
                   replayed_seq, fs, base, promised, left, lost>>

(* What zil_replay_log_record does not replay: a record that was replayed  *)
(* before a crash, or that was in the pool when the log was claimed.       *)
ReplayedOrNext(n) == n <= hdr.replay_seq + 1    \* a mutant: off by one
AlreadyReplayed(n) == n <= hdr.replay_seq
CommittedBefore(r) == r.txg < hdr.claim_txg - 1 \* a mutant: off by one
AlreadyCommitted(r) == r.txg < hdr.claim_txg

(* zil_parse stops at the end of what was claimed.                         *)
AllParsed == at >= hdr.claim_lr_seq \/ at >= Len(Log)

(* A replay function does its change and zil_replaying notes the sequence  *)
(* number, in one transaction.                                             *)
Replayed(n) ==
    /\ fs' = Append(fs, [seq |-> n, rec |-> Log[n], txg |-> open])
    /\ replayed_seq' = [replayed_seq EXCEPT ![Slot(open)] = n]
    /\ dirty' = dirty \cup {open}
    /\ at' = n

ReplaySkip ==
    /\ phase = "replay" /\ ~AllParsed
    /\ AlreadyReplayed(at + 1) \/ AlreadyCommitted(Log[at + 1])
    /\ at' = at + 1
    /\ UNCHANGED <<vars, phase, hdr, hdr_disk, replayed_seq, destroy, wait, fs,
                   base, promised, left, lost>>

MustReplay ==
    /\ ~AllParsed
    /\ ~AlreadyReplayed(at + 1) /\ ~AlreadyCommitted(Log[at + 1])

Replay ==
    /\ phase \in {"replay", "retry"} /\ MustReplay
    /\ Replayed(at + 1)
    /\ phase' = "replay"
    /\ UNCHANGED <<open, synced, spa, zh_log, zh_syncing, freed, queueVars,
                   lwbVars, threadVars, ghostVars, hdr, hdr_disk, destroy,
                   wait, base, promised, left, lost>>

(* The replay function fails: it is tried again when everything is synced, *)
(* and the rest of the log is given up if it fails then.                   *)
ReplayError ==
    /\ phase = "replay" /\ MustReplay /\ left.faults > 0
    /\ left' = [left EXCEPT !.faults = @ - 1]
    /\ Wait(open + TXG_DEFER_SIZE, "retry_wait")
    /\ UNCHANGED <<vars, hdr, hdr_disk, at, replayed_seq, destroy, fs, base,
                   promised, lost>>

(* A record that is not of a known type, or whose data cannot be read: the *)
(* rest of the log is given up at once.                                    *)
ReplayFails ==
    /\ phase = "replay" /\ MustReplay /\ left.faults > 0
    /\ left' = [left EXCEPT !.faults = @ - 1]
    /\ phase' = "end"
    /\ lost' = lost \cup {"error"}
    /\ UNCHANGED <<vars, hdr, hdr_disk, at, replayed_seq, destroy, wait, fs,
                   base, promised>>

(* A record that "can be logged out of order" (TX_OOO) whose object is not *)
(* there is passed over.                                                   *)
ReplayNoObject ==
    /\ phase = "replay" /\ MustReplay /\ left.faults > 0
    /\ left' = [left EXCEPT !.faults = @ - 1]
    /\ at' = at + 1
    /\ lost' = lost \cup {"no object"}
    /\ UNCHANGED <<vars, phase, hdr, hdr_disk, replayed_seq, destroy, wait, fs,
                   base, promised>>

RetryError ==
    /\ phase = "retry" /\ MustReplay
    /\ phase' = "end"
    /\ lost' = lost \cup {"error"}
    /\ UNCHANGED <<vars, hdr, hdr_disk, at, replayed_seq, destroy, wait, fs,
                   base, promised, left>>

ReplayEnd ==
    /\ phase = "end" \/ (phase = "replay" /\ AllParsed)
    /\ Destroy(FALSE)
    /\ UNCHANGED <<open, synced, spa, zh_log, zh_syncing, freed, queueVars,
                   lwbVars, threadVars, ghostVars, hdr, hdr_disk, at,
                   replayed_seq, fs, base, promised, left, lost>>

WaitSynced ==
    /\ phase \in {"load_wait", "replay_wait", "retry_wait", "destroy_wait"}
    /\ WaitOver
    /\ phase' = CASE phase = "load_wait" -> "loaded"
                  [] phase = "replay_wait" -> "replay"
                  [] phase = "retry_wait" -> "retry"
                  [] OTHER -> "mounted"
    /\ wait' = 0
    /\ UNCHANGED <<vars, hdr, hdr_disk, at, replayed_seq, destroy, fs, base,
                   promised, left, lost>>

-----------------------------------------------------------------------------
Recovery ==
    \/ Claim \/ ClaimClear \/ Mount
    \/ ReplaySkip \/ Replay \/ ReplayError \/ ReplayFails \/ ReplayNoObject
    \/ RetryError \/ ReplayEnd \/ WaitSynced
    \/ OpenNextGroup \/ SyncHeader \/ SyncHeaderDone \/ SyncNextGroup

ReplayNext == Running \/ Crash \/ Recovery

(* The recovery goes on, and so does everything in the running system.     *)
ReplaySpec ==
    /\ ReplayInit /\ [][ReplayNext]_allVars
    /\ WF_allVars(Recovery)
    /\ \A th \in Threads : WF_allVars(Up /\ ThreadStep(th))
    /\ WF_allVars(Up /\ ZioStep) /\ WF_allVars(Up /\ SpaStep)

-----------------------------------------------------------------------------
(* zil_commit's promise over a crash: the records CommitDurableLinked says *)
(* the log or the pool had, of those a zil_commit had returned for, are in *)
(* the dataset when it is mounted again, after any further crashes.  Not   *)
(* so if the log was claimed without a device, claimed in part, given up   *)
(* at a record that could not be replayed, or had a record without object. *)
InPool(r) == r.txg <= base \/ \E i \in DOMAIN fs : fs[i].rec = r

CommitsRestored ==
    phase = "mounted" /\ lost = {} => \A r \in promised : InPool(r)

(* zil_replay_log_record: whenever a crash comes, no record is replayed    *)
(* twice or on top of its own transaction, they are replayed in the order  *)
(* of the log, and none "beyond the last block we successfully claimed",   *)
(* also if the rest can be read in a later import.                         *)
ReplayedOnce ==
    /\ \A i \in DOMAIN fs : fs[i].rec.txg > base
    /\ \A i, j \in DOMAIN fs : i < j => fs[i].seq < fs[j].seq
    /\ hdr_disk.claim_txg # 0 =>
        \A i \in DOMAIN fs : fs[i].seq <= hdr_disk.claim_lr_seq

(* "We must now do two things atomically": the header on disk has the      *)
(* sequence number of the last record whose change is on disk.  When       *)
(* zil_create has waited for zl_destroy_txg it asserts that the header of  *)
(* a mounted dataset is not claimed any more, as it is unless the log was  *)
(* dropped.                                                                *)
HeaderMatches ==
    /\ hdr_disk.claim_txg # 0 =>
        hdr_disk.replay_seq = Max({0} \cup {fs[i].seq : i \in
                                {j \in DOMAIN fs : fs[j].txg <= synced}})
    /\ /\ phase = "mounted" /\ LastSynced >= destroy.txg
       /\ "cleared" \notin lost
       => hdr.claim_txg = 0 /\ hdr.replay_seq = 0

(* The dataset is mounted in the end.                                      *)
Recovers == phase = "down" ~> phase = "mounted"
=============================================================================
