----------------------------- MODULE RangeLock -----------------------------
(***************************************************************************)
(* The file range locks of ZFS (src/kernel/fs/zfs/zfs_rlock.c) with the    *)
(* callback that grows the locked range (zfs_rangelock_cb) and the callers *)
(* that change the size and the block size of a file: zfs_write, zfs_trunc *)
(* and zfs_read.                                                           *)
(*                                                                         *)
(* A node is a locked_range_t that is in the AVL tree: one with an owner   *)
(* is the caller's own handle, one without is a proxy.  Its condition      *)
(* variables are the sets of threads that sleep on them.  A handle has     *)
(* lr_count 1 exactly when its node is in the tree, so the count is not    *)
(* kept twice.  One action is one critical section of rl_lock; what        *)
(* rangelock_exit and rangelock_reduce do after the unlock is a step of    *)
(* its own.                                                                *)
(***************************************************************************)
EXTENDS Naturals, FiniteSets

CONSTANTS
    Threads,
    Writers,        \* the threads that also write
    UINT64_MAX,
    Reqs,           \* the calls: [op |-> ..., off |-> ..., len |-> ...]
    BLKSZ0,         \* block size of the file at first
    z_max_blksz,
    MAXOFFSET_T     \* the limit zfs_write puts on the size of a file

NULL == "NULL"

(* Offsets are signed, so that a file ends below half of UINT64_MAX.       *)
(* Empty requests return before they lock anything.                        *)
ASSUME RangeAssumption ==
    /\ IsFiniteSet(Threads) /\ NULL \notin Threads
    /\ UINT64_MAX \in Nat /\ MAXOFFSET_T \in Nat \ {0}
    /\ 2 * MAXOFFSET_T <= UINT64_MAX
    /\ BLKSZ0 \in Nat \ {0} /\ z_max_blksz \in Nat \ {0}
    /\ Reqs \subseteq [op : {"read", "write", "append", "trunc"},
                       off : 0 .. UINT64_MAX - 1, len : 1 .. UINT64_MAX]
    /\ \A q \in Reqs : q.op \in {"write", "append"} =>
            q.off <= MAXOFFSET_T /\ q.len <= MAXOFFSET_T

VARIABLES
    rl_tree,    \* set of nodes
    st,         \* thread -> where it is in its call
    req,        \* thread -> its request
    lr,         \* thread -> lr_offset and lr_length of its handle
    asleep,     \* threads in cv_wait
    pend,       \* thread -> the nodes it took out and still has to broadcast
    z_size, z_blksz

rlVars == <<rl_tree, st, req, lr, asleep, pend, z_size, z_blksz>>

NoRange == [off |-> 0, len |-> 0]
NoReq == [op |-> "none", off |-> 0, len |-> 0]

RlInit ==
    /\ rl_tree = {}
    /\ st = [t \in Threads |-> "idle"]
    /\ req = [t \in Threads |-> NoReq]
    /\ lr = [t \in Threads |-> NoRange]
    /\ asleep = {}
    /\ pend = [t \in Threads |-> {}]
    /\ z_size = 0
    /\ z_blksz = BLKSZ0

-----------------------------------------------------------------------------
End(r) == r.off + r.len
Overlaps(r, s) == r.off < End(s) /\ s.off < End(r)
MaxOf(a, b) == IF a > b THEN a ELSE b
MinOf(a, b) == IF a < b THEN a ELSE b
ISP2(x) == \E k \in 0 .. x : x = 2 ^ k

Node(off, len, type, count, owner) ==
    [off |-> off, len |-> len, type |-> type, count |-> count,
     owner |-> owner, lr_write_wanted |-> FALSE, lr_read_wanted |-> FALSE,
     lr_write_cv |-> {}, lr_read_cv |-> {}]

(* rangelock_new_proxy, and the rear part of rangelock_split.              *)
Proxy(off, len, count) == Node(off, len, "reader", count, NULL)

(* rangelock_proxify *)
Proxify(n) == IF n.owner = NULL THEN n ELSE Proxy(n.off, n.len, 1)

(* Mutant: the rear part counts one reader only.                           *)
SplitOne(n, off) ==
    {[Proxify(n) EXCEPT !.len = off - n.off], Proxy(off, End(n) - off, 1)}
(* rangelock_split: the front and the rear part.                           *)
Split(n, off) ==
    {[Proxify(n) EXCEPT !.len = off - n.off],
     Proxy(off, End(n) - off, n.count)}

(* What rangelock_add_reader makes of a node n that the new range, which   *)
(* ends at end, overlaps: it is counted once more as far as that.          *)
Counted(n, end) ==
    LET parts == IF end < End(n) THEN Split(n, end) ELSE {Proxify(n)}
    IN  {IF m.off = n.off THEN [m EXCEPT !.count = @ + 1] ELSE m : m \in parts}

(* Its proxies where no node is: before the first node of over, between    *)
(* two of them, after the last.                                            *)
Gaps(over, r) ==
    LET starts == {r.off} \cup {End(n) : n \in over}
        ends == {End(r)} \cup {n.off : n \in over}
        Free(a, b) == \A n \in over : ~Overlaps(n, [off |-> a, len |-> b - a])
    IN  UNION {{Proxy(a, b - a, 1) : b \in {e \in ends : a < e /\ Free(a, e)}} :
                a \in starts}

(* rangelock_add_reader: the tree with the new reader in it.               *)
AddReader(t, r) ==
    LET prev == {n \in rl_tree : n.off < r.off /\ r.off < End(n)}
        tree == (rl_tree \ prev) \cup UNION {Split(n, r.off) : n \in prev}
        over == {n \in tree : Overlaps(n, r)}
    IN  IF over = {} THEN tree \cup {Node(r.off, r.len, "reader", 1, t)}
        ELSE (tree \ over) \cup Gaps(over, r)
             \cup UNION {Counted(n, End(r)) : n \in over}

-----------------------------------------------------------------------------
(* The nodes of S that come first in the tree.                             *)
First(S) == {n \in S : \A m \in S : n.off <= m.off}

(* Mutant: readers do not give way to a waiting writer.                    *)
ReaderBlockersGreedy(r) ==
    First({n \in rl_tree : Overlaps(n, r) /\ n.type = "writer"})
(* Mutant: only the first overlapping node is looked at.                   *)
ReaderBlockersPrev(r) ==
    {n \in First({m \in rl_tree : Overlaps(m, r)}) :
        n.type = "writer" \/ n.lr_write_wanted}
(* rangelock_enter_reader: the node that a reader waits for, if any.       *)
ReaderBlockers(r) ==
    First({n \in rl_tree :
             Overlaps(n, r) /\ (n.type = "writer" \/ n.lr_write_wanted)})

(* rangelock_enter_writer: the node that a writer waits for, if any: one   *)
(* at its offset, else the next one, else the one before.                  *)
WriterBlockers(r) ==
    LET over == {n \in rl_tree : Overlaps(n, r)}
        behind == First({n \in over : n.off >= r.off})
    IN  IF behind # {} THEN behind ELSE over

(* Whether zfs_rangelock_cb locks the whole file.                          *)
MustGrow(r) ==
    /\ MaxOf(z_size, End(r)) > z_blksz
    /\ ~ISP2(z_blksz) \/ z_blksz < z_max_blksz

(* Mutant: the callback is called once, not after every wait.              *)
CallbackStale(t, q) ==
    LET r == [off |-> IF q.op = "append" THEN z_size ELSE q.off,
              len |-> q.len]
    IN  IF st[t] = "wait" THEN lr[t]
        ELSE IF MustGrow(r) THEN [off |-> 0, len |-> UINT64_MAX] ELSE r
(* zfs_rangelock_cb: the range a writer locks now.                         *)
Callback(t, q) ==
    LET r == [off |-> IF q.op = "append" THEN z_size ELSE q.off,
              len |-> q.len]
    IN  IF MustGrow(r) THEN [off |-> 0, len |-> UINT64_MAX] ELSE r

Grant(t, r, tree) ==
    /\ rl_tree' = tree
    /\ lr' = [lr EXCEPT ![t] = r]
    /\ st' = [st EXCEPT ![t] = "held"]
    /\ UNCHANGED <<asleep, pend, z_size, z_blksz>>

(* Set the wanted flag of node n and sleep on its condition variable.      *)
WaitFor(t, n, r, reader) ==
    /\ rl_tree' = (rl_tree \ {n}) \cup
         {IF reader
          THEN [n EXCEPT !.lr_read_wanted = TRUE, !.lr_read_cv = @ \cup {t}]
          ELSE [n EXCEPT !.lr_write_wanted = TRUE, !.lr_write_cv = @ \cup {t}]}
    /\ asleep' = asleep \cup {t}
    /\ lr' = [lr EXCEPT ![t] = r]
    /\ st' = [st EXCEPT ![t] = "wait"]
    /\ UNCHANGED <<pend, z_size, z_blksz>>

EnterReader(t, q) ==
    LET r == [off |-> q.off, len |-> q.len]
    IN  \/ ReaderBlockers(r) = {} /\ Grant(t, r, AddReader(t, r))
        \/ \E n \in ReaderBlockers(r) : WaitFor(t, n, r, TRUE)

EnterWriter(t, q) ==
    LET r == Callback(t, q)
    IN  \/ /\ WriterBlockers(r) = {}
           /\ Grant(t, r, rl_tree \cup {Node(r.off, r.len, "writer", 1, t)})
        \/ \E n \in WriterBlockers(r) : WaitFor(t, n, r, FALSE)

Enter(t, q) == IF q.op = "read" THEN EnterReader(t, q) ELSE EnterWriter(t, q)

(* The overflow check of rangelock_enter.                                  *)
Clamp(q) ==
    IF (q.len + q.off) % (UINT64_MAX + 1) < q.off
    THEN [q EXCEPT !.len = UINT64_MAX - q.off] ELSE q

RangelockEnter(t, q) ==
    /\ st[t] = "idle"
    /\ t \in Writers \/ q.op = "read"
    /\ req' = [req EXCEPT ![t] = Clamp(q)]
    /\ Enter(t, Clamp(q))

(* The loop goes round with the original offset, length and type.          *)
EnterAgain(t) ==
    /\ st[t] = "wait"
    /\ t \notin asleep
    /\ Enter(t, req[t])
    /\ UNCHANGED req

-----------------------------------------------------------------------------
(* Where zfs_write writes: an append that had to lock the whole file       *)
(* starts at the present end.                                              *)
Woff(t) ==
    IF req[t].op = "append" /\ lr[t].len # UINT64_MAX THEN lr[t].off
    ELSE IF req[t].op = "append" THEN z_size ELSE req[t].off

(* What it writes ends at the limit; nothing is written past it (EFBIG).   *)
Wend(t) == MinOf(Woff(t) + req[t].len, MAXOFFSET_T)
BelowLimit(t) == Woff(t) < MAXOFFSET_T

(* The block size zfs_write grows to.                                      *)
NewBlksz(t) ==
    LET end_size == MaxOf(z_size, Wend(t))
    IN  IF z_blksz > z_max_blksz
        THEN MinOf(end_size, CHOOSE p \in z_blksz .. 2 * z_blksz :
                               p > z_blksz /\ ISP2(p))
        ELSE MinOf(end_size, z_max_blksz)

(* zfs_grow_blocksize: what it can make of the block size.  A file of more *)
(* than one block keeps its own; the DMU may refuse as well (ENOTSUP).     *)
GrowBlocksize(size) ==
    {z_blksz} \cup {b \in {size} : b > z_blksz /\ z_size <= z_blksz}

(* The range zfs_write needs.                                              *)
Reduced(t) == [off |-> Woff(t), len |-> Wend(t) - Woff(t)]

(* zfs_write holds the whole file: zfs_grow_blocksize, rangelock_reduce.   *)
RangelockReduce(t) ==
    /\ st[t] = "held"
    /\ req[t].op \in {"write", "append"}
    /\ lr[t].len = UINT64_MAX /\ BelowLimit(t)
    /\ z_blksz' \in GrowBlocksize(NewBlksz(t))
    /\ lr' = [lr EXCEPT ![t] = Reduced(t)]
    /\ rl_tree' = {IF n.owner = t
                   THEN [n EXCEPT !.off = Reduced(t).off,
                                  !.len = Reduced(t).len]
                   ELSE n : n \in rl_tree}
    /\ st' = [st EXCEPT ![t] = "wake"]
    /\ UNCHANGED <<req, asleep, pend, z_size>>

(* Its broadcasts, after the unlock; the flags stay set.                   *)
ReduceWake(t) ==
    /\ st[t] = "wake"
    /\ pend[t] = {}
    /\ \E n \in rl_tree :
         /\ n.owner = t
         /\ asleep' = asleep \ (n.lr_write_cv \cup n.lr_read_cv)
         /\ rl_tree' = (rl_tree \ {n}) \cup
              {[n EXCEPT !.lr_write_cv = {}, !.lr_read_cv = {}]}
    /\ st' = [st EXCEPT ![t] = "held"]
    /\ UNCHANGED <<req, lr, pend, z_size, z_blksz>>

(* zfs_write has written its range; zfs_trunc sets a smaller size.         *)
SetSize(t) ==
    /\ st[t] = "held"
    /\ \/ /\ req[t].op \in {"write", "append"}
          /\ lr[t].len # UINT64_MAX /\ BelowLimit(t)
          /\ z_size' = MaxOf(z_size, Wend(t))
       \/ /\ req[t].op = "trunc"
          /\ \E end \in 0 .. UINT64_MAX : end < z_size /\ z_size' = end
    /\ st' = [st EXCEPT ![t] = "done"]
    /\ UNCHANGED <<rl_tree, req, lr, asleep, pend, z_blksz>>

(* The threads that the broadcasts of nodes S wake.                        *)
Sleepers(S) == UNION {n.lr_write_cv \cup n.lr_read_cv : n \in S}

(* The handle is freed.                                                    *)
Return(t) ==
    /\ st' = [st EXCEPT ![t] = "idle"]
    /\ req' = [req EXCEPT ![t] = NoReq]
    /\ lr' = [lr EXCEPT ![t] = NoRange]

(* rangelock_exit by a writer: the node leaves the tree, then ...          *)
ExitWriter(t) ==
    /\ st[t] \in {"held", "done"}
    /\ req[t].op # "read"
    /\ \E n \in rl_tree :
         /\ n.owner = t
         /\ rl_tree' = rl_tree \ {n}
         /\ pend' = [pend EXCEPT ![t] = {n}]
    /\ st' = [st EXCEPT ![t] = "wake"]
    /\ UNCHANGED <<req, lr, asleep, z_size, z_blksz>>

(* ... after the unlock its sleepers are woken.                            *)
ExitWriterWake(t) ==
    /\ st[t] = "wake"
    /\ pend[t] # {}
    /\ asleep' = asleep \ Sleepers(pend[t])
    /\ pend' = [pend EXCEPT ![t] = {}]
    /\ Return(t)
    /\ UNCHANGED <<rl_tree, z_size, z_blksz>>

(* The nodes that stand for a reader: its own, or the proxies from its     *)
(* offset to the end of its range.                                         *)
HandleNodes(t) ==
    {n \in rl_tree : lr[t].off <= n.off /\ n.off < End(lr[t])}

(* rangelock_exit_reader *)
ExitReader(t) ==
    /\ st[t] = "held"
    /\ req[t].op = "read"
    /\ LET gone == {n \in HandleNodes(t) : n.count = 1}
           kept == HandleNodes(t) \ gone
       IN  /\ rl_tree' = (rl_tree \ HandleNodes(t))
                         \cup {[n EXCEPT !.count = @ - 1] : n \in kept}
           /\ asleep' = asleep \ Sleepers(gone)
    /\ Return(t)
    /\ UNCHANGED <<pend, z_size, z_blksz>>

RangelockExit(t) == ExitWriter(t) \/ ExitReader(t)

Run(t) ==
    EnterAgain(t) \/ ReduceWake(t) \/ ExitWriterWake(t)

RlNext ==
    \E t \in Threads :
        \/ \E q \in Reqs : RangelockEnter(t, q)
        \/ Run(t)
        \/ RangelockReduce(t)
        \/ SetSize(t)
        \/ RangelockExit(t)

RlSpec == RlInit /\ [][RlNext]_rlVars

(* Threads run, and no caller keeps a range for ever.                      *)
RlFairSpec ==
    /\ RlSpec
    /\ \A t \in Threads : WF_rlVars(Run(t)) /\ WF_rlVars(RangelockExit(t))

-----------------------------------------------------------------------------
Holding == {t \in Threads : \/ st[t] \in {"held", "done"}
                            \/ st[t] = "wake" /\ pend[t] = {}}

(* Two threads that hold overlapping ranges are both readers.              *)
RangesExclusive ==
    \A t, u \in Holding :
        t # u /\ Overlaps(lr[t], lr[u]) =>
            req[t].op = "read" /\ req[u].op = "read"

(* The proxies say exactly who holds what: no two nodes overlap, none is   *)
(* empty or goes past the last offset, every held range is made up of      *)
(* whole nodes, and each node counts the threads that hold it.             *)
(* rangelock_exit_reader relies on it to find its nodes again after any    *)
(* number of splits.                                                       *)
NodesExact ==
    /\ \A n \in rl_tree : n.len > 0 /\ n.off + n.len <= UINT64_MAX
    /\ \A m, n \in rl_tree : m # n => ~Overlaps(m, n)
    /\ \A n \in rl_tree :
         n.count = Cardinality({t \in Holding : Overlaps(n, lr[t])})
    /\ \A t \in Holding : \A n \in rl_tree :
         Overlaps(n, lr[t]) => lr[t].off <= n.off /\ End(n) <= End(lr[t])
    /\ \A t \in Holding : \A b \in lr[t].off .. End(lr[t]) - 1 :
         \E n \in rl_tree : n.off <= b /\ b < End(n)

(* The file changes under the range locks only as zfs_write says: the      *)
(* block size only while the thread that grows it holds the only range,    *)
(* the size not while somebody else holds the whole file ("zp_size cannot  *)
(* change with this lock held"), and an append gets its lock at the end    *)
(* that the file has then, however long it waited.                         *)
FileUnderLock ==
    [][/\ z_blksz' # z_blksz => Cardinality(Holding) = 1
       /\ z_size' # z_size =>
            \A t \in Holding : lr[t].len = UINT64_MAX => st'[t] # st[t]
       /\ \A t \in Threads :
            st[t] # "held" /\ st'[t] = "held" /\ req'[t].op = "append"
            /\ st[t] # "wake" /\ lr'[t].len # UINT64_MAX
            => lr'[t].off = z_size
      ]_rlVars

(* Nobody sleeps for ever; in particular continuous readers of a range do  *)
(* not keep a writer asleep that waits for it.                             *)
SleepersWake == \A t \in Threads : (t \in asleep) ~> (t \notin asleep)
=============================================================================
