--------------------------- MODULE RrmlockProofs ---------------------------
(***************************************************************************)
(* Proofs about Rrmlock for any number of locks, threads and holds.  Every *)
(* step of the reader-mostly lock is a step of the array of rrwlocks or    *)
(* leaves them alone, so what is proved of Rrwlock holds of it too; and    *)
(* the index of a writer's loop says exactly which locks it has.           *)
(***************************************************************************)
EXTENDS Rrmlock, RrwlockProofs

(* The locks a thread has, at each place of rrm_enter_write and rrm_exit.  *)
LocksOf(t) ==
    CASE w_st[t] = "none" -> {}
      [] w_st[t] = "entering" -> {l \in Locks : l < w_i[t]}
      [] w_st[t] = "held" -> Locks
      [] w_st[t] = "exiting" -> {l \in Locks : l >= w_i[t]}

(* Only writers are in those loops, a lock is left to be taken or dropped  *)
(* in each round, and a call under way is for the lock of the round.       *)
LoopInv ==
    \A t \in Threads :
        /\ w_st[t] # "none" => t \in Writers
        /\ w_st[t] \in {"entering", "exiting"} => w_i[t] \in Locks
        /\ w_st[t] = "entering" =>
             call[t] = Idle \/ call[t] = WriteCall(w_i[t])
        /\ w_st[t] \in {"held", "exiting"} => call[t] = Idle
        /\ w_st[t] = "none" => call[t].op # "write"

WriterInv ==
    \A t \in Threads : \A l \in Locks : rr_writer[l] = t <=> l \in LocksOf(t)

RrmTypes ==
    /\ td_lock \in [Threads -> Locks]
    /\ w_st \in [Threads -> {"none", "entering", "held", "exiting"}]
    /\ w_i \in [Threads -> 0 .. RRM_NUM_LOCKS]

RrmInv == RrmTypes /\ LoopInv /\ WriterInv

-----------------------------------------------------------------------------
(* A step of the loops or of a reader is one of the rrwlocks below.        *)
LEMMA RrmStepIsRrw ==
    ASSUME RInv, RrmInv, [RrmNext]_rrmVars
    PROVE  [RrwNext]_rrVars
<1>0. RrwTypeOK /\ RrmTypes /\ LoopInv
    BY DEF RInv, RrmInv
<1>1. CASE UNCHANGED rrmVars
    BY <1>1 DEF rrmVars
<1>2. ASSUME NEW t \in Threads, RrmStep(t), UNCHANGED rr_track_all
      PROVE  [RrwNext]_rrVars
    <2>1. CASE RrmReadWake(t)
        BY <1>2, <2>1 DEF RrmReadWake, RrwNext, RrwStep, RrwWake
    <2>2. CASE RrmWriteStep(t)
        <3>1. w_st[t] = "entering" /\ w_i[t] \in Locks /\ t \in Writers
            BY <1>0, <2>2 DEF RrmWriteStep, LoopInv
        <3>2. RrwEnterWrite(t, w_i[t]) \/ RrwWriteWake(t)
            BY <2>2 DEF RrmWriteStep, LockAt
        <3>3. QED
            BY <1>2, <3>1, <3>2 DEF RrwNext, RrwStep, RrwWake
    <2>3. CASE RrmExitStep(t)
        <3>1. w_i[t] \in Locks /\ RrwExitWrite(t, w_i[t])
            BY <1>0, <2>3 DEF RrmExitStep, LoopInv, LockAt
        <3>2. QED
            BY <1>2, <3>1 DEF RrwNext, RrwStep
    <2>4. CASE RrmEnterWrite(t) \/ RrmExitWrite(t)
        BY <2>4 DEF RrmEnterWrite, RrmExitWrite
    <2>5. ASSUME NEW h \in Holds, RrmEnterRead(t, h) \/ RrmExitRead(t, h)
          PROVE  [RrwNext]_rrVars
        <3>1. td_lock[t] \in Locks /\ FALSE \in Prios
            BY <1>0, RrmAssumption DEF RrmTypes
        <3>2. \/ RrwEnterRead(t, td_lock[t], h, FALSE)
              \/ RrwExitRead(t, td_lock[t], h)
            BY <2>5 DEF RrmEnterRead, RrmExitRead
        <3>3. QED
            BY <1>2, <3>1, <3>2 DEF RrwNext, RrwStep
    <2>6. QED
        BY <1>2, <2>1, <2>2, <2>3, <2>4, <2>5 DEF RrmStep, RrmRun
<1>3. QED
    BY <1>1, <1>2 DEF RrmNext

(* No thread is NULL, so a lock whose writer is NULL is nobody's.          *)
LEMMA WriterUnique ==
    ASSUME RrmInv, NEW l \in Locks, rr_writer[l] = NULL
    PROVE  \A t \in Threads : l \notin LocksOf(t)
BY RrwAssumption DEF RrmInv, WriterInv

(* One round of rrm_enter_write: asleep, or one more lock is taken.        *)
LEMMA WriteStepInv ==
    ASSUME RInv, RrmInv, NEW t \in Threads, RrmWriteStep(t)
    PROVE  RrmInv'
<1>0. RrwTypeOK /\ RrmTypes /\ LoopInv /\ WriterInv /\ NULL \notin Threads
    BY RrwAssumption DEF RInv, RrmInv
<1> DEFINE i == w_i[t]
<1>1. /\ w_st[t] = "entering" /\ i \in Locks /\ t \in Writers
      /\ call[t] = Idle \/ call[t] = WriteCall(i)
      /\ td_lock' = td_lock
    BY <1>0 DEF RrmWriteStep, LoopInv
<1>2. WriteLoop(t, i)
    <2>1. RrwEnterWrite(t, i) \/ RrwWriteWake(t)
        BY DEF RrmWriteStep, LockAt
    <2>2. call[t].op = "write" => call[t].lock = i
        BY <1>1, CallFields DEF Idle, WriteCall
    <2>3. QED
        BY <2>1, <2>2 DEF RrwEnterWrite, RrwWriteWake
<1>3. CASE WriteBlocked(i)
    <2>1. /\ rr_writer' = rr_writer
          /\ call' = [call EXCEPT ![t] = WriteCall(i)]
        BY <1>2, <1>3 DEF WriteLoop
    <2>2. rr_writer[i] # t
        BY <1>0, <1>1 DEF WriterInv, LocksOf, RrmTypes
    <2>3. UNCHANGED <<w_i, w_st>>
        BY <2>1, <2>2 DEF RrmWriteStep, LockAt
    <2>4. LoopInv'
        BY <1>0, <1>1, <2>1, <2>3 DEF LoopInv, RrwTypeOK
    <2>5. WriterInv' /\ RrmTypes'
        BY <1>0, <1>1, <2>1, <2>3 DEF WriterInv, LocksOf, RrmTypes
    <2>6. QED
        BY <2>4, <2>5 DEF RrmInv
<1>4. CASE ~WriteBlocked(i)
    <2>1. /\ rr_writer' = [rr_writer EXCEPT ![i] = t]
          /\ call' = [call EXCEPT ![t] = Idle]
          /\ rr_writer[i] = NULL
        BY <1>2, <1>4 DEF WriteLoop, WriteBlocked
    <2>2. rr_writer'[i] = t
        BY <1>0, <1>1, <2>1 DEF RrwTypeOK
    <2>3. /\ w_i' = [w_i EXCEPT ![t] = i + 1]
          /\ w_st' = [w_st EXCEPT ![t] =
               IF i + 1 = RRM_NUM_LOCKS THEN "held" ELSE "entering"]
        BY <1>1, <2>2 DEF RrmWriteStep, LockAt
    <2>4. /\ i \in Nat /\ i < RRM_NUM_LOCKS /\ RRM_NUM_LOCKS \in Nat
          /\ Locks = 0 .. RRM_NUM_LOCKS - 1
        BY <1>1, RrmAssumption
    <2>5. RrmTypes'
        BY <1>0, <1>1, <2>3, <2>4 DEF RrmTypes
    <2>a. /\ \A u \in Threads : u # t =>
               w_st'[u] = w_st[u] /\ w_i'[u] = w_i[u] /\ call'[u] = call[u]
          /\ w_i'[t] = i + 1 /\ call'[t] = Idle
          /\ w_st'[t] = IF i + 1 = RRM_NUM_LOCKS THEN "held" ELSE "entering"
        BY <1>0, <2>1, <2>3 DEF RrwTypeOK, RrmTypes
    <2>6. LoopInv'
        <3>1. i + 1 # RRM_NUM_LOCKS => i + 1 \in Locks
            BY <2>4
        <3>2. QED
            BY <1>0, <1>1, <2>a, <3>1 DEF LoopInv
    <2>7. \A u \in Threads : LocksOf(u)' =
            IF u = t THEN LocksOf(u) \cup {i} ELSE LocksOf(u)
        <3>1. ASSUME NEW u \in Threads, u # t
              PROVE  LocksOf(u)' = LocksOf(u)
            BY <2>a, <3>1 DEF LocksOf
        <3>2. LocksOf(t) = {l \in Locks : l < i}
            BY <1>1 DEF LocksOf
        <3>3. LocksOf(t)' = {l \in Locks : l < i + 1}
            BY <2>a, <2>4 DEF LocksOf
        <3>4. {l \in Locks : l < i + 1} = {l \in Locks : l < i} \cup {i}
            BY <2>4
        <3>5. QED
            BY <3>1, <3>2, <3>3, <3>4
    <2>8. WriterInv'
        BY <1>0, <1>1, <2>1, <2>7, WriterUnique DEF WriterInv, RrwTypeOK, RrmInv
    <2>9. QED
        BY <2>5, <2>6, <2>8 DEF RrmInv
<1>5. QED
    BY <1>3, <1>4

(* One round of rrm_exit of a writer: one lock less.                       *)
LEMMA ExitStepInv ==
    ASSUME RInv, RrmInv, NEW t \in Threads, RrmExitStep(t)
    PROVE  RrmInv'
<1>0. RrwTypeOK /\ RrmTypes /\ LoopInv /\ WriterInv /\ NULL \notin Threads
    BY RrwAssumption DEF RInv, RrmInv
<1> DEFINE i == w_i[t]
<1>1. /\ w_st[t] = "exiting" /\ i \in Locks /\ t \in Writers
      /\ call[t] = Idle /\ call' = call /\ td_lock' = td_lock
      /\ rr_writer' = [rr_writer EXCEPT ![i] = NULL] /\ rr_writer[i] = t
      /\ w_i' = [w_i EXCEPT ![t] = i + 1]
      /\ w_st' = [w_st EXCEPT ![t] =
           IF i + 1 = RRM_NUM_LOCKS THEN "none" ELSE "exiting"]
    BY <1>0 DEF RrmExitStep, LoopInv, LockAt, RrwExitWrite
<1>2. /\ i \in Nat /\ i < RRM_NUM_LOCKS /\ RRM_NUM_LOCKS \in Nat
      /\ Locks = 0 .. RRM_NUM_LOCKS - 1
    BY <1>1, RrmAssumption
<1>3. RrmTypes'
    BY <1>0, <1>1, <1>2 DEF RrmTypes
<1>4. LoopInv'
    BY <1>0, <1>1, <1>2 DEF LoopInv, RrmTypes, Idle
<1>5. \A u \in Threads : LocksOf(u)' =
        IF u = t THEN LocksOf(u) \ {i} ELSE LocksOf(u)
    <2>1. ASSUME NEW u \in Threads, u # t
          PROVE  LocksOf(u)' = LocksOf(u)
        BY <1>0, <1>1, <2>1 DEF LocksOf, RrmTypes
    <2>2. LocksOf(t) = {l \in Locks : l >= i}
        BY <1>1 DEF LocksOf
    <2>3. LocksOf(t)' = {l \in Locks : l >= i + 1}
        BY <1>0, <1>1, <1>2 DEF LocksOf, RrmTypes
    <2>4. {l \in Locks : l >= i + 1} = {l \in Locks : l >= i} \ {i}
        BY <1>2
    <2>5. QED
        BY <2>1, <2>2, <2>3, <2>4
<1>6. WriterInv'
    BY <1>0, <1>1, <1>5 DEF WriterInv, RrwTypeOK
<1>7. QED
    BY <1>3, <1>4, <1>6 DEF RrmInv

(* A writer begins or begins to leave; a reader comes, wakes or goes.      *)
LEMMA OtherStepInv ==
    ASSUME RInv, RrmInv, NEW t \in Threads,
           \/ RrmReadWake(t)
           \/ t \in Writers /\ RrmEnterWrite(t)
           \/ RrmExitWrite(t)
           \/ \E h \in Holds : RrmEnterRead(t, h) \/ RrmExitRead(t, h)
    PROVE  RrmInv'
<1>0. /\ RrwTypeOK /\ RrmTypes /\ LoopInv /\ WriterInv
      /\ 0 \in Locks /\ 0 \in 0 .. RRM_NUM_LOCKS /\ \A l \in Locks : l >= 0
      /\ \A l \in Locks : ~(l < 0)
    BY RrmAssumption DEF RInv, RrmInv
<1>1. CASE t \in Writers /\ RrmEnterWrite(t)
    <2>1. /\ w_st[t] = "none" /\ call[t] = Idle /\ UNCHANGED <<rrVars, td_lock>>
          /\ w_st' = [w_st EXCEPT ![t] = "entering"]
          /\ w_i' = [w_i EXCEPT ![t] = 0]
        BY <1>1 DEF RrmEnterWrite
    <2>2. RrmTypes' /\ LoopInv'
        BY <1>0, <1>1, <2>1 DEF RrmTypes, LoopInv, rrVars
    <2>3. \A u \in Threads : LocksOf(u)' = LocksOf(u)
        BY <1>0, <2>1 DEF LocksOf, RrmTypes
    <2>4. QED
        BY <1>0, <2>1, <2>2, <2>3 DEF RrmInv, WriterInv, rrVars
<1>2. CASE RrmExitWrite(t)
    <2>1. /\ w_st[t] = "held" /\ UNCHANGED <<rrVars, td_lock>>
          /\ w_st' = [w_st EXCEPT ![t] = "exiting"]
          /\ w_i' = [w_i EXCEPT ![t] = 0]
        BY <1>2 DEF RrmExitWrite
    <2>2. RrmTypes' /\ LoopInv'
        BY <1>0, <2>1 DEF RrmTypes, LoopInv, rrVars
    <2>3. \A u \in Threads : LocksOf(u)' = LocksOf(u)
        BY <1>0, <2>1 DEF LocksOf, RrmTypes
    <2>4. QED
        BY <1>0, <2>1, <2>2, <2>3 DEF RrmInv, WriterInv, rrVars
<1>3. CASE \/ RrmReadWake(t)
           \/ \E h \in Holds : RrmEnterRead(t, h) \/ RrmExitRead(t, h)
    <2>1. UNCHANGED <<td_lock, w_st, w_i, rr_writer>>
        BY <1>3 DEF RrmReadWake, RrmEnterRead, RrmExitRead, RrwReadWake,
                    RrwEnterRead, RrwExitRead, ReadLoop
    <2>2. /\ \A u \in Threads : u # t => call'[u] = call[u]
          /\ call'[t] # call[t] => w_st[t] = "none" /\ call'[t].op # "write"
        <3>1. CASE RrmReadWake(t)
            <4>1. w_st[t] = "none"
                <5>1. call[t].op = "read"
                    BY <3>1 DEF RrmReadWake, RrwReadWake
                <5>2. call[t] # Idle /\ \A l : call[t] # WriteCall(l)
                    BY <5>1 DEF Idle, WriteCall
                <5>3. QED
                    BY <1>0, <5>2 DEF LoopInv, RrmTypes
            <4>2. QED
                BY <1>0, <3>1, <4>1 DEF RrmReadWake, RrwReadWake, ReadLoop,
                                        RrwTypeOK, ReadCall, Idle
        <3>2. CASE \E h \in Holds : RrmEnterRead(t, h) \/ RrmExitRead(t, h)
            <4>1. CASE \E h \in Holds : RrmExitRead(t, h)
                BY <4>1 DEF RrmExitRead, RrwExitRead
            <4>2. ASSUME NEW h \in Holds, RrmEnterRead(t, h)
                  PROVE  /\ w_st[t] = "none"
                         /\ \/ call' = [call EXCEPT ![t] = Idle]
                            \/ call' = [call EXCEPT ![t] =
                                          ReadCall(td_lock[t], h, FALSE)]
                BY <4>2 DEF RrmEnterRead, RrwEnterRead, ReadLoop
            <4>3. \A l, h : ReadCall(l, h, FALSE).op = "read" /\ Idle.op = "none"
                BY DEF ReadCall, Idle
            <4>4. QED
                BY <1>0, <3>2, <4>1, <4>2, <4>3 DEF RrwTypeOK
        <3>3. QED
            BY <1>3, <3>1, <3>2
    <2>3. LoopInv'
        <3>1. SUFFICES ASSUME NEW u \in Threads, call'[u] # call[u]
                       PROVE  w_st[u] = "none" /\ call'[u].op # "write"
            BY <1>0, <2>1, <3>1 DEF LoopInv
        <3>2. QED
            BY <2>2, <3>1
    <2>4. RrmTypes' /\ WriterInv'
        BY <1>0, <2>1 DEF RrmTypes, WriterInv, LocksOf
    <2>5. QED
        BY <2>3, <2>4 DEF RrmInv
<1>4. QED
    BY <1>1, <1>2, <1>3

LEMMA RrmInvStep ==
    ASSUME RInv, RrmInv, [RrmNext]_rrmVars
    PROVE  RrmInv'
<1>1. CASE UNCHANGED rrmVars
    BY <1>1 DEF rrmVars, rrVars, RrmInv, RrmTypes, LoopInv, WriterInv, LocksOf
<1>2. CASE RrmNext
    BY <1>2, WriteStepInv, ExitStepInv, OtherStepInv DEF RrmNext, RrmStep, RrmRun
<1>3. QED
    BY <1>1, <1>2

LEMMA RrmInitInv == RrmInit => RInv /\ RrmInv
<1> SUFFICES ASSUME RrmInit PROVE RrmInv
    BY InitRInv DEF RrmInit
<1>1. NULL \notin Threads /\ 0 \in 0 .. RRM_NUM_LOCKS
    BY RrwAssumption, RrmAssumption
<1>2. RrmTypes /\ LoopInv
    BY <1>1 DEF RrmInit, RrwInit, RrmTypes, LoopInv, Idle
<1>3. WriterInv
    BY <1>1 DEF RrmInit, RrwInit, WriterInv, LocksOf
<1>4. QED
    BY <1>2, <1>3 DEF RrmInv

-----------------------------------------------------------------------------
LEMMA RrmInvariance == RrmSpec => [](RInv /\ RrmInv)
<1>1. RInv /\ RrmInv /\ [RrmNext]_rrmVars => RInv' /\ RrmInv'
    BY RrmStepIsRrw, RrmInvStep, RInvStep
<1>2. QED
    BY <1>1, RrmInitInv, PTL DEF RrmSpec

(* The reader-mostly lock uses its array as the rules of rrw_enter_* and   *)
(* rrw_exit allow: no thread enters a lock it writes, none leaves one it   *)
(* does not have, and everything proved of rrwlocks holds of the array.    *)
THEOREM RrmImplementsRrw == RrmSpec => RrwSpec
<1>1. RrmInit => RrwInit
    BY DEF RrmInit
<1>2. RInv /\ RrmInv /\ [RrmNext]_rrmVars => [RrwNext]_rrVars
    BY RrmStepIsRrw
<1>3. QED
    BY <1>1, <1>2, RrmInvariance, PTL DEF RrmSpec, RrwSpec

(* When rrm_enter_write has returned, the thread is the writer of every    *)
(* lock of the array and nobody reads, for any number of locks.            *)
THEOREM RrmExclusionSafe == RrmSpec => []RrmExclusion
<1>1. RInv /\ RrmInv => RrmExclusion
    BY RrwAssumption DEF RInv, Exclusion, RrmInv, WriterInv, LocksOf, RrmExclusion
<1>2. QED
    BY <1>1, RrmInvariance, PTL
=============================================================================
