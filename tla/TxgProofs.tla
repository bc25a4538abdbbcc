----------------------------- MODULE TxgProofs -----------------------------
(***************************************************************************)
(* Theorems about the transaction group pipeline of Txg: its invariant,    *)
(* and that it implements TxgGroups.                                       *)
(***************************************************************************)
EXTENDS TxgInvariant, TxgRefinement, FiniteSetTheorems, TLAPS

USE DEF pipeVars, askVars, lifeVars, cpuVars, thVars, cbVars, qVars, sVars,
        wVars

(* The steps that change the part of the state the invariant is about.     *)
CoreStep ==
    \/ QuiesceExit \/ QuiesceStart \/ QuiesceLock \/ QuiesceOpenNext
    \/ QuiesceDrain \/ QuiesceHandOff
    \/ SyncPrompt \/ SyncExit \/ SyncConsume \/ SyncDone
    \/ TxgSyncStart
    \/ \E t \in Txs :
         \/ \E c \in CPUs : TxgHoldOpen(t, c)
         \/ TxgHoldCount(t) \/ TxgDelay(t) \/ TxgDelayEnd(t)
         \/ TxgReleToQuiesce(t) \/ TxgRegisterCallbacks(t)
         \/ TxgReleToSync(t)

(* Every other step leaves that part alone.                                *)
LEMMA CoreFrame ==
    ASSUME [Next]_vars
    PROVE  \/ CoreStep
           \/ UNCHANGED <<pipeVars, cpuVars, thVars, q_pc, q_cpu, s_pc, tx_threads>>
<1>1. CASE QuiesceThread
  BY <1>1 DEF QuiesceThread, QuiesceWait, CoreStep
<1>2. CASE SyncThread
  BY <1>2 DEF SyncThread, SyncWait, CoreStep
<1>3. CASE SyncTimeout
  BY <1>3 DEF SyncTimeout
<1>4. CASE \E t \in Txs : TxStep(t) \/ TxgDoCallbacks(t)
  BY <1>4 DEF TxStep, TxgDoCallbacks, CoreStep
<1>5. CASE \E w \in Waiters : WaiterStep(w)
  BY <1>5 DEF WaiterStep, StopThreads, StopJoin, StopWaitSynced,
              WaitSyncedWake, WaitOpenWake
<1>6. CASE Call
  BY <1>6 DEF Call, TxgFini, TxgKick, TxgDelayAgain, TxgSyncStop,
              TxgWaitSynced, TxgWaitOpen, CoreStep
<1>7. CASE UNCHANGED vars
  BY <1>7 DEF vars
<1> QED BY <1>1, <1>2, <1>3, <1>4, <1>5, <1>6, <1>7 DEF Next, Terminated

-----------------------------------------------------------------------------
(* The place of the threads and the group numbers.                         *)
LEMMA PipeStep ==
    ASSUME TypeOK, ThreadInv, PipeInv, [Next]_vars
    PROVE  PipeInv'
<1> USE DEF Draining, Front, Last
<1>a. /\ tx_open_txg \in Nat /\ tx_synced_txg \in Nat
      /\ tx_quiescing_txg \in Nat /\ tx_quiesced_txg \in Nat
      /\ tx_syncing_txg \in Nat /\ TXG0 \in Nat /\ TXG0 >= 4
  BY TxgAssumption DEF TypeOK
<1>1. CASE QuiesceExit
  BY <1>a, <1>1 DEF QuiesceExit, QuiesceAwake, PipeInv
<1>2. CASE QuiesceStart
  BY <1>a, <1>2 DEF QuiesceStart, QuiesceAwake, QuiesceIdle, PipeInv
<1>3. CASE QuiesceLock
  BY <1>a, <1>3 DEF QuiesceLock, PipeInv
<1>4. CASE QuiesceOpenNext
  BY <1>a, <1>4 DEF QuiesceOpenNext, PipeInv
<1>5. CASE QuiesceDrain
  BY <1>a, <1>5 DEF QuiesceDrain, PipeInv
<1>6. CASE QuiesceHandOff
  BY <1>a, <1>6 DEF QuiesceHandOff, PipeInv
<1>7. CASE SyncPrompt \/ SyncExit
  BY <1>a, <1>7 DEF SyncPrompt, SyncExit, SyncReady, SyncAwake1, SyncAwake2,
                    PipeInv
<1>8. CASE SyncConsume
  BY <1>a, <1>8 DEF SyncConsume, SyncReady, SyncAwake1, SyncAwake2, PipeInv
<1>9. CASE SyncDone
  BY <1>a, <1>9 DEF SyncDone, PipeInv
<1>10. CASE TxgSyncStart
  BY <1>a, <1>10 DEF TxgSyncStart, ThreadInv, PipeInv
<1>11. CASE \E t \in Txs :
              \/ \E c \in CPUs : TxgHoldOpen(t, c)
              \/ TxgHoldCount(t) \/ TxgDelay(t) \/ TxgDelayEnd(t)
              \/ TxgReleToQuiesce(t) \/ TxgRegisterCallbacks(t)
  BY <1>a, <1>11 DEF TxgHoldOpen, TxgHoldCount, TxgDelay, TxgDelayEnd,
                     TxgReleToQuiesce, TxgRegisterCallbacks, PipeInv
<1>12. CASE \E t \in Txs : TxgReleToSync(t)
  <2> PICK t \in Txs : TxgReleToSync(t)
    BY <1>12
  <2>1. UNCHANGED <<pipeVars, s_pc>>
    BY DEF TxgReleToSync
  <2>2. \/ q_pc' = q_pc
        \/ q_pc = "tc_cv" /\ q_pc' = "drain"
    BY DEF TxgReleToSync
  <2> QED BY <1>a, <2>1, <2>2 DEF PipeInv
<1>13. CASE UNCHANGED <<pipeVars, q_pc, s_pc>>
  BY <1>13 DEF PipeInv
<1> QED BY CoreFrame, <1>1, <1>2, <1>3, <1>4, <1>5, <1>6, <1>7, <1>8, <1>9,
           <1>10, <1>11, <1>12, <1>13 DEF CoreStep

LEMMA ThreadStep ==
    ASSUME TypeOK, ThreadInv, [Next]_vars
    PROVE  ThreadInv'
<1>a. tx_threads \in 0 .. 2 /\ w_op \in [Waiters -> WaitOps]
  BY DEF TypeOK
<1>1. CASE QuiesceThread
  BY <1>a, <1>1 DEF QuiesceThread, QuiesceWait, QuiesceExit, QuiesceStart,
              QuiesceLock, QuiesceOpenNext, QuiesceDrain, QuiesceHandOff,
              QuiesceAwake, ThreadInv
<1>2. CASE SyncPrompt \/ SyncConsume \/ SyncDone \/ SyncWait \/ SyncTimeout
  BY <1>a, <1>2 DEF SyncWait, SyncPrompt, SyncConsume, SyncReady,
              SyncDone, SyncTimeout, SyncAwake1, SyncAwake2, ThreadInv
<1>3. CASE SyncExit
  BY <1>a, <1>3 DEF SyncExit, SyncReady, SyncAwake1, SyncAwake2, ThreadInv
<1>4. CASE \E t \in Txs :
             \/ \E c \in CPUs : TxgHoldOpen(t, c)
             \/ TxgHoldCount(t) \/ TxgDelay(t) \/ TxgDelayEnd(t)
             \/ TxgDelayAgain(t) \/ TxgReleToQuiesce(t)
             \/ TxgRegisterCallbacks(t) \/ TxgDoCallbacks(t)
  BY <1>4 DEF TxgHoldOpen, TxgHoldCount, TxgDelay, TxgDelayEnd, TxgDelayAgain,
              TxgReleToQuiesce, TxgRegisterCallbacks, TxgDoCallbacks, ThreadInv
<1>5. CASE \E t \in Txs : TxgReleToSync(t)
  <2>1. /\ UNCHANGED <<pool, s_pc, tx_threads, w_op>>
        /\ q_pc' = q_pc \/ (q_pc = "tc_cv" /\ q_pc' = "drain")
    BY <1>5 DEF TxgReleToSync
  <2> QED BY <2>1 DEF ThreadInv
<1>6. CASE \E w \in Waiters : StopThreads(w) \/ StopWaitSynced(w)
             \/ WaitSyncedWake(w) \/ WaitOpenWake(w)
  <2> PICK w \in Waiters : StopThreads(w) \/ StopWaitSynced(w)
             \/ WaitSyncedWake(w) \/ WaitOpenWake(w)
    BY <1>6
  <2>1. /\ UNCHANGED <<pool, q_pc, s_pc, tx_threads>>
        /\ w_op[w] # "none"
        /\ \A v \in Waiters : v # w => w_op'[v] = w_op[v]
    BY <1>a DEF StopThreads, StopWaitSynced, WaitSyncedWake, WaitOpenWake,
              SyncedLoop, OpenLoop
  <2> QED BY <2>1 DEF ThreadInv
<1>7. CASE \E w \in Waiters : StopJoin(w)
  BY <1>a, <1>7 DEF StopJoin, ThreadInv
<1>8. CASE TxgSyncStart
  BY <1>8 DEF TxgSyncStart, ThreadInv
<1>9. CASE TxgFini \/ TxgKick
  BY <1>9 DEF TxgFini, TxgKick, ThreadInv
<1>10. CASE \E w \in Waiters :
              \/ TxgSyncStop(w)
              \/ \E arg \in WaitArgs : TxgWaitSynced(w, arg) \/ TxgWaitOpen(w, arg)
  <2>1. /\ UNCHANGED <<q_pc, s_pc, tx_threads>>
        /\ pool = "active" /\ pool' \in {"active", "exporting"}
    BY <1>10 DEF TxgSyncStop, TxgWaitSynced, TxgWaitOpen
  <2> QED BY <2>1 DEF ThreadInv
<1>11. CASE UNCHANGED vars
  BY <1>11 DEF vars, ThreadInv
<1> QED BY <1>1, <1>2, <1>3, <1>4, <1>5, <1>6, <1>7, <1>8, <1>9, <1>10, <1>11
        DEF Next, Terminated, SyncThread, TxStep, WaiterStep, Call

-----------------------------------------------------------------------------
(* Who owns the tc_open_locks.                                             *)
LEMMA LockStep ==
    ASSUME TypeOK, ThreadInv, LockInv, [Next]_vars
    PROVE  LockInv'
<1> USE DEF Active, OwnsLock
<1>a. /\ tc_open_lock \in [CPUs -> {Free, "quiesce"} \cup Txs]
      /\ th_st \in [Txs -> TxStates]
      /\ th_cpu \in [Txs -> CPUs \cup {NoCpu}]
      /\ th_txg \in [Txs -> Nat]
      /\ q_cpu \in 1 .. NCPU + 1 /\ tx_open_txg \in Nat
  BY DEF TypeOK
<1>b. /\ "quiesce" \notin Txs /\ Free \notin Txs /\ Free # "quiesce"
      /\ NCPU \in Nat \ {0}
  BY ThreadAssumption, TxgAssumption DEF Free
<1>1. CASE QuiesceExit \/ QuiesceHandOff
  BY <1>a, <1>1 DEF QuiesceExit, QuiesceHandOff, QuiesceAwake, LockInv
<1>2. CASE QuiesceStart
  BY <1>a, <1>b, <1>2 DEF QuiesceStart, QuiesceAwake, CPUs, LockInv
<1>3. CASE QuiesceLock
  <2>1. q_cpu \in CPUs
    BY <1>a, <1>b, <1>3 DEF QuiesceLock, CPUs
  <2>2. \A t \in Txs : OwnsLock(t) => th_cpu[t] # q_cpu
    BY <1>b, <1>3 DEF QuiesceLock, LockInv
  <2>3. \A c \in CPUs :
          tc_open_lock'[c] = "quiesce" <=> q_pc' = "lock" /\ c < q_cpu'
    BY <1>a, <1>b, <1>3, <2>1 DEF QuiesceLock, CPUs, LockInv
  <2> QED BY <1>a, <1>3, <2>1, <2>2, <2>3 DEF QuiesceLock, LockInv
<1>4. CASE QuiesceOpenNext
  <2>1. \A c \in CPUs : tc_open_lock[c] = "quiesce"
    BY <1>a, <1>b, <1>4 DEF QuiesceOpenNext, AllLocked, CPUs, LockInv
  <2>2. \A t \in Txs : ~OwnsLock(t)
    BY <1>a, <1>b, <2>1 DEF LockInv
  <2> QED BY <1>a, <1>b, <1>4, <2>2 DEF QuiesceOpenNext, LockInv
<1>5. CASE QuiesceDrain
  BY <1>a, <1>5 DEF QuiesceDrain, LockInv
<1>6. CASE SyncPrompt \/ SyncExit \/ SyncConsume \/ SyncDone
  BY <1>6 DEF SyncPrompt, SyncExit, SyncConsume, SyncDone, LockInv
<1>7. CASE TxgSyncStart
  BY <1>7 DEF TxgSyncStart, LockInv, ThreadInv
<1>8. CASE \E t \in Txs : \E c \in CPUs : TxgHoldOpen(t, c)
  <2> PICK t \in Txs, c \in CPUs : TxgHoldOpen(t, c)
    BY <1>8
  <2>1. \A u \in Txs : OwnsLock(u) => th_cpu[u] # c
    BY <1>b DEF TxgHoldOpen, LockInv
  <2> QED BY <1>a, <1>b, <2>1 DEF TxgHoldOpen, LockInv
<1>9. CASE \E t \in Txs : \/ TxgHoldCount(t) \/ TxgDelay(t) \/ TxgDelayEnd(t)
                          \/ TxgRegisterCallbacks(t)
  BY <1>a, <1>9 DEF TxgHoldCount, TxgDelay, TxgDelayEnd, TxgRegisterCallbacks,
                    LockInv
<1>10. CASE \E t \in Txs : TxgReleToQuiesce(t)
  BY <1>a, <1>b, <1>10 DEF TxgReleToQuiesce, LockInv
<1>11. CASE \E t \in Txs : TxgReleToSync(t)
  <2> PICK t \in Txs : TxgReleToSync(t)
    BY <1>11
  <2>1. /\ UNCHANGED <<tc_open_lock, th_txg, tx_open_txg, q_cpu>>
        /\ th_st' = [th_st EXCEPT ![t] = "done"]
        /\ th_cpu' = [th_cpu EXCEPT ![t] = NoCpu]
        /\ q_pc' = "lock" <=> q_pc = "lock"
    BY DEF TxgReleToSync
  <2> QED BY <1>a, <2>1 DEF LockInv
<1>12. CASE UNCHANGED <<pipeVars, cpuVars, thVars, q_pc, q_cpu, s_pc, tx_threads>>
  BY <1>12 DEF LockInv
<1> QED BY CoreFrame, <1>1, <1>2, <1>3, <1>4, <1>5, <1>6, <1>7, <1>8, <1>9,
           <1>10, <1>11, <1>12 DEF CoreStep

-----------------------------------------------------------------------------
(* The counts.                                                             *)
LEMMA SlotType == \A txg \in Nat : Slot(txg) \in Slots
BY DEF Slot, Slots, TXG_SIZE

LEMMA HoldersFinite ==
    ASSUME NEW c, NEW g
    PROVE  /\ IsFiniteSet(Holders(c, g))
           /\ Cardinality(Holders(c, g)) \in Nat
           /\ Cardinality(Holders(c, g)) = 0 <=> Holders(c, g) = {}
BY TxgAssumption, FS_Subset, FS_CardinalityType, FS_EmptySet DEF Holders

LEMMA CountStep ==
    ASSUME TypeOK, LockInv, CountInv, [Next]_vars
    PROVE  CountInv'
<1> USE DEF Active, Counted, HandleSlot
<1>a. /\ tc_count \in [CPUs -> [Slots -> Nat]]
      /\ th_st \in [Txs -> TxStates]
      /\ th_cpu \in [Txs -> CPUs \cup {NoCpu}]
      /\ th_txg \in [Txs -> Nat]
  BY DEF TypeOK
<1>0. ASSUME UNCHANGED tc_count,
             \A c \in CPUs, g \in Slots : Holders(c, g)' = Holders(c, g)
      PROVE  CountInv'
  BY <1>0 DEF CountInv
<1>1. CASE UNCHANGED <<tc_count, thVars>>
  BY <1>0, <1>1 DEF Holders
<1>2. CASE QuiesceExit \/ QuiesceStart \/ QuiesceLock \/ QuiesceOpenNext
           \/ QuiesceDrain \/ QuiesceHandOff \/ SyncPrompt \/ SyncExit
           \/ SyncConsume \/ SyncDone \/ TxgSyncStart
  BY <1>1, <1>2 DEF QuiesceExit, QuiesceStart, QuiesceLock, QuiesceOpenNext,
       QuiesceDrain, QuiesceHandOff, SyncPrompt, SyncExit, SyncConsume,
       SyncDone, TxgSyncStart
<1>3. CASE \E t \in Txs :
             \/ \E c \in CPUs : TxgHoldOpen(t, c)
             \/ TxgDelay(t) \/ TxgDelayEnd(t)
             \/ TxgReleToQuiesce(t) \/ TxgRegisterCallbacks(t)
  <2> PICK t \in Txs : \/ \E c \in CPUs : TxgHoldOpen(t, c)
                       \/ TxgDelay(t) \/ TxgDelayEnd(t)
                       \/ TxgReleToQuiesce(t) \/ TxgRegisterCallbacks(t)
    BY <1>3
  <2>1. \A u \in Txs : u # t =>
          th_st'[u] = th_st[u] /\ th_cpu'[u] = th_cpu[u] /\ th_txg'[u] = th_txg[u]
    BY <1>a DEF TxgHoldOpen, TxgDelay, TxgDelayEnd, TxgReleToQuiesce,
                TxgRegisterCallbacks
  <2>2. \/ ~Counted(t) /\ ~Counted(t)'
        \/ Counted(t) /\ Counted(t)' /\ UNCHANGED <<th_cpu, th_txg>>
    BY <1>a DEF TxgHoldOpen, TxgDelay, TxgDelayEnd, TxgReleToQuiesce,
                TxgRegisterCallbacks
  <2>3. UNCHANGED tc_count
    BY DEF TxgHoldOpen, TxgDelay, TxgDelayEnd, TxgReleToQuiesce,
           TxgRegisterCallbacks
  <2>4. \A c \in CPUs, g \in Slots : Holders(c, g)' = Holders(c, g)
    BY <2>1, <2>2 DEF Holders
  <2> QED BY <1>0, <2>3, <2>4
<1>4. CASE \E t \in Txs : TxgHoldCount(t)
  <2> PICK t \in Txs : TxgHoldCount(t)
    BY <1>4
  <2>1. PICK c0 \in CPUs, g0 \in Slots : c0 = th_cpu[t] /\ g0 = HandleSlot(t)
    BY <1>a, SlotType DEF TxgHoldCount, LockInv
  <2>2. t \notin Holders(c0, g0)
    BY <2>1 DEF TxgHoldCount, Holders
  <2>3. Holders(c0, g0)' = Holders(c0, g0) \cup {t}
    BY <1>a, <2>1 DEF TxgHoldCount, Holders
  <2>4. \A c \in CPUs, g \in Slots : c # c0 \/ g # g0 =>
          Holders(c, g)' = Holders(c, g)
    BY <1>a, <2>1 DEF TxgHoldCount, Holders
  <2>5. Cardinality(Holders(c0, g0)') = Cardinality(Holders(c0, g0)) + 1
    BY <2>2, <2>3, HoldersFinite, FS_AddElement
  <2> QED BY <1>a, <2>1, <2>4, <2>5 DEF TxgHoldCount, CountInv
<1>5. CASE \E t \in Txs : TxgReleToSync(t)
  <2> PICK t \in Txs : TxgReleToSync(t)
    BY <1>5
  <2>1. PICK c0 \in CPUs, g0 \in Slots : c0 = th_cpu[t] /\ g0 = HandleSlot(t)
    BY <1>a, SlotType DEF TxgReleToSync, LockInv
  <2>2. t \in Holders(c0, g0)
    BY <2>1 DEF TxgReleToSync, Holders
  <2>3. Holders(c0, g0)' = Holders(c0, g0) \ {t}
    BY <1>a, <2>1 DEF TxgReleToSync, Holders
  <2>4. \A c \in CPUs, g \in Slots : c # c0 \/ g # g0 =>
          Holders(c, g)' = Holders(c, g)
    BY <1>a, <2>1 DEF TxgReleToSync, Holders
  <2>5. Cardinality(Holders(c0, g0)') = Cardinality(Holders(c0, g0)) - 1
    BY <2>2, <2>3, HoldersFinite, FS_RemoveElement
  <2> QED BY <1>a, <2>1, <2>4, <2>5 DEF TxgReleToSync, CountInv
<1> QED BY CoreFrame, <1>1, <1>2, <1>3, <1>4, <1>5 DEF CoreStep

-----------------------------------------------------------------------------
(* A held group is open, or closed and not drained past its holder.        *)
LEMMA HoldsStep ==
    ASSUME TypeOK, IndInv, [Next]_vars
    PROVE  HoldsKeepGroup'
<1> USE DEF Active, OwnsLock, Draining, HoldsKeepGroup
<1>a. /\ th_st \in [Txs -> TxStates]
      /\ th_cpu \in [Txs -> CPUs \cup {NoCpu}]
      /\ th_txg \in [Txs -> Nat]
      /\ q_cpu \in 1 .. NCPU + 1 /\ tx_open_txg \in Nat
      /\ tc_count \in [CPUs -> [Slots -> Nat]]
      /\ NCPU \in Nat
  BY TxgAssumption DEF TypeOK
<1>b. HoldsKeepGroup /\ \A t \in Txs : Active(t) => th_cpu[t] \in CPUs
  BY DEF IndInv, LockInv
<1>1. CASE QuiesceExit \/ QuiesceStart \/ QuiesceLock
  BY <1>b, <1>1 DEF QuiesceExit, QuiesceStart, QuiesceLock, QuiesceAwake
<1>2. CASE QuiesceOpenNext
  BY <1>a, <1>b, <1>2 DEF QuiesceOpenNext, CPUs
<1>3. CASE QuiesceDrain
  <2>1. CASE tc_count[q_cpu][DrainSlot] # 0
    BY <1>b, <1>3, <2>1 DEF QuiesceDrain
  <2>2. CASE tc_count[q_cpu][DrainSlot] = 0
    <3>1. SUFFICES ASSUME NEW t \in Txs, Active(t),
                          th_txg[t] = tx_open_txg - 1, th_cpu[t] = q_cpu
                   PROVE  FALSE
      <4>1. /\ UNCHANGED <<thVars, tx_open_txg>>
            /\ q_pc = "drain" /\ q_pc' = "drain" /\ q_cpu' = q_cpu + 1
        BY <1>3, <2>2 DEF QuiesceDrain
      <4> QED BY <1>a, <1>b, <3>1, <4>1 DEF CPUs
    <3>2. DrainSlot = HandleSlot(t)
      BY <1>3, <3>1 DEF QuiesceDrain, IndInv, PipeInv, DrainSlot, HandleSlot
    <3>3. Counted(t)
      BY <1>a, <3>1 DEF Counted, IndInv, LockInv
    <3>4. t \in Holders(q_cpu, HandleSlot(t))
      BY <3>1, <3>3 DEF Holders
    <3>5. q_cpu \in CPUs /\ HandleSlot(t) \in Slots
      BY <1>a, <1>b, <3>1, SlotType DEF HandleSlot
    <3> QED BY <2>2, <3>2, <3>4, <3>5, HoldersFinite DEF IndInv, CountInv
  <2> QED BY <2>1, <2>2
<1>4. CASE QuiesceHandOff
  BY <1>a, <1>b, <1>4 DEF QuiesceHandOff, CPUs
<1>5. CASE SyncPrompt \/ SyncExit \/ SyncConsume \/ SyncDone
  BY <1>b, <1>5 DEF SyncPrompt, SyncExit, SyncConsume, SyncDone
<1>6. CASE TxgSyncStart
  BY <1>b, <1>6 DEF TxgSyncStart, IndInv, ThreadInv
<1>7. CASE \E t \in Txs :
             \/ \E c \in CPUs : TxgHoldOpen(t, c)
             \/ TxgHoldCount(t) \/ TxgDelay(t) \/ TxgDelayEnd(t)
             \/ TxgReleToQuiesce(t) \/ TxgRegisterCallbacks(t)
  BY <1>a, <1>b, <1>7 DEF TxgHoldOpen, TxgHoldCount, TxgDelay, TxgDelayEnd,
                          TxgReleToQuiesce, TxgRegisterCallbacks
<1>8. CASE \E t \in Txs : TxgReleToSync(t)
  <2> PICK t \in Txs : TxgReleToSync(t)
    BY <1>8
  <2>1. /\ UNCHANGED <<th_txg, tx_open_txg, q_cpu>>
        /\ th_st' = [th_st EXCEPT ![t] = "done"]
        /\ th_cpu' = [th_cpu EXCEPT ![t] = NoCpu]
        /\ q_pc' = q_pc \/ (q_pc = "tc_cv" /\ q_pc' = "drain")
    BY DEF TxgReleToSync
  <2> QED BY <1>a, <1>b, <2>1
<1>9. CASE UNCHANGED <<pipeVars, cpuVars, thVars, q_pc, q_cpu, s_pc, tx_threads>>
  BY <1>b, <1>9
<1> QED BY CoreFrame, <1>1, <1>2, <1>3, <1>4, <1>5, <1>6, <1>7, <1>8, <1>9
        DEF CoreStep

-----------------------------------------------------------------------------
(* Types.                                                                  *)
CvTypeOK == cv \in [CVs -> SUBSET Threads]

LEMMA CvTypeStep ==
    ASSUME CvTypeOK, [Next]_vars
    PROVE  CvTypeOK'
<1>a. /\ "quiesce" \in Threads /\ "sync" \in Threads
      /\ Txs \subseteq Threads /\ Waiters \subseteq Threads
  BY DEF Threads
<1>b. ASSUME NEW t \in Threads, NEW c, NEW cs,
             \/ cv' = Sleep(c, t, cv)
             \/ cv' = Broadcast(cs, cv)
             \/ cv' = Sleep(c, t, Broadcast(cs, cv))
             \/ cv' = [cv EXCEPT ![c] = @ \ {t}]
             \/ cv' = cv
      PROVE  CvTypeOK'
  <2>1. Broadcast(cs, cv) \in [CVs -> SUBSET Threads]
    BY DEF CvTypeOK, Broadcast
  <2>2. ASSUME NEW f \in [CVs -> SUBSET Threads]
        PROVE  /\ [f EXCEPT ![c] = @ \cup {t}] \in [CVs -> SUBSET Threads]
               /\ [f EXCEPT ![c] = @ \ {t}] \in [CVs -> SUBSET Threads]
    OBVIOUS
  <2> QED BY <1>b, <2>1, <2>2 DEF CvTypeOK, Sleep
<1>1. CASE QuiesceThread
  BY <1>1, <1>a, <1>b DEF QuiesceThread, QuiesceWait, QuiesceExit,
       QuiesceStart, QuiesceLock, QuiesceOpenNext, QuiesceDrain,
       QuiesceHandOff
<1>2. CASE SyncThread \/ SyncTimeout
  BY <1>2, <1>a, <1>b DEF SyncThread, SyncWait, SyncPrompt, SyncExit,
       SyncConsume, SyncDone, SyncTimeout
<1>3. CASE \E t \in Txs : TxStep(t) \/ TxgDoCallbacks(t)
  BY <1>3, <1>a, <1>b DEF TxStep, TxgHoldCount, TxgDelayEnd,
       TxgReleToQuiesce, TxgReleToSync, TxgDoCallbacks
<1>4. CASE \E w \in Waiters : WaiterStep(w)
  BY <1>4, <1>a, <1>b DEF WaiterStep, StopThreads, StopJoin, StopWaitSynced,
       WaitSyncedWake, WaitOpenWake, SyncedLoop, OpenLoop
<1>5. CASE Call
  <2>1. CASE TxgSyncStart \/ TxgFini \/ TxgKick
    BY <2>1, <1>a, <1>b DEF TxgSyncStart, TxgFini, TxgKick
  <2>2. CASE \E t \in Txs :
               \/ \E c \in CPUs : TxgHoldOpen(t, c)
               \/ TxgDelay(t) \/ TxgDelayAgain(t) \/ TxgRegisterCallbacks(t)
    BY <2>2, <1>a, <1>b DEF TxgHoldOpen, TxgDelay, TxgDelayAgain,
         TxgRegisterCallbacks
  <2>3. CASE \E w \in Waiters :
               \/ TxgSyncStop(w)
               \/ \E arg \in WaitArgs : TxgWaitSynced(w, arg)
               \/ \E arg \in WaitArgs : TxgWaitOpen(w, arg)
    BY <2>3, <1>a, <1>b DEF TxgSyncStop, TxgWaitSynced, TxgWaitOpen,
         SyncedLoop, OpenLoop
  <2> QED BY <1>5, <2>1, <2>2, <2>3 DEF Call
<1>6. CASE UNCHANGED vars
  BY <1>6 DEF vars, CvTypeOK
<1> QED BY <1>1, <1>2, <1>3, <1>4, <1>5, <1>6 DEF Next, Terminated

LEMMA TypeStep ==
    ASSUME TypeOK, IndInv, [Next]_vars
    PROVE  TypeOK'
<1> USE TxgAssumption
<1>a. cv' \in [CVs -> SUBSET Threads]
  BY CvTypeStep DEF CvTypeOK, TypeOK
<1>1. CASE QuiesceWait
  BY <1>a, <1>1 DEF QuiesceWait, TypeOK
<1>2. CASE QuiesceExit
  BY <1>a, <1>2 DEF QuiesceExit, QuiesceAwake, TypeOK, IndInv, ThreadInv
<1>3. CASE QuiesceStart
  BY <1>a, <1>3 DEF QuiesceStart, TypeOK
<1>4. CASE QuiesceLock
  <2>1. tc_open_lock' \in [CPUs -> {Free, "quiesce"} \cup Txs]
    BY <1>4 DEF QuiesceLock, TypeOK
  <2>2. q_cpu' \in 1 .. NCPU + 1
    <3>1. q_cpu \in 1 .. NCPU + 1 /\ q_cpu <= NCPU /\ q_cpu' = q_cpu + 1
      BY <1>4 DEF QuiesceLock, TypeOK
    <3> QED BY <3>1
  <2> QED BY <1>4, <2>1, <2>2 DEF QuiesceLock, TypeOK
<1>5. CASE QuiesceOpenNext
  BY <1>a, <1>5 DEF QuiesceOpenNext, TypeOK
<1>6. CASE QuiesceDrain
  BY <1>a, <1>6 DEF QuiesceDrain, TypeOK
<1>7. CASE QuiesceHandOff
  BY <1>a, <1>7 DEF QuiesceHandOff, TypeOK
<1>8. CASE SyncWait
  BY <1>a, <1>8 DEF SyncWait, TypeOK
<1>9. CASE SyncPrompt
  BY <1>a, <1>9 DEF SyncPrompt, Raise, TypeOK
<1>10. CASE SyncExit
  BY <1>a, <1>10 DEF SyncExit, SyncReady, SyncAwake1, SyncAwake2, TypeOK, IndInv,
               ThreadInv
<1>11. CASE SyncConsume
  BY <1>a, <1>11 DEF SyncConsume, TypeOK
<1>12. CASE SyncDone
  <2>1. Slot(tx_syncing_txg) \in Slots
    BY SlotType DEF TypeOK
  <2>2. Listed(Slot(tx_syncing_txg)) \in SUBSET Txs
    BY <2>1 DEF Listed, TypeOK
  <2>3. Unlisted(Slot(tx_syncing_txg)) \in [CPUs -> [Slots -> SUBSET Txs]]
    BY <2>1 DEF Unlisted, TypeOK
  <2>4. s_due' \in BOOLEAN
    <3>1. (tx_open_txg < MaxTxg) \in BOOLEAN
      OBVIOUS
    <3> QED BY <1>12, <3>1, Zenon DEF SyncDone
  <2> QED BY <1>a, <1>12, <2>2, <2>3, <2>4 DEF SyncDone, TypeOK
<1>13. CASE SyncTimeout
  BY <1>a, <1>13 DEF SyncTimeout, TypeOK
<1>14. ASSUME NEW t \in Txs, NEW c \in CPUs, TxgHoldOpen(t, c)
       PROVE  TypeOK'
  BY <1>a, <1>14 DEF TxgHoldOpen, TypeOK, TxStates
<1>15. ASSUME NEW t \in Txs, TxgHoldCount(t)
       PROVE  TypeOK'
  <2>1. th_cpu[t] \in CPUs /\ HandleSlot(t) \in Slots
    BY <1>15, SlotType DEF TxgHoldCount, IndInv, LockInv, Active, HandleSlot,
                           TypeOK
  <2> QED BY <1>a, <1>15, <2>1 DEF TxgHoldCount, TypeOK, TxStates
<1>16. ASSUME NEW t \in Txs,
              TxgDelay(t) \/ TxgDelayEnd(t) \/ TxgDelayAgain(t)
       PROVE  TypeOK'
  BY <1>a, <1>16 DEF TxgDelay, TxgDelayEnd, TxgDelayAgain, TypeOK, TxStates
<1>17. ASSUME NEW t \in Txs, TxgReleToQuiesce(t)
       PROVE  TypeOK'
  BY <1>a, <1>17 DEF TxgReleToQuiesce, TypeOK, TxStates
<1>18. ASSUME NEW t \in Txs, TxgRegisterCallbacks(t)
       PROVE  TypeOK'
  <2>1. th_cpu[t] \in CPUs /\ HandleSlot(t) \in Slots
    BY <1>18, SlotType DEF TxgRegisterCallbacks, IndInv, LockInv, Active,
                           HandleSlot, TypeOK
  <2> QED BY <1>a, <1>18, <2>1 DEF TxgRegisterCallbacks, TypeOK, TxStates
<1>19. ASSUME NEW t \in Txs, TxgReleToSync(t)
       PROVE  TypeOK'
  <2>1. PICK c0 \in CPUs, g0 \in Slots : c0 = th_cpu[t] /\ g0 = HandleSlot(t)
    BY <1>19, SlotType DEF TxgReleToSync, IndInv, LockInv, Active, HandleSlot,
                           TypeOK
  <2>2. t \in Holders(c0, g0)
    BY <1>19, <2>1 DEF TxgReleToSync, Holders, Counted, Active
  <2>3. tc_count[c0][g0] \in Nat \ {0}
    BY <2>1, <2>2, HoldersFinite DEF IndInv, CountInv
  <2>4. tc_count' \in [CPUs -> [Slots -> Nat]]
    <3>1. tc_count' = [tc_count EXCEPT ![c0][g0] = @ - 1]
      BY <1>19, <2>1 DEF TxgReleToSync
    <3>2. tc_count[c0][g0] - 1 \in Nat
      BY <2>3
    <3> QED BY <3>1, <3>2 DEF TypeOK
  <2>5. q_pc' \in {q_pc, "drain"}
    BY <1>19 DEF TxgReleToSync
  <2>6. th_st' \in [Txs -> TxStates] /\ th_cpu' \in [Txs -> CPUs \cup {NoCpu}]
    BY <1>19 DEF TxgReleToSync, TypeOK, TxStates
  <2>7. UNCHANGED <<pipeVars, askVars, lifeVars, tc_open_lock, tc_callbacks,
                    cv, th_txg, cbVars, q_cpu, sVars, wVars>>
    BY <1>19 DEF TxgReleToSync
  <2> QED BY <1>a, <2>4, <2>5, <2>6, <2>7 DEF TypeOK
<1>20. ASSUME NEW t \in Txs, TxgDoCallbacks(t)
       PROVE  TypeOK'
  BY <1>a, <1>20 DEF TxgDoCallbacks, TypeOK
<1>21. CASE TxgSyncStart \/ TxgFini
  BY <1>a, <1>21 DEF TxgSyncStart, TxgFini, TypeOK
<1>22. CASE TxgKick
  BY <1>a, <1>22 DEF TxgKick, TypeOK
<1>23. ASSUME NEW w \in Waiters, TxgSyncStop(w) \/ StopThreads(w) \/ StopJoin(w)
       PROVE  TypeOK'
  <2>1. CASE TxgSyncStop(w)
    BY <1>a, <2>1 DEF TxgSyncStop, StopTarget, TXG_DEFER_SIZE, TypeOK, WaitOps
  <2>2. CASE StopThreads(w)
    BY <1>a, <2>2 DEF StopThreads, TypeOK, WaitOps
  <2>3. CASE StopJoin(w)
    BY <1>a, <2>3 DEF StopJoin, TypeOK, WaitOps
  <2> QED BY <1>23, <2>1, <2>2, <2>3
<1>24. ASSUME NEW w \in Waiters, NEW txg \in Nat, NEW op \in WaitOps,
              SyncedLoop(w, txg, op) \/ OpenLoop(w, txg)
       PROVE  /\ w_txg' \in [Waiters -> Nat]
              /\ w_op' \in [Waiters -> WaitOps]
  BY <1>a, <1>24 DEF SyncedLoop, OpenLoop, TypeOK, WaitOps
<1>25. ASSUME NEW w \in Waiters, StopWaitSynced(w) \/ WaitSyncedWake(w)
       PROVE  TypeOK'
  BY <1>a, <1>24, <1>25 DEF StopWaitSynced, WaitSyncedWake, Raise, TypeOK, WaitOps
<1>26. ASSUME NEW w \in Waiters, WaitOpenWake(w)
       PROVE  TypeOK'
  BY <1>a, <1>24, <1>26 DEF WaitOpenWake, TypeOK, WaitOps
<1>27. ASSUME NEW w \in Waiters, NEW arg \in WaitArgs,
              TxgWaitSynced(w, arg) \/ TxgWaitOpen(w, arg)
       PROVE  TypeOK'
  BY <1>a, <1>24, <1>27 DEF TxgWaitSynced, TxgWaitOpen, TXG_DEFER_SIZE, Raise, TypeOK,
                      WaitOps
<1>28. CASE UNCHANGED vars
  BY <1>a, <1>28 DEF vars, TypeOK
<1> QED
  BY <1>1, <1>2, <1>3, <1>4, <1>5, <1>6, <1>7, <1>8, <1>9, <1>10, <1>11,
     <1>12, <1>13, <1>14, <1>15, <1>16, <1>17, <1>18, <1>19, <1>20, <1>21,
     <1>22, <1>23, <1>25, <1>26, <1>27, <1>28
  DEF Next, QuiesceThread, SyncThread, TxStep, WaiterStep, Call, Terminated

-----------------------------------------------------------------------------
LEMMA InitInv == Init => TypeOK /\ IndInv
<1> SUFFICES ASSUME Init
             PROVE  TypeOK /\ IndInv
  OBVIOUS
<1> USE TxgAssumption
<1>1. TypeOK
  <2>1. /\ tc_open_lock \in [CPUs -> {Free, "quiesce"} \cup Txs]
        /\ tc_count \in [CPUs -> [Slots -> Nat]]
        /\ tc_callbacks \in [CPUs -> [Slots -> SUBSET Txs]]
        /\ cv \in [CVs -> SUBSET Threads]
    BY DEF Init
  <2>2. /\ th_st \in [Txs -> TxStates]
        /\ th_cpu \in [Txs -> CPUs \cup {NoCpu}]
        /\ th_txg \in [Txs -> Nat]
        /\ w_op \in [Waiters -> WaitOps]
        /\ w_txg \in [Waiters -> Nat]
    BY DEF Init, TxStates, WaitOps
  <2>3. /\ tx_open_txg \in Nat /\ tx_quiescing_txg = 0 /\ tx_quiesced_txg = 0
        /\ tx_syncing_txg = 0 /\ tx_synced_txg = 0
        /\ tx_sync_txg_waiting = 0 /\ tx_quiesce_txg_waiting = 0
        /\ tx_threads = 0 /\ tx_exiting = FALSE
    BY DEF Init
  <2>4. /\ cb_taskq = {} /\ cb_called = {} /\ pool = "loading"
        /\ q_pc = "off" /\ q_cpu = 1 /\ s_pc = "off" /\ s_due = FALSE
    BY DEF Init
  <2>5. tx_threads \in 0 .. 2 /\ q_cpu \in 1 .. NCPU + 1
    BY <2>3, <2>4
  <2>6. /\ tx_exiting \in BOOLEAN /\ s_due \in BOOLEAN
        /\ cb_taskq \in SUBSET Txs /\ cb_called \in SUBSET Txs
    BY <2>3, <2>4
  <2> QED BY <2>1, <2>2, <2>3, <2>4, <2>5, <2>6 DEF TypeOK
<1>2. ThreadInv /\ LockInv /\ HoldsKeepGroup
  BY ThreadAssumption DEF Init, ThreadInv, LockInv, HoldsKeepGroup, Active,
       OwnsLock, Free
<1>3. PipeInv
  BY DEF Init, PipeInv, Draining, Front, Last
<1>4. CountInv
  <2>1. \A c, g : Holders(c, g) = {}
    BY DEF Init, Holders, Counted, Active
  <2> QED BY <2>1, FS_EmptySet DEF Init, CountInv
<1> QED BY <1>1, <1>2, <1>3, <1>4 DEF IndInv

(* The inductive invariant holds in every reachable state.                 *)
LEMMA Invariance == Spec => [](TypeOK /\ IndInv)
<1>1. TypeOK /\ IndInv /\ [Next]_vars => TypeOK' /\ IndInv'
  BY TypeStep, ThreadStep, LockStep, PipeStep, CountStep, HoldsStep DEF IndInv
<1> QED BY InitInv, <1>1, PTL DEF Spec

(* Types: no count underflows and no thread is counted out twice.          *)
THEOREM TypeCorrect == Spec => []TypeOK
BY Invariance, PTL

(* For every number of CPUs, transactions and waiters, a group that a      *)
(* transaction holds is not handed to the sync thread.                     *)
THEOREM HoldsSafe == Spec => []HoldsKeepGroup
<1>1. IndInv => HoldsKeepGroup
  BY DEF IndInv
<1> QED BY Invariance, <1>1, PTL

(* The groups in the pipeline stay consecutive and at most three are live. *)
THEOREM PipelineSafe == Spec => []PipelineOrder
<1>1. TypeOK /\ IndInv => PipelineOrder
  BY TxgAssumption DEF TypeOK, IndInv, PipeInv, PipelineOrder, Draining,
       Front, Last, Raise, TXG_CONCURRENT_STATES
<1> QED BY Invariance, <1>1, PTL

(* The synced group's slot is free of live handles, so the walk of its     *)
(* callback lists in txg_dispatch_callbacks needs no lock.                 *)
THEOREM DispatchSafe == Spec => []DispatchNeedsNoLock
<1>1. ASSUME NEW a \in Nat, NEW b \in Nat, b = a - 1 \/ b = a - 2
      PROVE  Slot(a) # Slot(b)
  BY <1>1 DEF Slot, TXG_SIZE
<1>2. TypeOK /\ IndInv => DispatchNeedsNoLock
  <2> SUFFICES ASSUME TypeOK, IndInv, s_pc = "sync", NEW t \in Txs, Active(t)
               PROVE  Slot(th_txg[t]) # Slot(tx_syncing_txg)
    BY DEF DispatchNeedsNoLock
  <2>1. /\ tx_syncing_txg # 0
        /\ tx_syncing_txg = Front - 1
    BY TxgAssumption DEF TypeOK, IndInv, PipeInv, Last, Front
  <2>2. tx_syncing_txg = th_txg[t] - 1 \/ tx_syncing_txg = th_txg[t] - 2
    BY <2>1 DEF IndInv, HoldsKeepGroup, Front, TypeOK
  <2> QED BY <1>1, <2>2 DEF TypeOK
<1> QED BY Invariance, <1>2, PTL

-----------------------------------------------------------------------------
(***************************************************************************)
(* The pipeline implements TxgGroups: callbacks follow the sync of their   *)
(* group, and stopping the pool loses nothing.                             *)
(***************************************************************************)

(* A handle is in no group before it is opened, and then in one that was   *)
(* open at the time.                                                       *)
HandleInv ==
    \A t \in Txs :
        /\ th_st[t] = "new" => th_txg[t] = 0
        /\ th_st[t] # "new" => th_txg[t] \in TXG0 .. tx_open_txg

(* Where the callback of each transaction is.  One that is listed belongs  *)
(* to a transaction past its registration, and is on the list of its slot  *)
(* until the very sync of its group.                                       *)
PlaceInv ==
    /\ CallbacksFollowSync
    /\ \A c \in CPUs, g \in Slots : \A t \in tc_callbacks[c][g] :
         th_st[t] \in {"registered", "done"}
    /\ \A t \in Txs : th_st[t] = "registered" => HasCallback(t)

CallbackInv == HandleInv /\ PlaceInv

(* The steps that move a group, a handle or a callback.                    *)
GroupStep ==
    \/ QuiesceOpenNext
    \/ SyncDone
    \/ \E t \in Txs :
         \/ \E c \in CPUs : TxgHoldOpen(t, c)
         \/ TxgHoldCount(t) \/ TxgDelay(t) \/ TxgDelayEnd(t)
         \/ TxgReleToQuiesce(t) \/ TxgRegisterCallbacks(t)
         \/ TxgReleToSync(t) \/ TxgDoCallbacks(t)

groupVars == <<tx_open_txg, tx_synced_txg, thVars, tc_callbacks, cbVars>>

LEMMA GroupFrame ==
    ASSUME [Next]_vars
    PROVE  GroupStep \/ UNCHANGED groupVars
<1> USE DEF groupVars
<1>1. CASE QuiesceThread
  BY <1>1 DEF QuiesceThread, QuiesceWait, QuiesceExit, QuiesceStart,
       QuiesceLock, QuiesceDrain, QuiesceHandOff, GroupStep
<1>2. CASE SyncThread \/ SyncTimeout
  BY <1>2 DEF SyncThread, SyncWait, SyncPrompt, SyncExit, SyncConsume,
       SyncTimeout, GroupStep
<1>3. CASE \E t \in Txs : TxStep(t) \/ TxgDoCallbacks(t)
  BY <1>3 DEF TxStep, GroupStep
<1>4. CASE \E w \in Waiters : WaiterStep(w)
  BY <1>4 DEF WaiterStep, StopThreads, StopJoin, StopWaitSynced,
              WaitSyncedWake, WaitOpenWake
<1>5. CASE Call
  BY <1>5 DEF Call, TxgSyncStart, TxgFini, TxgKick, TxgDelayAgain, TxgSyncStop,
              TxgWaitSynced, TxgWaitOpen, GroupStep
<1>6. CASE UNCHANGED vars
  BY <1>6 DEF vars
<1> QED BY <1>1, <1>2, <1>3, <1>4, <1>5, <1>6 DEF Next, Terminated

(* What the sync thread knows when spa_sync is done: the syncing group is  *)
(* the one after tx_synced_txg, closed, and the only live group that uses  *)
(* its slot.                                                               *)
LEMMA SyncingGroup ==
    ASSUME TypeOK, IndInv, HandleInv, s_pc = "sync"
    PROVE  /\ tx_syncing_txg \in Nat /\ Slot(tx_syncing_txg) \in Slots
           /\ tx_syncing_txg = SyncedGroup + 1
           /\ tx_syncing_txg > tx_synced_txg
           /\ tx_syncing_txg < tx_open_txg
           /\ \A t \in Txs : th_txg[t] = tx_syncing_txg => th_st[t] = "done"
           /\ \A t \in Txs : /\ th_st[t] # "new"
                             /\ th_txg[t] > tx_synced_txg
                             => th_txg[t] >= tx_syncing_txg
           /\ \A t \in Txs : /\ th_st[t] # "new"
                             /\ th_txg[t] > tx_synced_txg
                             /\ Slot(th_txg[t]) = Slot(tx_syncing_txg)
                             => th_txg[t] = tx_syncing_txg
<1>a. /\ tx_open_txg \in Nat /\ tx_synced_txg \in Nat /\ tx_syncing_txg \in Nat
      /\ TXG0 \in Nat /\ TXG0 >= 4 /\ th_txg \in [Txs -> Nat]
  BY TxgAssumption DEF TypeOK
<1>1. /\ tx_syncing_txg # 0
      /\ tx_syncing_txg = tx_open_txg - 1 \/ tx_syncing_txg = tx_open_txg - 2
      /\ \/ tx_synced_txg = tx_syncing_txg - 1 /\ tx_synced_txg >= TXG0
         \/ tx_synced_txg = 0 /\ tx_syncing_txg = TXG0
  BY <1>a DEF IndInv, PipeInv, Front, Last
<1>2. ASSUME NEW t \in Txs, th_txg[t] = tx_syncing_txg
      PROVE  th_st[t] = "done"
  <2>1. th_st[t] # "new"
    BY <1>2, <1>1 DEF HandleInv
  <2>2. CASE Active(t)
    <3>1. Draining /\ tx_syncing_txg = tx_open_txg - 1
      BY <1>a, <1>1, <1>2, <2>2 DEF IndInv, HoldsKeepGroup
    <3> QED BY <3>1, <1>a, <1>1 DEF IndInv, PipeInv, Front, Last
  <2> QED BY <2>1, <2>2 DEF Active
<1>3. ASSUME NEW t \in Txs, th_st[t] # "new", th_txg[t] > tx_synced_txg
      PROVE  /\ th_txg[t] >= tx_syncing_txg
             /\ Slot(th_txg[t]) = Slot(tx_syncing_txg) => th_txg[t] = tx_syncing_txg
  <2>1. th_txg[t] >= TXG0 /\ th_txg[t] <= tx_open_txg /\ th_txg[t] \in Nat
    BY <1>3, <1>a DEF HandleInv
  <2>2. th_txg[t] >= tx_syncing_txg /\ th_txg[t] <= tx_syncing_txg + 2
    BY <1>a, <1>1, <1>3, <2>1
  <2>3. \A a, b \in Nat : a >= b /\ a <= b + 2 /\ a % 4 = b % 4 => a = b
    OBVIOUS
  <2> QED BY <1>a, <2>1, <2>2, <2>3 DEF Slot, TXG_SIZE
<1> QED BY <1>a, <1>1, <1>2, <1>3, SlotType DEF SyncedGroup
-----------------------------------------------------------------------------
(* Callbacks.                                                              *)
LEMMA HandleStep ==
    ASSUME TypeOK, IndInv, HandleInv, [Next]_vars
    PROVE  HandleInv'
<1>a. /\ tx_open_txg \in Nat /\ tx_open_txg >= TXG0 /\ TXG0 \in Nat
      /\ th_txg \in [Txs -> Nat] /\ th_st \in [Txs -> TxStates]
  BY TxgAssumption DEF TypeOK, IndInv, PipeInv
<1>1. CASE QuiesceOpenNext
  BY <1>a, <1>1 DEF QuiesceOpenNext, HandleInv
<1>2. CASE SyncDone
  BY <1>2 DEF SyncDone, HandleInv
<1>3. ASSUME NEW t \in Txs, NEW c \in CPUs, TxgHoldOpen(t, c)
      PROVE  HandleInv'
  BY <1>a, <1>3 DEF TxgHoldOpen, HandleInv
<1>4. ASSUME NEW t \in Txs,
             \/ TxgHoldCount(t) \/ TxgDelay(t) \/ TxgDelayEnd(t)
             \/ TxgReleToQuiesce(t) \/ TxgRegisterCallbacks(t)
             \/ TxgReleToSync(t)
      PROVE  HandleInv'
  <2>1. /\ UNCHANGED <<th_txg, tx_open_txg>>
        /\ \A u \in Txs : th_st'[u] = "new" <=> th_st[u] = "new"
    BY <1>a, <1>4 DEF TxgHoldCount, TxgDelay, TxgDelayEnd, TxgReleToQuiesce,
         TxgRegisterCallbacks, TxgReleToSync
  <2> QED BY <2>1 DEF HandleInv
<1>5. CASE UNCHANGED <<tx_open_txg, thVars>>
  BY <1>5 DEF HandleInv
<1> QED BY GroupFrame, <1>1, <1>2, <1>3, <1>4, <1>5
        DEF GroupStep, groupVars, TxgDoCallbacks

(* A step that leaves the callbacks and the group numbers alone keeps      *)
(* PlaceInv if it moves no transaction into or out of "registered".        *)
LEMMA PlaceFrame ==
    ASSUME PlaceInv, UNCHANGED <<tx_synced_txg, tc_callbacks>>,
           cb_taskq' \cup cb_called' = cb_taskq \cup cb_called,
           TypeOK,
           \A t \in Txs :
              /\ th_st[t] \in {"registered", "done"} =>
                   th_st'[t] = th_st[t] /\ th_txg'[t] = th_txg[t]
              /\ th_st'[t] = "registered" => th_st[t] = "registered"
    PROVE  PlaceInv'
<1>1. \A t : HasCallback(t)' <=> HasCallback(t)
  BY DEF HasCallback
<1>2. cb_taskq \cup cb_called \subseteq Txs
      /\ \A c \in CPUs, g \in Slots : tc_callbacks[c][g] \subseteq Txs
  BY DEF TypeOK
<1>3. CallbacksFollowSync'
  BY <1>2 DEF PlaceInv, CallbacksFollowSync, Slot
<1> QED BY <1>1, <1>2, <1>3 DEF PlaceInv

LEMMA PlaceStep ==
    ASSUME TypeOK, IndInv, HandleInv, PlaceInv, [Next]_vars
    PROVE  PlaceInv'
<1>a. /\ tx_open_txg \in Nat /\ tx_synced_txg \in Nat
      /\ th_txg \in [Txs -> Nat] /\ th_st \in [Txs -> TxStates]
      /\ tc_callbacks \in [CPUs -> [Slots -> SUBSET Txs]]
      /\ cb_taskq \subseteq Txs /\ cb_called \subseteq Txs
  BY DEF TypeOK
<1>1. CASE QuiesceOpenNext
  BY <1>1, PlaceFrame DEF QuiesceOpenNext
<1>2. CASE SyncDone
  <2> DEFINE s == Slot(tx_syncing_txg)
  <2>1. /\ s \in Slots
        /\ tx_syncing_txg > tx_synced_txg
        /\ \A t \in Txs : th_txg[t] = tx_syncing_txg => th_st[t] = "done"
        /\ \A t \in Txs : /\ th_st[t] # "new" /\ th_txg[t] > tx_synced_txg
                          => th_txg[t] >= tx_syncing_txg
        /\ \A t \in Txs : /\ th_st[t] # "new" /\ th_txg[t] > tx_synced_txg
                          /\ Slot(th_txg[t]) = s
                          => th_txg[t] = tx_syncing_txg
    BY <1>2, SyncingGroup DEF SyncDone
  <2>2. /\ tx_synced_txg' = tx_syncing_txg /\ tx_syncing_txg \in Nat
        /\ UNCHANGED <<th_st, th_txg, cb_called>>
        /\ cb_taskq' = cb_taskq \cup Listed(s)
        /\ tc_callbacks' = Unlisted(s)
    BY <1>2 DEF SyncDone, TypeOK
  <2>3. \A c \in CPUs, g \in Slots :
          tc_callbacks'[c][g] = IF g = s THEN {} ELSE tc_callbacks[c][g]
    BY <1>a, <2>1, <2>2 DEF Unlisted
  <2>4. \A t : t \in Listed(s) <=> \E c \in CPUs : t \in tc_callbacks[c][s]
    BY DEF Listed
  <2>5. \A c \in CPUs, g \in Slots : \A t \in tc_callbacks[c][g] :
          /\ t \in Txs /\ g = Slot(th_txg[t]) /\ th_txg[t] > tx_synced_txg
          /\ t \notin cb_taskq \cup cb_called
          /\ th_st[t] \in {"registered", "done"}
    BY <1>a DEF PlaceInv, CallbacksFollowSync
  <2>6. \A t \in Listed(s) : th_st[t] = "done" /\ th_txg[t] = tx_syncing_txg
    BY <2>1, <2>4, <2>5
  <2>7. \A t \in cb_taskq' \cup cb_called' :
          th_st'[t] = "done" /\ th_txg'[t] <= tx_synced_txg'
    <3>1. \A t \in cb_taskq \cup cb_called :
            th_st[t] = "done" /\ th_txg[t] <= tx_synced_txg /\ th_txg[t] \in Nat
      BY <1>a DEF PlaceInv, CallbacksFollowSync
    <3> QED BY <1>a, <2>1, <2>2, <2>6, <3>1
  <2>8. \A c \in CPUs, g \in Slots : \A t \in tc_callbacks'[c][g] :
          /\ g = Slot(th_txg'[t]) /\ th_txg'[t] > tx_synced_txg'
          /\ t \notin cb_taskq' \cup cb_called'
          /\ th_st'[t] \in {"registered", "done"}
    <3> SUFFICES ASSUME NEW c \in CPUs, NEW g \in Slots, g # s,
                        NEW t \in tc_callbacks[c][g]
                 PROVE  /\ th_txg[t] > tx_syncing_txg
                        /\ t \notin Listed(s)
      BY <2>2, <2>3, <2>5
    <3>1. t \in Txs /\ th_txg[t] >= tx_syncing_txg /\ th_txg[t] # tx_syncing_txg
      BY <2>1, <2>5
    <3>2. t \notin Listed(s)
      BY <2>6, <3>1
    <3>3. th_txg[t] \in Nat
      BY <1>a, <3>1
    <3>4. th_txg[t] > tx_syncing_txg
      BY <2>2, <3>1, <3>3
    <3> QED BY <3>2, <3>4
  <2>9. \A t : HasCallback(t) => HasCallback(t)'
    BY <2>2, <2>3, <2>4 DEF HasCallback
  <2> QED BY <2>2, <2>7, <2>8, <2>9 DEF PlaceInv, CallbacksFollowSync, Slot
<1>3. ASSUME NEW t \in Txs, NEW c \in CPUs, TxgHoldOpen(t, c)
      PROVE  PlaceInv'
  BY <1>a, <1>3, PlaceFrame DEF TxgHoldOpen
<1>4. ASSUME NEW t \in Txs,
             \/ TxgHoldCount(t) \/ TxgDelay(t) \/ TxgDelayEnd(t)
             \/ TxgReleToQuiesce(t)
      PROVE  PlaceInv'
  <2>1. UNCHANGED <<tx_synced_txg, tc_callbacks, cbVars, th_txg>>
    BY <1>4 DEF TxgHoldCount, TxgDelay, TxgDelayEnd, TxgReleToQuiesce
  <2>2. \A u \in Txs : u # t => th_st'[u] = th_st[u]
    BY <1>a, <1>4 DEF TxgHoldCount, TxgDelay, TxgDelayEnd, TxgReleToQuiesce
  <2>3. th_st[t] \notin {"registered", "done"} /\ th_st'[t] # "registered"
    BY <1>a, <1>4 DEF TxgHoldCount, TxgDelay, TxgDelayEnd, TxgReleToQuiesce
  <2> QED BY <2>1, <2>2, <2>3, PlaceFrame
<1>5. ASSUME NEW t \in Txs, TxgRegisterCallbacks(t)
      PROVE  PlaceInv'
  <2>1. PICK c0 \in CPUs, g0 \in Slots : c0 = th_cpu[t] /\ g0 = Slot(th_txg[t])
    BY <1>5, SlotType DEF TxgRegisterCallbacks, IndInv, LockInv, Active, TypeOK
  <2>2. /\ UNCHANGED <<tx_synced_txg, th_txg, cbVars>>
        /\ th_st[t] = "assigned"
        /\ th_st'[t] = "registered"
        /\ \A u \in Txs : u # t => th_st'[u] = th_st[u]
        /\ tc_callbacks' = [tc_callbacks EXCEPT ![c0][g0] = @ \cup {t}]
    BY <1>a, <1>5, <2>1 DEF TxgRegisterCallbacks, HandleSlot
  <2>3. \A c \in CPUs, g \in Slots :
          tc_callbacks'[c][g] = IF c = c0 /\ g = g0
                                THEN tc_callbacks[c][g] \cup {t}
                                ELSE tc_callbacks[c][g]
    BY <1>a, <2>1, <2>2
  <2>4. th_txg[t] > tx_synced_txg
    <3>1. th_txg[t] = tx_open_txg \/ (th_txg[t] = tx_open_txg - 1 /\ Draining)
      BY <2>2 DEF IndInv, HoldsKeepGroup, Active
    <3> QED BY <1>a, <3>1, TxgAssumption DEF IndInv, PipeInv, Front, Last, TypeOK
  <2>5. t \notin cb_taskq \cup cb_called
    BY <2>2 DEF PlaceInv, CallbacksFollowSync
  <2>6. \A u : HasCallback(u) => HasCallback(u)'
    BY <2>2, <2>3 DEF HasCallback
  <2>7. HasCallback(t)'
    BY <2>1, <2>3 DEF HasCallback
  <2>8. \A u \in cb_taskq' \cup cb_called' :
          th_st'[u] = "done" /\ th_txg'[u] <= tx_synced_txg'
    BY <1>a, <2>2, <2>5 DEF PlaceInv, CallbacksFollowSync
  <2>9. \A c \in CPUs, g \in Slots : \A u \in tc_callbacks'[c][g] :
          /\ g = Slot(th_txg'[u]) /\ th_txg'[u] > tx_synced_txg'
          /\ u \notin cb_taskq' \cup cb_called'
          /\ th_st'[u] \in {"registered", "done"}
    <3> SUFFICES ASSUME NEW c \in CPUs, NEW g \in Slots,
                        NEW u \in tc_callbacks'[c][g]
                 PROVE  /\ g = Slot(th_txg[u]) /\ th_txg[u] > tx_synced_txg
                        /\ u \notin cb_taskq \cup cb_called
                        /\ th_st'[u] \in {"registered", "done"}
      BY <2>2
    <3>1. CASE u \in tc_callbacks[c][g]
      BY <1>a, <2>2, <3>1 DEF PlaceInv, CallbacksFollowSync
    <3>2. CASE u = t /\ c = c0 /\ g = g0
      BY <2>1, <2>2, <2>4, <2>5, <3>2
    <3> QED BY <2>3, <3>1, <3>2
  <2> QED BY <2>2, <2>6, <2>7, <2>8, <2>9 DEF PlaceInv, CallbacksFollowSync, Slot
<1>6. ASSUME NEW t \in Txs, TxgReleToSync(t)
      PROVE  PlaceInv'
  <2>1. UNCHANGED <<tx_synced_txg, tc_callbacks, cbVars, th_txg>>
    BY <1>6 DEF TxgReleToSync
  <2>2. /\ \A u \in Txs : u # t => th_st'[u] = th_st[u]
        /\ th_st'[t] = "done"
    BY <1>a, <1>6 DEF TxgReleToSync
  <2>3. \A u : HasCallback(u)' <=> HasCallback(u)
    BY <2>1 DEF HasCallback
  <2> QED BY <1>a, <2>1, <2>2, <2>3 DEF PlaceInv, CallbacksFollowSync, Slot
<1>7. ASSUME NEW t \in Txs, TxgDoCallbacks(t)
      PROVE  PlaceInv'
  <2>1. cb_taskq' \cup cb_called' = cb_taskq \cup cb_called
    BY <1>7 DEF TxgDoCallbacks
  <2> QED BY <1>7, <2>1, PlaceFrame DEF TxgDoCallbacks
<1>8. CASE UNCHANGED groupVars
  BY <1>8, PlaceFrame DEF groupVars
<1> QED BY GroupFrame, <1>1, <1>2, <1>3, <1>4, <1>5, <1>6, <1>7, <1>8
        DEF GroupStep

LEMMA CallbackInvariance == Spec => [](TypeOK /\ IndInv /\ CallbackInv)
<1>1. Init => CallbackInv
  BY DEF Init, CallbackInv, HandleInv, PlaceInv, CallbacksFollowSync
<1>2. TypeOK /\ IndInv /\ CallbackInv /\ [Next]_vars => CallbackInv'
  BY HandleStep, PlaceStep DEF CallbackInv
<1> QED BY Invariance, <1>1, <1>2, PTL DEF Spec

(* A commit callback is queued exactly when its group reaches the disk,    *)
(* for every number of CPUs, transactions and groups: the four slots of    *)
(* TXG_SIZE are enough for the three live groups.                          *)
THEOREM CallbacksSafe == Spec => []CallbacksFollowSync
<1>1. CallbackInv => CallbacksFollowSync
  BY DEF CallbackInv, PlaceInv
<1> QED BY CallbackInvariance, <1>1, PTL

-----------------------------------------------------------------------------
(* The refinement.                                                         *)

(* Every step of the pipeline is a step of TxgGroups or leaves its         *)
(* variables alone.                                                        *)
LEMMA GroupsStep ==
    ASSUME TypeOK, IndInv, CallbackInv, CallbackInv', [Next]_vars
    PROVE  [Groups!GNext]_(Groups!gvars)
<1> DEFINE st == [t \in Txs |-> GroupState(t)]
           rel == cb_taskq \cup cb_called
<1>a. /\ tx_open_txg \in Nat /\ tx_synced_txg \in Nat
      /\ TXG0 \in Nat /\ TXG0 >= 4
      /\ th_txg \in [Txs -> Nat] /\ th_st \in [Txs -> TxStates]
      /\ tc_callbacks \in [CPUs -> [Slots -> SUBSET Txs]]
      /\ cb_taskq \subseteq Txs /\ cb_called \subseteq Txs
  BY TxgAssumption DEF TypeOK
<1>b. ASSUME UNCHANGED <<tx_open_txg, tx_synced_txg, th_txg>>,
             rel' = rel,
             \A t \in Txs : GroupState(t)' = GroupState(t)
      PROVE  UNCHANGED Groups!gvars
  BY <1>b DEF Groups!gvars, SyncedGroup
<1>c. ASSUME UNCHANGED tc_callbacks, rel' = rel
      PROVE  \A t : HasCallback(t)' <=> HasCallback(t)
  BY <1>c DEF HasCallback
<1>1. CASE QuiesceOpenNext
  <2>1. /\ UNCHANGED <<th_st, th_txg, tc_callbacks, cbVars, tx_synced_txg>>
        /\ tx_open_txg' = tx_open_txg + 1
        /\ q_pc = "lock"
    BY <1>1 DEF QuiesceOpenNext
  <2>2. UNCHANGED <<st, rel, SyncedGroup>>
    BY <2>1 DEF GroupState, HasCallback, SyncedGroup
  <2>3. tx_open_txg - SyncedGroup < 3
    BY <1>a, <2>1 DEF IndInv, PipeInv, Front, Last, Draining, SyncedGroup, TypeOK
  <2>4. Groups!Close
    BY <2>1, <2>2, <2>3 DEF Groups!Close, Groups!LiveGroups
  <2> QED BY <2>4 DEF Groups!GNext
<1>2. CASE SyncDone
  <2> DEFINE s == Slot(tx_syncing_txg)
  <2>1. /\ tx_syncing_txg \in Nat /\ s \in Slots
        /\ tx_syncing_txg = SyncedGroup + 1
        /\ tx_syncing_txg < tx_open_txg
        /\ tx_syncing_txg > tx_synced_txg
        /\ \A t \in Txs : th_txg[t] = tx_syncing_txg => th_st[t] = "done"
        /\ \A t \in Txs : /\ th_st[t] # "new" /\ th_txg[t] > tx_synced_txg
                          /\ Slot(th_txg[t]) = s
                          => th_txg[t] = tx_syncing_txg
    BY <1>2, SyncingGroup DEF SyncDone, CallbackInv
  <2>2. /\ tx_synced_txg' = tx_syncing_txg
        /\ UNCHANGED <<tx_open_txg, th_st, th_txg, cb_called>>
        /\ cb_taskq' = cb_taskq \cup Listed(s)
        /\ tc_callbacks' = Unlisted(s)
    BY <1>2 DEF SyncDone
  <2>3. \A c \in CPUs, g \in Slots :
          tc_callbacks'[c][g] = IF g = s THEN {} ELSE tc_callbacks[c][g]
    BY <1>a, <2>1, <2>2 DEF Unlisted
  <2>4. \A t : t \in Listed(s) <=> \E c \in CPUs : t \in tc_callbacks[c][s]
    BY DEF Listed
  <2>5. \A t : HasCallback(t)' <=> HasCallback(t)
    <3>1. \A t : HasCallback(t) => HasCallback(t)'
      BY <2>1, <2>2, <2>3, <2>4 DEF HasCallback
    <3>2. \A t : HasCallback(t)' => HasCallback(t)
      BY <2>1, <2>2, <2>3, <2>4 DEF HasCallback
    <3> QED BY <3>1, <3>2
  <2>6. st' = st
    BY <2>2, <2>5 DEF GroupState
  <2>7. SyncedGroup' = SyncedGroup + 1
    BY <1>a, <2>1, <2>2 DEF SyncedGroup
  <2>8. \A t \in Txs : th_txg[t] = SyncedGroup + 1 =>
          st[t] \in {"plain", "committed"}
    BY <2>1 DEF GroupState
  <2>9. \A t \in Txs : t \in Listed(s) =>
          st[t] = "committed" /\ th_txg[t] = SyncedGroup + 1
    <3> SUFFICES ASSUME NEW t \in Txs, NEW c \in CPUs, t \in tc_callbacks[c][s]
                 PROVE  st[t] = "committed" /\ th_txg[t] = SyncedGroup + 1
      BY <2>4
    <3>1. /\ s = Slot(th_txg[t]) /\ th_txg[t] > tx_synced_txg
          /\ th_st[t] \in {"registered", "done"}
      BY <2>1 DEF CallbackInv, PlaceInv, CallbacksFollowSync
    <3>2. th_txg[t] = tx_syncing_txg /\ th_st[t] = "done"
      BY <2>1, <3>1
    <3>3. HasCallback(t)
      BY <2>1 DEF HasCallback
    <3> QED BY <2>1, <3>2, <3>3 DEF GroupState
  <2>10. \A t \in Txs : st[t] = "committed" /\ th_txg[t] = SyncedGroup + 1 =>
           t \in rel \cup Listed(s)
    <3> SUFFICES ASSUME NEW t \in Txs, st[t] = "committed",
                        th_txg[t] = SyncedGroup + 1, t \notin rel
                 PROVE  t \in Listed(s)
      OBVIOUS
    <3>1. HasCallback(t)
      BY DEF GroupState
    <3>2. PICK c \in CPUs, g \in Slots : t \in tc_callbacks[c][g]
      BY <3>1 DEF HasCallback
    <3>3. g = s
      BY <2>1, <3>2 DEF CallbackInv, PlaceInv, CallbacksFollowSync
    <3> QED BY <2>4, <3>2, <3>3
  <2>11. Listed(s) \subseteq Txs
    BY <1>a, <2>1, <2>4
  <2>12. rel' = rel \cup
           {t \in Txs : st[t] = "committed" /\ th_txg[t] = SyncedGroup + 1}
    <3>1. rel' = rel \cup Listed(s)
      BY <2>2
    <3>2. rel' \subseteq rel \cup
           {t \in Txs : st[t] = "committed" /\ th_txg[t] = SyncedGroup + 1}
      BY <2>9, <2>11, <3>1
    <3>3. {t \in Txs : st[t] = "committed" /\ th_txg[t] = SyncedGroup + 1}
          \subseteq rel'
      BY <2>10, <3>1
    <3>4. rel \subseteq rel'
      BY <3>1
    <3> QED BY <3>2, <3>3, <3>4
  <2>13. SyncedGroup + 1 < tx_open_txg
    BY <2>1
  <2>14. Groups!Sync
    BY <2>2, <2>6, <2>7, <2>8, <2>12, <2>13 DEF Groups!Sync
  <2> QED BY <2>14 DEF Groups!GNext
<1>3. ASSUME NEW t \in Txs, NEW c \in CPUs, TxgHoldOpen(t, c)
      PROVE  Groups!GNext
  <2>1. /\ UNCHANGED <<tx_open_txg, tx_synced_txg, tc_callbacks, cbVars>>
        /\ th_st[t] = "new" /\ th_st' = [th_st EXCEPT ![t] = "opening"]
        /\ th_txg' = [th_txg EXCEPT ![t] = tx_open_txg]
    BY <1>3 DEF TxgHoldOpen
  <2>2. \A u : HasCallback(u)' <=> HasCallback(u)
    BY <1>c, <2>1
  <2>3. st[t] = "new" /\ st' = [st EXCEPT ![t] = "active"]
    BY <1>a, <2>1, <2>2 DEF GroupState
  <2>4. Groups!Join(t)
    BY <2>1, <2>3 DEF Groups!Join, SyncedGroup
  <2> QED BY <2>4 DEF Groups!GNext
<1>4. ASSUME NEW t \in Txs,
             \/ TxgHoldCount(t) \/ TxgDelay(t) \/ TxgDelayEnd(t)
             \/ TxgReleToQuiesce(t)
      PROVE  UNCHANGED Groups!gvars
  <2>1. UNCHANGED <<tx_open_txg, tx_synced_txg, th_txg, tc_callbacks, cbVars>>
    BY <1>4 DEF TxgHoldCount, TxgDelay, TxgDelayEnd, TxgReleToQuiesce
  <2>2. \A u \in Txs : u # t => th_st'[u] = th_st[u]
    BY <1>a, <1>4 DEF TxgHoldCount, TxgDelay, TxgDelayEnd, TxgReleToQuiesce
  <2>3. /\ th_st[t] \notin {"new", "registered", "done"}
        /\ th_st'[t] \notin {"new", "registered", "done"}
    BY <1>a, <1>4 DEF TxgHoldCount, TxgDelay, TxgDelayEnd, TxgReleToQuiesce
  <2>4. \A u : HasCallback(u)' <=> HasCallback(u)
    BY <1>c, <2>1
  <2>5. \A u \in Txs : GroupState(u)' = GroupState(u)
    BY <2>2, <2>3, <2>4 DEF GroupState
  <2> QED BY <1>b, <2>1, <2>5
<1>5. ASSUME NEW t \in Txs, TxgRegisterCallbacks(t)
      PROVE  Groups!GNext
  <2>1. PICK c0 \in CPUs, g0 \in Slots : c0 = th_cpu[t] /\ g0 = Slot(th_txg[t])
    BY <1>5, SlotType DEF TxgRegisterCallbacks, IndInv, LockInv, Active, TypeOK
  <2>2. /\ UNCHANGED <<tx_open_txg, tx_synced_txg, th_txg, cbVars>>
        /\ th_st[t] = "assigned"
        /\ th_st' = [th_st EXCEPT ![t] = "registered"]
        /\ tc_callbacks' = [tc_callbacks EXCEPT ![c0][g0] = @ \cup {t}]
    BY <1>5, <2>1 DEF TxgRegisterCallbacks, HandleSlot
  <2>3. \A c \in CPUs, g \in Slots : \A u \in Txs : u # t =>
          (u \in tc_callbacks'[c][g] <=> u \in tc_callbacks[c][g])
    BY <1>a, <2>1, <2>2
  <2>4. \A u \in Txs : u # t => (HasCallback(u)' <=> HasCallback(u))
    BY <2>2, <2>3 DEF HasCallback
  <2>5. st[t] = "active" /\ st' = [st EXCEPT ![t] = "callback"]
    BY <1>a, <2>2, <2>4 DEF GroupState
  <2>6. Groups!Register(t)
    BY <2>2, <2>5 DEF Groups!Register, SyncedGroup
  <2> QED BY <2>6 DEF Groups!GNext
<1>6. ASSUME NEW t \in Txs, TxgReleToSync(t)
      PROVE  Groups!GNext
  <2>1. /\ UNCHANGED <<tx_open_txg, tx_synced_txg, th_txg, tc_callbacks, cbVars>>
        /\ th_st[t] \in {"assigned", "unassign", "registered"}
        /\ th_st' = [th_st EXCEPT ![t] = "done"]
    BY <1>6 DEF TxgReleToSync
  <2>2. \A u : HasCallback(u)' <=> HasCallback(u)
    BY <1>c, <2>1
  <2>3. th_st[t] # "registered" => ~HasCallback(t)
    BY <2>1 DEF HasCallback, CallbackInv, PlaceInv, CallbacksFollowSync
  <2>4. th_st[t] = "registered" => HasCallback(t)
    BY DEF CallbackInv, PlaceInv
  <2>5. \/ st[t] = "active" /\ st' = [st EXCEPT ![t] = "plain"]
        \/ st[t] = "callback" /\ st' = [st EXCEPT ![t] = "committed"]
    BY <1>a, <2>1, <2>2, <2>3, <2>4 DEF GroupState
  <2>6. Groups!Commit(t)
    BY <2>1, <2>5 DEF Groups!Commit, SyncedGroup
  <2> QED BY <2>6 DEF Groups!GNext
<1>7. ASSUME NEW t \in Txs, TxgDoCallbacks(t)
      PROVE  UNCHANGED Groups!gvars
  <2>1. /\ UNCHANGED <<tx_open_txg, tx_synced_txg, th_txg, th_st, tc_callbacks>>
        /\ rel' = rel
    BY <1>7 DEF TxgDoCallbacks
  <2>2. \A u : HasCallback(u)' <=> HasCallback(u)
    BY <1>c, <2>1
  <2> QED BY <1>b, <2>1, <2>2 DEF GroupState
<1>8. CASE UNCHANGED groupVars
  <2>1. \A u : HasCallback(u)' <=> HasCallback(u)
    BY <1>c, <1>8 DEF groupVars
  <2> QED BY <1>b, <1>8, <2>1 DEF GroupState, groupVars
<1> QED BY GroupFrame, <1>1, <1>2, <1>3, <1>4, <1>5, <1>6, <1>7, <1>8
        DEF GroupStep

(* Every behaviour of the pipeline of txg.c is one of TxgGroups, whatever  *)
(* the number of CPUs, transactions and waiting threads.                   *)
THEOREM TxgImplementsGroups == Spec => ImplementsGroups
<1>1. Init => Groups!GInit
  <2> SUFFICES ASSUME Init PROVE Groups!GInit
    OBVIOUS
  <2>1. \A t \in Txs : GroupState(t) = "new"
    BY DEF Init, GroupState
  <2> QED BY <2>1 DEF Init, Groups!GInit, SyncedGroup
<1>2. TypeOK /\ IndInv /\ CallbackInv /\ CallbackInv' /\ [Next]_vars
        => [Groups!GNext]_(Groups!gvars)
  BY GroupsStep
<1> QED BY CallbackInvariance, <1>1, <1>2, PTL
        DEF Spec, ImplementsGroups, Groups!GSpec

-----------------------------------------------------------------------------
(* What stopping the pool relies on.  Once txg_sync_stop has been called   *)
(* nobody holds a group; the group it waits for is no earlier than any     *)
(* transaction's, and when its wait is over every group used is on disk.   *)
StopOps == {"stop", "stopsync", "stopexit"}
StopInv ==
    /\ pool \in {"exporting", "stopped", "destroyed"} => \A t \in Txs : ~Active(t)
    /\ \A w \in Waiters : w_op[w] \in StopOps =>
         /\ pool = "exporting"
         /\ \A v \in Waiters : v # w => w_op[v] = "none"
    /\ \A w \in Waiters : w_op[w] \in {"stop", "stopsync"} =>
         \A t \in Txs : th_txg[t] <= w_txg[w]
    /\ \A w \in Waiters : w_op[w] = "stopexit" =>
         \A t \in Txs : th_txg[t] <= tx_synced_txg
    /\ pool \in {"stopped", "destroyed"} =>
         \A t \in Txs : th_txg[t] <= tx_synced_txg

LEMMA StopStep ==
    ASSUME TypeOK, IndInv, HandleInv, StopInv, [Next]_vars
    PROVE  StopInv'
<1> USE DEF StopOps
<1>a. /\ tx_open_txg \in Nat /\ tx_synced_txg \in Nat
      /\ th_txg \in [Txs -> Nat] /\ th_st \in [Txs -> TxStates]
      /\ w_op \in [Waiters -> WaitOps] /\ w_txg \in [Waiters -> Nat]
  BY DEF TypeOK
(* A transaction that is already in its group moves on.                    *)
<1>1. ASSUME NEW t \in Txs,
             \/ TxgHoldCount(t) \/ TxgDelay(t) \/ TxgDelayEnd(t)
             \/ TxgReleToQuiesce(t) \/ TxgRegisterCallbacks(t)
             \/ TxgReleToSync(t)
      PROVE  StopInv'
  <2>1. UNCHANGED <<pool, wVars, th_txg, tx_synced_txg>>
    BY <1>1 DEF TxgHoldCount, TxgDelay, TxgDelayEnd, TxgReleToQuiesce,
         TxgRegisterCallbacks, TxgReleToSync
  <2>2. Active(t) /\ \A u \in Txs : u # t => th_st'[u] = th_st[u]
    BY <1>a, <1>1 DEF TxgHoldCount, TxgDelay, TxgDelayEnd, TxgReleToQuiesce,
         TxgRegisterCallbacks, TxgReleToSync, Active
  <2>3. pool \notin {"exporting", "stopped", "destroyed"}
    BY <2>2 DEF StopInv
  <2> QED BY <2>1, <2>3 DEF StopInv
<1>2. ASSUME NEW t \in Txs, NEW c \in CPUs, TxgHoldOpen(t, c)
      PROVE  StopInv'
  <2>1. pool = "active" /\ UNCHANGED <<pool, wVars>>
    BY <1>2 DEF TxgHoldOpen
  <2> QED BY <2>1 DEF StopInv
<1>3. CASE SyncDone
  <2>1. UNCHANGED <<pool, wVars, thVars>> /\ tx_synced_txg' = tx_syncing_txg
    BY <1>3 DEF SyncDone
  <2>2. tx_syncing_txg \in Nat /\ tx_syncing_txg > tx_synced_txg
    BY <1>3, SyncingGroup DEF SyncDone
  <2>3. \A t \in Txs : th_txg[t] <= tx_synced_txg => th_txg'[t] <= tx_synced_txg'
    <3>1. ASSUME NEW t \in Txs, th_txg[t] <= tx_synced_txg
          PROVE  th_txg[t] <= tx_syncing_txg
      BY <1>a, <2>2, <3>1
    <3> QED BY <2>1, <3>1
  <2> QED BY <2>1, <2>3 DEF StopInv, Active
<1>4. ASSUME NEW w \in Waiters,
             \E arg \in WaitArgs : TxgWaitSynced(w, arg) \/ TxgWaitOpen(w, arg)
      PROVE  StopInv'
  <2>1. /\ pool = "active" /\ UNCHANGED <<pool, thVars, tx_synced_txg>>
        /\ w_op'[w] \in {"none", "synced", "open"}
        /\ \A v \in Waiters : v # w => w_op'[v] = w_op[v]
    BY <1>a, <1>4 DEF TxgWaitSynced, TxgWaitOpen, SyncedLoop, OpenLoop
  <2> QED BY <1>a, <2>1 DEF StopInv, Active
<1>5. ASSUME NEW w \in Waiters, TxgSyncStop(w)
      PROVE  StopInv'
  <2>1. /\ pool = "active" /\ pool' = "exporting" /\ UNCHANGED <<thVars, tx_synced_txg>>
        /\ \A t \in Txs : ~Active(t)
        /\ \A v \in Waiters : w_op[v] = "none"
        /\ w_op'[w] = "stop" /\ w_txg'[w] = tx_open_txg + 2
        /\ \A v \in Waiters : v # w => w_op'[v] = w_op[v]
    BY <1>a, <1>5 DEF TxgSyncStop, Idle, StopTarget, TXG_DEFER_SIZE
  <2>2. \A t \in Txs : th_txg'[t] <= w_txg'[w]
    <3>1. \A t \in Txs : th_txg[t] <= tx_open_txg
      BY <1>a, TxgAssumption DEF HandleInv
    <3> QED BY <1>a, <2>1, <3>1
  <2> QED BY <2>1, <2>2 DEF StopInv, Active
<1>6. ASSUME NEW w \in Waiters, StopWaitSynced(w)
      PROVE  StopInv'
  <2>1. /\ UNCHANGED <<pool, thVars, tx_synced_txg>>
        /\ w_op[w] = "stop" /\ w_op'[w] = "stopsync" /\ w_txg'[w] = w_txg[w]
        /\ \A v \in Waiters : v # w => w_op'[v] = w_op[v] /\ w_txg'[v] = w_txg[v]
    BY <1>a, <1>6 DEF StopWaitSynced, SyncedLoop
  <2> QED BY <1>a, <2>1 DEF StopInv, Active
<1>7. ASSUME NEW w \in Waiters, WaitSyncedWake(w) \/ WaitOpenWake(w)
      PROVE  StopInv'
  <2>1. /\ UNCHANGED <<pool, thVars, tx_synced_txg>>
        /\ w_op'[w] \in {"none", w_op[w]} /\ w_txg'[w] = w_txg[w]
        /\ \A v \in Waiters : v # w => w_op'[v] = w_op[v] /\ w_txg'[v] = w_txg[v]
    BY <1>a, <1>7 DEF WaitSyncedWake, WaitOpenWake, SyncedLoop, OpenLoop
  <2> QED BY <1>a, <2>1 DEF StopInv, Active
<1>8. ASSUME NEW w \in Waiters, StopThreads(w)
      PROVE  StopInv'
  <2>1. /\ UNCHANGED <<pool, thVars, tx_synced_txg, w_txg>>
        /\ w_op[w] = "stopsync" /\ w_op'[w] = "stopexit"
        /\ tx_synced_txg >= w_txg[w]
        /\ \A v \in Waiters : v # w => w_op'[v] = w_op[v]
    BY <1>a, <1>8 DEF StopThreads
  <2>2. \A t \in Txs : th_txg[t] <= tx_synced_txg
    <3> SUFFICES ASSUME NEW t \in Txs PROVE th_txg[t] <= tx_synced_txg
      OBVIOUS
    <3>1. th_txg[t] <= w_txg[w] /\ th_txg[t] \in Nat /\ w_txg[w] \in Nat
      BY <1>a, <2>1 DEF StopInv
    <3> QED BY <1>a, <2>1, <3>1
  <2> QED BY <2>1, <2>2 DEF StopInv, Active
<1>9. ASSUME NEW w \in Waiters, StopJoin(w)
      PROVE  StopInv'
  <2>1. /\ UNCHANGED <<thVars, tx_synced_txg, w_txg>>
        /\ w_op[w] = "stopexit"
        /\ \A v \in Waiters : v # w => w_op'[v] = w_op[v]
        /\ \/ UNCHANGED <<w_op, pool>>
           \/ w_op'[w] = "none" /\ pool' = "stopped"
    BY <1>a, <1>9 DEF StopJoin
  <2>2. /\ pool = "exporting"
        /\ \A v \in Waiters : v # w => w_op[v] = "none"
        /\ \A t \in Txs : th_txg[t] <= tx_synced_txg
    BY <2>1 DEF StopInv
  <2> QED BY <2>1, <2>2 DEF StopInv, Active
<1>10. CASE TxgSyncStart
  BY <1>10 DEF TxgSyncStart, StopInv, Active, IndInv, ThreadInv
<1>11. CASE TxgFini
  BY <1>11 DEF TxgFini, StopInv, Active
<1>12. CASE UNCHANGED <<pool, wVars, thVars, tx_synced_txg>>
  BY <1>12 DEF StopInv, Active
<1>13. CASE QuiesceThread
  BY <1>12, <1>13 DEF QuiesceThread, QuiesceWait, QuiesceExit, QuiesceStart,
       QuiesceLock, QuiesceOpenNext, QuiesceDrain, QuiesceHandOff
<1>14. CASE SyncWait \/ SyncPrompt \/ SyncExit \/ SyncConsume \/ SyncTimeout
  BY <1>12, <1>14 DEF SyncWait, SyncPrompt, SyncExit, SyncConsume, SyncTimeout
<1>15. ASSUME NEW t \in Txs, TxgDelayAgain(t) \/ TxgDoCallbacks(t)
       PROVE  StopInv'
  BY <1>12, <1>15 DEF TxgDelayAgain, TxgDoCallbacks
<1>16. CASE TxgKick
  BY <1>12, <1>16 DEF TxgKick
<1>17. CASE UNCHANGED vars
  BY <1>12, <1>17 DEF vars
<1> QED BY <1>1, <1>2, <1>3, <1>4, <1>5, <1>6, <1>7, <1>8, <1>9, <1>10, <1>11,
           <1>13, <1>14, <1>15, <1>16, <1>17
        DEF Next, SyncThread, TxStep, WaiterStep, Call, Terminated

LEMMA StopInvariance == Spec => [](TypeOK /\ IndInv /\ CallbackInv /\ StopInv)
<1>1. Init => StopInv
  BY DEF Init, StopInv, StopOps
<1>2. TypeOK /\ IndInv /\ CallbackInv /\ StopInv /\ [Next]_vars => StopInv'
  BY StopStep DEF CallbackInv
<1> QED BY CallbackInvariance, <1>1, <1>2, PTL DEF Spec

(* Once txg_sync_stop has returned every transaction is on disk and no     *)
(* hold or callback is left, though it waits for one group number only.    *)
THEOREM StopSafe == Spec => []StopLosesNothing
<1>1. TypeOK /\ IndInv /\ CallbackInv /\ StopInv => StopLosesNothing
  <2> SUFFICES ASSUME TypeOK, IndInv, CallbackInv, StopInv,
                      pool \in {"stopped", "destroyed"}
               PROVE  /\ \A t \in Txs : th_txg[t] <= tx_synced_txg
                      /\ \A c \in CPUs, g \in Slots :
                           tc_count[c][g] = 0 /\ tc_callbacks[c][g] = {}
    BY DEF StopLosesNothing
  <2>1. /\ \A t \in Txs : th_txg[t] <= tx_synced_txg
        /\ \A t \in Txs : ~Active(t)
    BY DEF StopInv
  <2>2. ASSUME NEW c \in CPUs, NEW g \in Slots
        PROVE  tc_count[c][g] = 0
    <3>1. Holders(c, g) = {}
      BY <2>1 DEF Holders, Counted
    <3> QED BY <3>1, HoldersFinite DEF IndInv, CountInv
  <2>3. ASSUME NEW c \in CPUs, NEW g \in Slots
        PROVE  tc_callbacks[c][g] = {}
    <3> SUFFICES ASSUME NEW t \in tc_callbacks[c][g] PROVE FALSE
      OBVIOUS
    <3>1. t \in Txs /\ th_txg[t] > tx_synced_txg
      BY DEF CallbackInv, PlaceInv, CallbacksFollowSync, TypeOK
    <3>2. th_txg[t] \in Nat /\ tx_synced_txg \in Nat
      BY <3>1 DEF TypeOK
    <3> QED BY <2>1, <3>1, <3>2
  <2> QED BY <2>1, <2>2, <2>3
<1> QED BY StopInvariance, <1>1, PTL

-----------------------------------------------------------------------------
(* Wakeups.  Each part says who sleeps on a condition variable, where its  *)
(* code then is, and that what it waits for is still to come.              *)
QuiesceSleep ==
    "quiesce" \in cv["quiesce_more"] =>
        q_pc = "wait" /\ QuiesceIdle /\ ~tx_exiting

SyncSleep ==
    /\ "sync" \in cv["sync_more"] => s_pc = "wait" /\ SyncIdle /\ ~tx_exiting
    /\ "sync" \in cv["quiesce_done"] =>
         /\ s_pc = "prompt" /\ tx_quiesced_txg = 0 /\ ~tx_exiting
         /\ TxgStalled \/ Draining

DrainSleep ==
    q_pc = "tc_cv" =>
        q_cpu \in CPUs /\ tc_count[q_cpu][Slot(tx_quiescing_txg)] # 0

DelaySleep ==
    \A t \in Txs : t \in cv["quiesce_more"] =>
        th_st[t] = "delay" /\ DelayCond(th_txg[t])

WaiterSleep ==
    \A w \in Waiters :
        /\ w_op[w] \in {"synced", "stopsync"} => w_txg[w] <= tx_sync_txg_waiting
        /\ w_op[w] = "open" => w_txg[w] <= tx_quiesce_txg_waiting
        /\ w \in cv["sync_done"] =>
             w_op[w] \in {"synced", "stopsync"} /\ tx_synced_txg < w_txg[w]
        /\ w \in cv["quiesce_done"] =>
             w_op[w] = "open" /\ (tx_open_txg < w_txg[w] \/ Draining)

(* Both threads run until txg_sync_stop tells them to exit; the last to go *)
(* wakes it.                                                               *)
ExitInv ==
    /\ pool \in {"active", "stopped", "destroyed", "loading"} => ~tx_exiting
    /\ pool \in {"active", "exporting"} /\ ~tx_exiting =>
         q_pc # "exited" /\ s_pc # "exited"
    /\ \A w \in Waiters :
         /\ w_op[w] \in {"stop", "stopsync"} => ~tx_exiting
         /\ w \in cv["exit"] => w_op[w] = "stopexit" /\ tx_threads # 0

WakeInv == QuiesceSleep /\ SyncSleep /\ DrainSleep /\ DelaySleep
           /\ WaiterSleep /\ ExitInv

LEMMA QuiesceSleepStep ==
    ASSUME TypeOK, IndInv, QuiesceSleep, [Next]_vars
    PROVE  QuiesceSleep'
<1> DEFINE qm == cv["quiesce_more"]
<1>a. /\ tx_open_txg \in Nat /\ tx_quiesced_txg \in Nat
      /\ tx_quiesce_txg_waiting \in Nat
      /\ cv \in [CVs -> SUBSET Threads]
  BY DEF TypeOK
<1>b. /\ "quiesce" \notin Txs /\ "quiesce" \notin Waiters
      /\ "quiesce_more" \in CVs /\ WaitArgs \subseteq Nat
  BY ThreadAssumption, TxgAssumption DEF CVs
<1>1. ASSUME "quiesce" \notin qm'
      PROVE  QuiesceSleep'
  BY <1>1 DEF QuiesceSleep
(* Whatever the step, if the thread slept before and nothing it waits for  *)
(* has moved against it, it may sleep on.                                  *)
<1>2. ASSUME "quiesce" \in qm' => "quiesce" \in qm,
             UNCHANGED <<tx_exiting, tx_quiesced_txg, tx_quiesce_txg_waiting>>,
             "quiesce" \in qm => q_pc' = q_pc,
             tx_open_txg' = tx_open_txg
      PROVE  QuiesceSleep'
  BY <1>2 DEF QuiesceSleep, QuiesceIdle
<1>3. CASE QuiesceWait
  BY <1>3 DEF QuiesceWait, QuiesceAwake, QuiesceIdle, QuiesceSleep
<1>4. CASE SyncPrompt \/ SyncConsume \/ TxgKick
           \/ \E w \in Waiters : StopThreads(w)
  BY <1>1, <1>4, <1>a, <1>b DEF Sleep, Broadcast, SyncPrompt, SyncConsume, TxgKick, StopThreads,
       ConsumeWakes
<1>5. CASE QuiesceExit \/ QuiesceStart \/ QuiesceLock \/ QuiesceOpenNext
           \/ QuiesceDrain \/ QuiesceHandOff
  <2>1. "quiesce" \notin qm
    BY <1>5 DEF QuiesceExit, QuiesceStart, QuiesceLock, QuiesceOpenNext,
         QuiesceDrain, QuiesceHandOff, QuiesceAwake, QuiesceSleep
  <2>2. qm' = qm
    BY <1>5, <1>a, <1>b DEF Sleep, Broadcast, QuiesceExit, QuiesceStart, QuiesceLock, QuiesceOpenNext,
         QuiesceDrain, QuiesceHandOff, HandOffWakes
  <2> QED BY <1>1, <2>1, <2>2
<1>6. CASE SyncWait \/ SyncExit \/ SyncDone \/ SyncTimeout
  <2>1. qm' = qm
    BY <1>6, <1>a, <1>b DEF Sleep, Broadcast, SyncWait, SyncExit, SyncDone, SyncTimeout
  <2> QED BY <1>2, <1>6, <2>1 DEF SyncWait, SyncExit, SyncDone, SyncTimeout
<1>7. ASSUME NEW t \in Txs,
             \/ TxgHoldCount(t) \/ TxgReleToQuiesce(t) \/ TxgRegisterCallbacks(t)
             \/ TxgDoCallbacks(t) \/ \E c \in CPUs : TxgHoldOpen(t, c)
      PROVE  QuiesceSleep'
  BY <1>2, <1>7 DEF TxgHoldCount, TxgReleToQuiesce, TxgRegisterCallbacks,
       TxgDoCallbacks, TxgHoldOpen
<1>8. ASSUME NEW t \in Txs, TxgDelay(t) \/ TxgDelayEnd(t) \/ TxgDelayAgain(t)
      PROVE  QuiesceSleep'
  <2>1. t # "quiesce"
    BY <1>b
  <2>2. "quiesce" \in qm' => "quiesce" \in qm
    BY <1>8, <1>a, <1>b, <2>1 DEF Sleep, Broadcast, TxgDelay, TxgDelayEnd, TxgDelayAgain
  <2> QED BY <1>2, <1>8, <2>2 DEF TxgDelay, TxgDelayEnd, TxgDelayAgain
<1>9. ASSUME NEW t \in Txs, TxgReleToSync(t)
      PROVE  QuiesceSleep'
  <2>1. UNCHANGED <<cv, tx_exiting, tx_quiesced_txg, tx_quiesce_txg_waiting, tx_open_txg>>
    BY <1>9 DEF TxgReleToSync
  <2>2. q_pc = "wait" => q_pc' = "wait"
    BY <1>9 DEF TxgReleToSync
  <2> QED BY <2>1, <2>2 DEF QuiesceSleep, QuiesceIdle
<1>10. ASSUME NEW w \in Waiters, StopWaitSynced(w) \/ WaitSyncedWake(w)
                \/ \E arg \in WaitArgs : TxgWaitSynced(w, arg)
       PROVE  QuiesceSleep'
  <2>1. qm' = qm
    BY <1>10, <1>a, <1>b DEF Sleep, Broadcast, StopWaitSynced, WaitSyncedWake, TxgWaitSynced,
         SyncedLoop
  <2> QED BY <1>2, <1>10, <2>1 DEF StopWaitSynced, WaitSyncedWake, TxgWaitSynced
<1>11. ASSUME NEW w \in Waiters, WaitOpenWake(w)
       PROVE  QuiesceSleep'
  <2>1. "quiesce" \in qm' => "quiesce" \in qm
    BY <1>11, <1>a, <1>b DEF Sleep, Broadcast, WaitOpenWake, OpenLoop
  <2> QED BY <1>2, <1>11, <2>1 DEF WaitOpenWake
<1>12. ASSUME NEW w \in Waiters, NEW arg \in WaitArgs, TxgWaitOpen(w, arg)
       PROVE  QuiesceSleep'
  <2> DEFINE txg == IF arg = 0 THEN tx_open_txg + 1 ELSE arg
  <2>1. CASE tx_open_txg < txg
    BY <1>1, <1>12, <1>a, <1>b, <2>1 DEF Sleep, Broadcast, TxgWaitOpen, OpenLoop
  <2>2. CASE ~(tx_open_txg < txg)
    <3>1. /\ UNCHANGED <<cv, tx_exiting, tx_quiesced_txg, tx_open_txg, q_pc>>
          /\ tx_quiesce_txg_waiting' = Raise(tx_quiesce_txg_waiting, txg)
          /\ txg \in Nat
      BY <1>12, <1>a, <1>b, <2>2 DEF TxgWaitOpen, OpenLoop
    <3>2. tx_quiesce_txg_waiting <= tx_open_txg =>
            tx_quiesce_txg_waiting' <= tx_open_txg
      BY <1>a, <2>2, <3>1 DEF Raise
    <3> QED BY <1>a, <3>1, <3>2 DEF QuiesceSleep, QuiesceIdle
  <2> QED BY <2>1, <2>2
<1>13. ASSUME NEW w \in Waiters, StopJoin(w)
       PROVE  QuiesceSleep'
  <2>1. qm' = qm /\ (tx_exiting' = tx_exiting \/ ~tx_exiting')
    BY <1>13, <1>a, <1>b DEF Sleep, Broadcast, StopJoin
  <2> QED BY <1>13, <2>1 DEF StopJoin, QuiesceSleep, QuiesceIdle
<1>14. CASE TxgSyncStart \/ TxgFini \/ \E w \in Waiters : TxgSyncStop(w)
  BY <1>14 DEF TxgSyncStart, TxgFini, TxgSyncStop, QuiesceSleep, QuiesceIdle
<1>15. CASE UNCHANGED vars
  BY <1>2, <1>15 DEF vars
<1> QED BY <1>3, <1>4, <1>5, <1>6, <1>7, <1>8, <1>9, <1>10, <1>11, <1>12, <1>13,
           <1>14, <1>15
        DEF Next, QuiesceThread, SyncThread, TxStep, WaiterStep, Call, Terminated

LEMMA SyncSleepStep ==
    ASSUME TypeOK, IndInv, SyncSleep, [Next]_vars
    PROVE  SyncSleep'
<1> DEFINE sm == cv["sync_more"]
           qd == cv["quiesce_done"]
<1>a. /\ tx_open_txg \in Nat /\ tx_quiesced_txg \in Nat /\ tx_synced_txg \in Nat
      /\ tx_quiesce_txg_waiting \in Nat /\ tx_sync_txg_waiting \in Nat
      /\ cv \in [CVs -> SUBSET Threads] /\ w_txg \in [Waiters -> Nat]
  BY DEF TypeOK
<1>b. /\ "sync" \notin Txs /\ "sync" \notin Waiters
      /\ {"sync_more", "quiesce_done", "quiesce_more", "sync_done", "exit"} \subseteq CVs
      /\ WaitArgs \subseteq Nat
  BY ThreadAssumption, TxgAssumption DEF CVs
<1>1. ASSUME "sync" \notin sm', "sync" \notin qd'
      PROVE  SyncSleep'
  BY <1>1 DEF SyncSleep
<1>2. ASSUME "sync" \in sm' => "sync" \in sm,
             "sync" \in qd' => "sync" \in qd,
             UNCHANGED <<tx_exiting, tx_quiesced_txg, tx_synced_txg, s_pc, s_due,
                         tx_quiesce_txg_waiting, tx_sync_txg_waiting>>,
             tx_open_txg' = tx_open_txg, Draining => Draining'
      PROVE  SyncSleep'
  BY <1>2 DEF SyncSleep, SyncIdle, TxgStalled
<1>3. CASE QuiesceWait \/ QuiesceExit \/ QuiesceStart \/ QuiesceLock \/ QuiesceDrain
  <2>1. /\ sm' = sm /\ qd' = qd
        /\ UNCHANGED <<tx_exiting, tx_quiesced_txg, tx_synced_txg, s_pc, s_due,
                       tx_quiesce_txg_waiting, tx_sync_txg_waiting, tx_open_txg>>
    BY <1>3, <1>a, <1>b DEF Sleep, Broadcast, QuiesceWait, QuiesceExit,
         QuiesceStart, QuiesceLock, QuiesceDrain
  <2>2. Draining => Draining'
    BY <1>3 DEF QuiesceWait, QuiesceExit, QuiesceStart, QuiesceLock, QuiesceDrain,
         QuiesceAwake, Draining
  <2> QED BY <1>2, <2>1, <2>2
<1>4. CASE QuiesceOpenNext
  BY <1>4 DEF QuiesceOpenNext, SyncSleep, SyncIdle, Draining
<1>5. CASE QuiesceHandOff \/ \E w \in Waiters : StopThreads(w)
  <2>1. "sync" \notin sm'
    BY <1>5, <1>a, <1>b DEF Sleep, Broadcast, QuiesceHandOff, HandOffWakes, StopThreads
  <2>2. "sync" \notin qd'
    BY <1>5, <1>a, <1>b DEF Sleep, Broadcast, QuiesceHandOff, HandOffWakes, StopThreads
  <2> QED BY <1>1, <2>1, <2>2
<1>6. CASE SyncWait
  <2>1. qd' = qd /\ "sync" \notin qd
    BY <1>6, <1>a, <1>b DEF Sleep, SyncWait, SyncAwake1, SyncSleep
  <2> QED BY <1>6, <2>1 DEF SyncWait, SyncAwake1, SyncSleep, SyncIdle
<1>7. CASE SyncTimeout
  <2>1. qd' = qd /\ "sync" \notin qd
    BY <1>7, <1>a, <1>b DEF SyncTimeout, SyncSleep
  <2>2. "sync" \notin sm'
    BY <1>7, <1>a, <1>b DEF SyncTimeout
  <2> QED BY <1>1, <2>1, <2>2
<1>8. CASE SyncPrompt
  <2>1. sm' = sm /\ "sync" \notin sm
    BY <1>8, <1>a, <1>b DEF Sleep, Broadcast, SyncPrompt, SyncReady, SyncAwake1,
         SyncAwake2, SyncSleep
  <2>2. tx_quiesce_txg_waiting' > tx_open_txg'
    BY <1>8, <1>a DEF SyncPrompt, Raise
  <2> QED BY <1>8, <2>1, <2>2 DEF SyncPrompt, SyncSleep, TxgStalled
<1>9. CASE SyncExit \/ SyncConsume \/ SyncDone
  <2>1. "sync" \notin sm /\ "sync" \notin qd
    BY <1>9 DEF SyncExit, SyncConsume, SyncDone, SyncReady, SyncAwake1, SyncAwake2,
         SyncSleep
  <2>2. sm' = sm /\ qd' = qd
    BY <1>9, <1>a, <1>b DEF Broadcast, SyncExit, SyncConsume, SyncDone, ConsumeWakes
  <2> QED BY <1>1, <2>1, <2>2
<1>10. ASSUME NEW t \in Txs,
              \/ TxgHoldCount(t) \/ TxgReleToQuiesce(t) \/ TxgRegisterCallbacks(t)
              \/ TxgDoCallbacks(t) \/ \E c \in CPUs : TxgHoldOpen(t, c)
       PROVE  SyncSleep'
  BY <1>2, <1>10 DEF TxgHoldCount, TxgReleToQuiesce, TxgRegisterCallbacks,
       TxgDoCallbacks, TxgHoldOpen, Draining
<1>11. ASSUME NEW t \in Txs, TxgDelay(t) \/ TxgDelayEnd(t) \/ TxgDelayAgain(t)
       PROVE  SyncSleep'
  <2>1. sm' = sm /\ qd' = qd
    BY <1>11, <1>a, <1>b DEF Sleep, TxgDelay, TxgDelayEnd, TxgDelayAgain
  <2> QED BY <1>2, <1>11, <2>1 DEF TxgDelay, TxgDelayEnd, TxgDelayAgain, Draining
<1>12. ASSUME NEW t \in Txs, TxgReleToSync(t)
       PROVE  SyncSleep'
  <2>1. UNCHANGED <<cv, tx_exiting, tx_quiesced_txg, tx_synced_txg, s_pc, s_due,
                    tx_quiesce_txg_waiting, tx_sync_txg_waiting, tx_open_txg>>
    BY <1>12 DEF TxgReleToSync
  <2>2. Draining => Draining'
    BY <1>12 DEF TxgReleToSync, Draining
  <2> QED BY <1>2, <2>1, <2>2
<1>13. ASSUME NEW w \in Waiters, NEW txg \in Nat, NEW op,
              SyncedLoop(w, txg, op),
              tx_sync_txg_waiting' = Raise(tx_sync_txg_waiting, txg),
              UNCHANGED <<pipeVars, tx_quiesce_txg_waiting, lifeVars, qVars, sVars>>
       PROVE  SyncSleep'
  <2>1. "sync" \in qd' => "sync" \in qd
    BY <1>13, <1>a, <1>b DEF SyncedLoop, Sleep, Broadcast
  <2>2. CASE tx_synced_txg < txg
    <3>1. "sync" \notin sm'
      BY <1>13, <1>a, <1>b, <2>2 DEF SyncedLoop, Sleep, Broadcast
    <3> QED BY <1>13, <2>1, <3>1 DEF SyncSleep, TxgStalled, Draining
  <2>3. CASE ~(tx_synced_txg < txg)
    <3>1. sm' = sm /\ (tx_synced_txg >= tx_sync_txg_waiting =>
                         tx_synced_txg' >= tx_sync_txg_waiting')
      BY <1>13, <1>a, <2>3 DEF SyncedLoop, Raise
    <3> QED BY <1>13, <2>1, <3>1 DEF SyncSleep, SyncIdle, TxgStalled, Draining
  <2> QED BY <2>2, <2>3
<1>14. ASSUME NEW w \in Waiters, StopWaitSynced(w)
       PROVE  SyncSleep'
  BY <1>13, <1>14, <1>a DEF StopWaitSynced
<1>15. ASSUME NEW w \in Waiters, NEW arg \in WaitArgs, TxgWaitSynced(w, arg)
       PROVE  SyncSleep'
  <2> DEFINE txg == IF arg = 0 THEN tx_open_txg + TXG_DEFER_SIZE ELSE arg
  <2>1. txg \in Nat
    BY <1>a, <1>b DEF TXG_DEFER_SIZE
  <2> QED BY <1>13, <1>15, <2>1 DEF TxgWaitSynced
<1>16. ASSUME NEW w \in Waiters, WaitSyncedWake(w)
       PROVE  SyncSleep'
  <2>1. ("sync" \in qd' => "sync" \in qd) /\ ("sync" \in sm' => "sync" \in sm)
    BY <1>16, <1>a, <1>b DEF WaitSyncedWake, SyncedLoop, Sleep, Broadcast
  <2> QED BY <1>2, <1>16, <2>1 DEF WaitSyncedWake, Draining
<1>17. ASSUME NEW w \in Waiters,
              WaitOpenWake(w) \/ \E arg \in WaitArgs : TxgWaitOpen(w, arg)
       PROVE  SyncSleep'
  <2>0. PICK txg : OpenLoop(w, txg)
    BY <1>17 DEF WaitOpenWake, TxgWaitOpen
  <2>1. ("sync" \in qd' => "sync" \in qd) /\ ("sync" \in sm' => "sync" \in sm)
    <3>1. sm' = sm
      BY <2>0, <1>a, <1>b DEF OpenLoop, Sleep, Broadcast
    <3>2. qd' = qd \/ qd' = qd \cup {w}
      BY <2>0, <1>a, <1>b DEF OpenLoop, Sleep, Broadcast
    <3> QED BY <1>b, <3>1, <3>2
  <2>2. TxgStalled => TxgStalled'
    <3>1. \A n \in Nat : Raise(tx_quiesce_txg_waiting, n) >= tx_quiesce_txg_waiting
      BY <1>a DEF Raise
    <3>2. /\ tx_open_txg' = tx_open_txg
          /\ \/ tx_quiesce_txg_waiting' = tx_quiesce_txg_waiting
             \/ \E n \in Nat :
                  tx_quiesce_txg_waiting' = Raise(tx_quiesce_txg_waiting, n)
      BY <1>17, <1>a, <1>b DEF WaitOpenWake, TxgWaitOpen
    <3>3. tx_quiesce_txg_waiting' \in Nat /\ tx_quiesce_txg_waiting' >= tx_quiesce_txg_waiting
      BY <3>1, <3>2, <1>a DEF Raise
    <3> QED BY <3>2, <3>3, <1>a DEF TxgStalled
  <2> QED BY <1>17, <2>1, <2>2 DEF WaitOpenWake, TxgWaitOpen, Draining, SyncSleep, SyncIdle
<1>18. ASSUME NEW w \in Waiters, StopJoin(w)
       PROVE  SyncSleep'
  <2>1. qd' = qd /\ sm' = sm /\ (tx_exiting' = tx_exiting \/ ~tx_exiting')
    BY <1>18, <1>a, <1>b DEF StopJoin, Sleep
  <2> QED BY <1>18, <2>1 DEF StopJoin, SyncSleep, SyncIdle, TxgStalled, Draining
<1>19. CASE TxgSyncStart
  <2>1. "sync" \notin sm /\ "sync" \notin qd
    BY <1>19 DEF TxgSyncStart, IndInv, ThreadInv, SyncSleep
  <2> QED BY <1>1, <1>19, <2>1 DEF TxgSyncStart
<1>20. CASE TxgFini \/ \E w \in Waiters : TxgSyncStop(w)
  BY <1>2, <1>20 DEF TxgFini, TxgSyncStop, Draining
<1>21. CASE TxgKick
  <2>1. qd' = qd /\ sm' = sm /\ TxgStalled'
    BY <1>21, <1>a, <1>b DEF TxgKick, Broadcast, TxgStalled
  <2> QED BY <1>21, <2>1 DEF TxgKick, SyncSleep, SyncIdle, Draining
<1>22. CASE UNCHANGED vars
  BY <1>2, <1>22 DEF vars, Draining
<1> QED BY <1>3, <1>4, <1>5, <1>6, <1>7, <1>8, <1>9, <1>10, <1>11, <1>12,
           <1>14, <1>15, <1>16, <1>17, <1>18, <1>19, <1>20, <1>21, <1>22
        DEF Next, QuiesceThread, SyncThread, TxStep, WaiterStep, Call, Terminated

LEMMA DrainSleepStep ==
    ASSUME TypeOK, IndInv, DrainSleep, [Next]_vars
    PROVE  DrainSleep'
<1>a. /\ tc_count \in [CPUs -> [Slots -> Nat]] /\ tx_quiescing_txg \in Nat
      /\ th_st \in [Txs -> TxStates] /\ q_cpu \in 1 .. NCPU + 1 /\ NCPU \in Nat
      /\ th_cpu \in [Txs -> CPUs \cup {NoCpu}] /\ th_txg \in [Txs -> Nat]
  BY TxgAssumption DEF TypeOK
<1>b. Slot(tx_quiescing_txg) \in Slots
  BY <1>a, SlotType
<1>1. CASE UNCHANGED <<tc_count, q_pc, q_cpu, tx_quiescing_txg>>
  BY <1>1 DEF DrainSleep, Slot
<1>2. CASE QuiesceExit \/ QuiesceStart \/ QuiesceLock \/ QuiesceOpenNext
           \/ QuiesceHandOff \/ TxgSyncStart
  BY <1>2 DEF QuiesceExit, QuiesceStart, QuiesceLock, QuiesceOpenNext,
       QuiesceHandOff, TxgSyncStart, DrainSleep
<1>3. CASE QuiesceDrain
  BY <1>a, <1>3 DEF QuiesceDrain, DrainSlot, DrainSleep, Slot, CPUs
<1>4. CASE SyncPrompt \/ SyncExit \/ SyncConsume \/ SyncDone
  BY <1>1, <1>4 DEF SyncPrompt, SyncExit, SyncConsume, SyncDone
<1>5. ASSUME NEW t \in Txs,
             \/ \E c \in CPUs : TxgHoldOpen(t, c)
             \/ TxgDelay(t) \/ TxgDelayEnd(t)
             \/ TxgReleToQuiesce(t) \/ TxgRegisterCallbacks(t)
      PROVE  DrainSleep'
  BY <1>1, <1>5 DEF TxgHoldOpen, TxgDelay, TxgDelayEnd, TxgReleToQuiesce,
       TxgRegisterCallbacks
<1>6. ASSUME NEW t \in Txs, TxgHoldCount(t) \/ TxgReleToSync(t)
      PROVE  DrainSleep'
  <2>1. PICK c0 \in CPUs, g0 \in Slots : c0 = th_cpu[t] /\ g0 = HandleSlot(t)
    BY <1>6, <1>a, SlotType DEF TxgHoldCount, TxgReleToSync, IndInv, LockInv, Active,
         HandleSlot
  <2>2. UNCHANGED <<q_cpu, tx_quiescing_txg>>
    BY <1>6 DEF TxgHoldCount, TxgReleToSync
  <2>3. CASE TxgHoldCount(t)
    <3>1. q_pc' = q_pc /\ tc_count' = [tc_count EXCEPT ![c0][g0] = @ + 1]
      BY <2>1, <2>3 DEF TxgHoldCount
    <3>2. \A c \in CPUs, g \in Slots : tc_count[c][g] # 0 => tc_count'[c][g] # 0
      BY <1>a, <3>1
    <3>3. q_pc = "tc_cv" => q_cpu \in CPUs
      BY DEF DrainSleep
    <3> QED BY <1>b, <2>2, <3>1, <3>2, <3>3 DEF DrainSleep, Slot
  <2>4. CASE TxgReleToSync(t)
    <3>1. /\ tc_count' = [tc_count EXCEPT ![c0][g0] = @ - 1]
          /\ q_pc' = IF /\ q_pc = "tc_cv" /\ q_cpu = c0
                        /\ Slot(tx_quiescing_txg) = g0 /\ tc_count[c0][g0] = 1
                     THEN "drain" ELSE q_pc
      BY <2>1, <2>4 DEF TxgReleToSync
    <3> SUFFICES ASSUME q_pc' = "tc_cv"
                 PROVE  /\ q_cpu \in CPUs
                        /\ tc_count'[q_cpu][Slot(tx_quiescing_txg)] # 0
      BY <2>2 DEF DrainSleep, Slot
    <3>2. /\ q_pc = "tc_cv" /\ q_cpu \in CPUs
          /\ tc_count[q_cpu][Slot(tx_quiescing_txg)] # 0
          /\ ~(q_cpu = c0 /\ Slot(tx_quiescing_txg) = g0 /\ tc_count[c0][g0] = 1)
      BY <3>1 DEF DrainSleep
    <3>3. CASE q_cpu = c0 /\ Slot(tx_quiescing_txg) = g0
      BY <1>a, <3>1, <3>2, <3>3
    <3>4. CASE ~(q_cpu = c0 /\ Slot(tx_quiescing_txg) = g0)
      BY <1>a, <1>b, <3>1, <3>2, <3>4
    <3> QED BY <3>3, <3>4
  <2> QED BY <1>6, <2>3, <2>4
<1> QED BY CoreFrame, <1>1, <1>2, <1>3, <1>4, <1>5, <1>6 DEF CoreStep

LEMMA DelaySleepStep ==
    ASSUME TypeOK, IndInv, DelaySleep, [Next]_vars
    PROVE  DelaySleep'
<1> DEFINE qm == cv["quiesce_more"]
<1>a. /\ tx_open_txg \in Nat /\ tx_syncing_txg \in Nat
      /\ tx_quiesce_txg_waiting \in Nat /\ th_txg \in [Txs -> Nat]
      /\ cv \in [CVs -> SUBSET Threads] /\ th_st \in [Txs -> TxStates]
  BY DEF TypeOK
<1>b. /\ "quiesce" \notin Txs /\ Txs \cap Waiters = {}
      /\ {"sync_more", "quiesce_done", "quiesce_more", "sync_done", "exit"} \subseteq CVs
      /\ WaitArgs \subseteq Nat
  BY ThreadAssumption, TxgAssumption DEF CVs
<1>1. ASSUME qm' = {}
      PROVE  DelaySleep'
  BY <1>1 DEF DelaySleep
<1>2. ASSUME \A t \in Txs : t \in qm' => t \in qm,
             UNCHANGED <<tx_syncing_txg, tx_quiesce_txg_waiting, tx_open_txg>>,
             \A t \in Txs : t \in qm' => th_st'[t] = th_st[t] /\ th_txg'[t] = th_txg[t]
      PROVE  DelaySleep'
  BY <1>2 DEF DelaySleep, DelayCond, TxgStalled
<1>3. CASE QuiesceWait \/ QuiesceExit \/ QuiesceStart \/ QuiesceLock \/ QuiesceDrain
           \/ QuiesceHandOff
  <2>1. \A t \in Txs : t \in qm' => t \in qm
    BY <1>3, <1>a, <1>b DEF Sleep, Broadcast, QuiesceWait, QuiesceExit, QuiesceStart,
         QuiesceLock, QuiesceDrain, QuiesceHandOff, HandOffWakes
  <2> QED BY <1>2, <1>3, <2>1 DEF QuiesceWait, QuiesceExit, QuiesceStart,
         QuiesceLock, QuiesceDrain, QuiesceHandOff
<1>4. CASE QuiesceOpenNext
  <2>1. ~TxgStalled => ~TxgStalled'
    BY <1>4, <1>a DEF QuiesceOpenNext, TxgStalled
  <2> QED BY <1>4, <2>1 DEF QuiesceOpenNext, DelaySleep, DelayCond
<1>5. CASE SyncPrompt \/ SyncConsume \/ TxgKick
           \/ \E w \in Waiters : StopThreads(w)
  BY <1>1, <1>5, <1>a, <1>b DEF Sleep, Broadcast, SyncPrompt, SyncConsume, TxgKick,
       StopThreads, ConsumeWakes
<1>6. CASE SyncWait \/ SyncExit \/ SyncTimeout
  <2>1. qm' = qm
    BY <1>6, <1>a, <1>b DEF Sleep, Broadcast, SyncWait, SyncExit, SyncTimeout
  <2> QED BY <1>2, <1>6, <2>1 DEF SyncWait, SyncExit, SyncTimeout
<1>7. CASE SyncDone
  <2>1. qm' = qm
    BY <1>7, <1>a, <1>b DEF Broadcast, SyncDone
  <2>2. tx_syncing_txg' = 0 /\ UNCHANGED <<thVars, tx_open_txg, askVars>>
    BY <1>7 DEF SyncDone
  <2>3. \A t \in Txs : tx_syncing_txg < th_txg[t] - 1 => 0 < th_txg[t] - 1
    BY <1>a
  <2> QED BY <2>1, <2>2, <2>3 DEF DelaySleep, DelayCond, TxgStalled
<1>8. ASSUME NEW t \in Txs,
             \/ TxgHoldCount(t) \/ TxgReleToQuiesce(t) \/ TxgRegisterCallbacks(t)
             \/ TxgReleToSync(t) \/ \E c \in CPUs : TxgHoldOpen(t, c)
      PROVE  DelaySleep'
  <2>1. /\ UNCHANGED <<cv, tx_syncing_txg, tx_quiesce_txg_waiting, tx_open_txg>>
        /\ th_st[t] # "delay"
        /\ \A u \in Txs : u # t => th_st'[u] = th_st[u] /\ th_txg'[u] = th_txg[u]
    BY <1>8, <1>a DEF TxgHoldCount, TxgReleToQuiesce, TxgRegisterCallbacks,
         TxgReleToSync, TxgHoldOpen
  <2>2. t \notin qm
    BY <2>1 DEF DelaySleep
  <2> QED BY <1>2, <2>1, <2>2
<1>9. ASSUME NEW t \in Txs, TxgDelay(t) \/ TxgDelayAgain(t)
      PROVE  DelaySleep'
  <2>1. /\ qm' = qm \cup {t}
        /\ UNCHANGED <<tx_syncing_txg, tx_quiesce_txg_waiting, tx_open_txg, th_txg>>
        /\ DelayCond(th_txg[t]) /\ th_st'[t] = "delay"
        /\ \A u \in Txs : u # t => th_st'[u] = th_st[u]
    BY <1>9, <1>a, <1>b DEF Sleep, TxgDelay, TxgDelayAgain
  <2> QED BY <2>1 DEF DelaySleep, DelayCond, TxgStalled
<1>10. ASSUME NEW t \in Txs, TxgDelayEnd(t)
       PROVE  DelaySleep'
  <2>1. /\ qm' = qm \ {t}
        /\ UNCHANGED <<tx_syncing_txg, tx_quiesce_txg_waiting, tx_open_txg, th_txg>>
        /\ \A u \in Txs : u # t => th_st'[u] = th_st[u]
    BY <1>10, <1>a, <1>b DEF TxgDelayEnd
  <2> QED BY <1>2, <2>1
<1>11. ASSUME NEW w \in Waiters, StopWaitSynced(w) \/ WaitSyncedWake(w) \/ WaitOpenWake(w)
                \/ StopJoin(w) \/ \E arg \in WaitArgs : TxgWaitSynced(w, arg)
       PROVE  DelaySleep'
  <2>1. \A t \in Txs : t \in qm' => t \in qm
    BY <1>11, <1>a, <1>b DEF StopWaitSynced, WaitSyncedWake, TxgWaitSynced, SyncedLoop,
         WaitOpenWake, OpenLoop, StopJoin, Sleep, Broadcast
  <2> QED BY <1>2, <1>11, <2>1 DEF StopWaitSynced, WaitSyncedWake, TxgWaitSynced,
         WaitOpenWake, StopJoin
<1>12. ASSUME NEW w \in Waiters, NEW arg \in WaitArgs, TxgWaitOpen(w, arg)
       PROVE  DelaySleep'
  <2> DEFINE txg == IF arg = 0 THEN tx_open_txg + 1 ELSE arg
  <2>1. CASE tx_open_txg < txg
    <3>1. qm' = {}
      BY <1>12, <1>a, <1>b, <2>1 DEF TxgWaitOpen, OpenLoop, Sleep, Broadcast
    <3> QED BY <1>1, <3>1
  <2>2. CASE ~(tx_open_txg < txg)
    <3>1. /\ UNCHANGED <<cv, tx_syncing_txg, tx_open_txg, thVars>>
          /\ tx_quiesce_txg_waiting' = Raise(tx_quiesce_txg_waiting, txg)
          /\ txg \in Nat
      BY <1>12, <1>a, <1>b, <2>2 DEF TxgWaitOpen, OpenLoop
    <3>2. ~TxgStalled => ~TxgStalled'
      BY <1>a, <2>2, <3>1 DEF Raise, TxgStalled
    <3> QED BY <3>1, <3>2 DEF DelaySleep, DelayCond
  <2> QED BY <2>1, <2>2
<1>13. CASE TxgSyncStart \/ TxgFini \/ \E w \in Waiters : TxgSyncStop(w)
  BY <1>2, <1>13 DEF TxgSyncStart, TxgFini, TxgSyncStop
<1>14. ASSUME NEW t \in Txs, TxgDoCallbacks(t)
       PROVE  DelaySleep'
  BY <1>2, <1>14 DEF TxgDoCallbacks
<1>15. CASE UNCHANGED vars
  BY <1>2, <1>15 DEF vars
<1> QED BY <1>3, <1>4, <1>5, <1>6, <1>7, <1>8, <1>9, <1>10, <1>11, <1>12, <1>13,
           <1>14, <1>15
        DEF Next, QuiesceThread, SyncThread, TxStep, WaiterStep, Call, Terminated

LEMMA WaiterSleepStep ==
    ASSUME TypeOK, IndInv, WaiterSleep, [Next]_vars
    PROVE  WaiterSleep'
<1> DEFINE sd == cv["sync_done"]
           qd == cv["quiesce_done"]
<1>a. /\ tx_open_txg \in Nat /\ tx_synced_txg \in Nat
      /\ tx_quiesce_txg_waiting \in Nat /\ tx_sync_txg_waiting \in Nat
      /\ cv \in [CVs -> SUBSET Threads] /\ w_txg \in [Waiters -> Nat]
      /\ w_op \in [Waiters -> WaitOps]
  BY DEF TypeOK
<1>b. /\ {"quiesce", "sync"} \cap Waiters = {} /\ Txs \cap Waiters = {}
      /\ {"sync_more", "quiesce_done", "quiesce_more", "sync_done", "exit"} \subseteq CVs
      /\ WaitArgs \subseteq Nat
  BY ThreadAssumption, TxgAssumption DEF CVs
<1>c. ASSUME NEW n \in Nat
      PROVE  /\ Raise(tx_sync_txg_waiting, n) \in Nat
             /\ Raise(tx_sync_txg_waiting, n) >= n
             /\ Raise(tx_sync_txg_waiting, n) >= tx_sync_txg_waiting
             /\ Raise(tx_quiesce_txg_waiting, n) \in Nat
             /\ Raise(tx_quiesce_txg_waiting, n) >= n
             /\ Raise(tx_quiesce_txg_waiting, n) >= tx_quiesce_txg_waiting
  BY <1>a DEF Raise
(* A step of a thread that is not a waiter.                                *)
<1>1. ASSUME \A w \in Waiters : w \in sd' => w \in sd /\ tx_synced_txg' = tx_synced_txg,
             \A w \in Waiters : w \in qd' =>
                /\ w \in qd
                /\ Draining => Draining'
                /\ tx_open_txg' = tx_open_txg \/ Draining',
             wVars' = wVars,
             tx_sync_txg_waiting' = tx_sync_txg_waiting,
             tx_quiesce_txg_waiting' \in Nat,
             tx_quiesce_txg_waiting' >= tx_quiesce_txg_waiting
      PROVE  WaiterSleep'
  <2> SUFFICES ASSUME NEW w \in Waiters
               PROVE  /\ w_op[w] \in {"synced", "stopsync"} =>
                           w_txg[w] <= tx_sync_txg_waiting
                      /\ w_op[w] = "open" => w_txg[w] <= tx_quiesce_txg_waiting'
                      /\ w \in sd' => w_op[w] \in {"synced", "stopsync"}
                                      /\ tx_synced_txg' < w_txg[w]
                      /\ w \in qd' => w_op[w] = "open"
                                      /\ (tx_open_txg' < w_txg[w] \/ Draining')
    BY <1>1 DEF WaiterSleep
  <2>1. w_txg[w] \in Nat
    BY <1>a
  <2> QED BY <1>1, <1>a, <2>1 DEF WaiterSleep
(* A step of one waiter.                                                   *)
<1>2. ASSUME NEW w \in Waiters,
             \A v \in Waiters : v # w =>
                /\ w_op'[v] = w_op[v] /\ w_txg'[v] = w_txg[v]
                /\ v \in sd' => v \in sd
                /\ v \in qd' => v \in qd,
             UNCHANGED <<tx_open_txg, tx_synced_txg, q_pc>>,
             tx_sync_txg_waiting' \in Nat,
             tx_sync_txg_waiting' >= tx_sync_txg_waiting,
             tx_quiesce_txg_waiting' \in Nat,
             tx_quiesce_txg_waiting' >= tx_quiesce_txg_waiting,
             w_op'[w] \in {"synced", "stopsync"} => w_txg'[w] <= tx_sync_txg_waiting',
             w_op'[w] = "open" => w_txg'[w] <= tx_quiesce_txg_waiting',
             w \in sd' => w_op'[w] \in {"synced", "stopsync"} /\ tx_synced_txg < w_txg'[w],
             w \in qd' => w_op'[w] = "open" /\ tx_open_txg < w_txg'[w]
      PROVE  WaiterSleep'
  <2> SUFFICES ASSUME NEW v \in Waiters, v # w
               PROVE  /\ w_op[v] \in {"synced", "stopsync"} =>
                           w_txg[v] <= tx_sync_txg_waiting'
                      /\ w_op[v] = "open" => w_txg[v] <= tx_quiesce_txg_waiting'
                      /\ v \in sd' => w_op[v] \in {"synced", "stopsync"}
                                      /\ tx_synced_txg < w_txg[v]
                      /\ v \in qd' => w_op[v] = "open"
                                      /\ (tx_open_txg < w_txg[v] \/ Draining)
    BY <1>2 DEF WaiterSleep, Draining
  <2>1. w_txg[v] \in Nat
    BY <1>a
  <2> QED BY <1>2, <1>a, <2>1 DEF WaiterSleep
<1>3. CASE QuiesceWait \/ QuiesceExit \/ QuiesceStart \/ QuiesceLock \/ QuiesceDrain
  <2>1. sd' = sd /\ qd' = qd
    BY <1>3, <1>a, <1>b DEF Sleep, Broadcast, QuiesceWait, QuiesceExit, QuiesceStart,
         QuiesceLock, QuiesceDrain
  <2>2. /\ UNCHANGED <<tx_open_txg, tx_synced_txg, askVars, wVars>>
        /\ Draining => Draining'
    BY <1>3 DEF QuiesceWait, QuiesceExit, QuiesceStart,
         QuiesceLock, QuiesceDrain, QuiesceAwake, Draining
  <2> QED BY <1>1, <1>a, <2>1, <2>2
<1>4. CASE QuiesceOpenNext
  BY <1>1, <1>4, <1>a DEF QuiesceOpenNext, Draining
<1>5. CASE QuiesceHandOff
  <2>1. sd' = sd /\ qd' = {}
    BY <1>5, <1>a, <1>b DEF QuiesceHandOff, HandOffWakes, Broadcast
  <2> QED BY <1>1, <1>5, <1>a, <2>1 DEF QuiesceHandOff
<1>6. CASE SyncWait \/ SyncExit \/ SyncTimeout \/ SyncConsume
  <2>1. sd' = sd /\ qd' = qd
    BY <1>6, <1>a, <1>b DEF Sleep, Broadcast, SyncWait, SyncExit, SyncTimeout,
         SyncConsume, ConsumeWakes
  <2> QED BY <1>1, <1>6, <1>a, <2>1 DEF SyncWait, SyncExit, SyncTimeout, SyncConsume,
         Draining
<1>7. CASE SyncPrompt \/ TxgKick
  <2>1. \A w \in Waiters : (w \in sd' => w \in sd) /\ (w \in qd' => w \in qd)
    <3>1. sd' = sd
      BY <1>7, <1>a, <1>b DEF Sleep, Broadcast, SyncPrompt, TxgKick
    <3>2. qd' = qd \/ qd' = qd \cup {"sync"}
      BY <1>7, <1>a, <1>b DEF Sleep, Broadcast, SyncPrompt, TxgKick
    <3> QED BY <1>b, <3>1, <3>2
  <2>2. /\ tx_quiesce_txg_waiting' \in Nat
        /\ tx_quiesce_txg_waiting' >= tx_quiesce_txg_waiting
    BY <1>7, <1>a DEF SyncPrompt, TxgKick, Raise
  <2> QED BY <1>1, <1>7, <2>1, <2>2 DEF SyncPrompt, TxgKick, Draining
<1>8. CASE SyncDone
  <2>1. sd' = {} /\ qd' = qd
    BY <1>8, <1>a, <1>b DEF SyncDone, Broadcast
  <2> QED BY <1>1, <1>8, <1>a, <2>1 DEF SyncDone, Draining
<1>9. ASSUME NEW t \in Txs,
             \/ TxgHoldCount(t) \/ TxgReleToQuiesce(t) \/ TxgRegisterCallbacks(t)
             \/ TxgReleToSync(t) \/ TxgDoCallbacks(t)
             \/ \E c \in CPUs : TxgHoldOpen(t, c)
      PROVE  WaiterSleep'
  <2>1. UNCHANGED <<cv, tx_open_txg, tx_synced_txg, askVars, wVars>>
    BY <1>9 DEF TxgHoldCount, TxgReleToQuiesce, TxgRegisterCallbacks,
         TxgReleToSync, TxgDoCallbacks, TxgHoldOpen
  <2>2. Draining => Draining'
    BY <1>9 DEF TxgHoldCount, TxgReleToQuiesce, TxgRegisterCallbacks,
         TxgReleToSync, TxgDoCallbacks, TxgHoldOpen, Draining
  <2> QED BY <1>1, <1>a, <2>1, <2>2
<1>10. ASSUME NEW t \in Txs, TxgDelay(t) \/ TxgDelayEnd(t) \/ TxgDelayAgain(t)
       PROVE  WaiterSleep'
  <2>1. sd' = sd /\ qd' = qd
    BY <1>10, <1>a, <1>b DEF Sleep, TxgDelay, TxgDelayEnd, TxgDelayAgain
  <2> QED BY <1>1, <1>10, <1>a, <2>1 DEF TxgDelay, TxgDelayEnd, TxgDelayAgain, Draining
(* The two wait loops.                                                     *)
<1>11. ASSUME NEW w \in Waiters, NEW txg \in Nat, NEW op \in {"synced", "stopsync"},
              SyncedLoop(w, txg, op), w \notin sd, w_op[w] # "open",
              tx_sync_txg_waiting' \in Nat, tx_sync_txg_waiting' >= tx_sync_txg_waiting,
              txg <= tx_sync_txg_waiting',
              UNCHANGED <<pipeVars, tx_quiesce_txg_waiting, qVars>>
       PROVE  WaiterSleep'
  <2>1. \A v \in Waiters : v # w =>
          /\ w_op'[v] = w_op[v] /\ w_txg'[v] = w_txg[v]
          /\ v \in sd' => v \in sd
          /\ v \in qd' => v \in qd
    <3>1. sd' = sd \/ sd' = sd \cup {w}
      BY <1>11, <1>a, <1>b DEF SyncedLoop, Sleep, Broadcast
    <3>2. qd' = qd
      BY <1>11, <1>a, <1>b DEF SyncedLoop, Sleep, Broadcast
    <3>3. \A v \in Waiters : v # w => w_op'[v] = w_op[v] /\ w_txg'[v] = w_txg[v]
      BY <1>11, <1>a DEF SyncedLoop
    <3> QED BY <3>1, <3>2, <3>3
  <2>2. w_txg'[w] = txg /\ w_op'[w] \in {"none", "synced", "stopsync"}
    BY <1>11, <1>a DEF SyncedLoop
  <2>3. w \notin qd'
    <3>1. w \notin qd
      BY <1>11 DEF WaiterSleep
    <3> QED BY <1>11, <3>1, <1>a, <1>b DEF SyncedLoop, Sleep, Broadcast
  <2>4. w \in sd' => w_op'[w] = op /\ tx_synced_txg < txg
    BY <1>11, <1>a, <1>b DEF SyncedLoop, Sleep, Broadcast
  <2> QED BY <1>2, <1>11, <1>a, <2>1, <2>2, <2>3, <2>4
<1>12. ASSUME NEW w \in Waiters, NEW txg \in Nat,
              OpenLoop(w, txg), w \notin qd, w_op[w] \notin {"synced", "stopsync"},
              tx_quiesce_txg_waiting' \in Nat,
              tx_quiesce_txg_waiting' >= tx_quiesce_txg_waiting,
              txg <= tx_quiesce_txg_waiting',
              UNCHANGED <<pipeVars, tx_sync_txg_waiting, qVars>>
       PROVE  WaiterSleep'
  <2>1. \A v \in Waiters : v # w =>
          /\ w_op'[v] = w_op[v] /\ w_txg'[v] = w_txg[v]
          /\ v \in sd' => v \in sd
          /\ v \in qd' => v \in qd
    <3>1. sd' = sd
      BY <1>12, <1>a, <1>b DEF OpenLoop, Sleep, Broadcast
    <3>2. qd' = qd \/ qd' = qd \cup {w}
      BY <1>12, <1>a, <1>b DEF OpenLoop, Sleep, Broadcast
    <3>3. \A v \in Waiters : v # w => w_op'[v] = w_op[v] /\ w_txg'[v] = w_txg[v]
      BY <1>12, <1>a DEF OpenLoop
    <3> QED BY <3>1, <3>2, <3>3
  <2>2. w_txg'[w] = txg /\ w_op'[w] \in {"none", "open"}
    BY <1>12, <1>a DEF OpenLoop
  <2>3. w \notin sd'
    <3>1. w \notin sd
      BY <1>12 DEF WaiterSleep
    <3> QED BY <1>12, <3>1, <1>a, <1>b DEF OpenLoop, Sleep, Broadcast
  <2>4. w \in qd' => w_op'[w] = "open" /\ tx_open_txg < txg
    BY <1>12, <1>a, <1>b DEF OpenLoop, Sleep, Broadcast
  <2> QED BY <1>2, <1>12, <1>a, <2>1, <2>2, <2>3, <2>4
<1>13. ASSUME NEW w \in Waiters, NEW arg \in WaitArgs, TxgWaitSynced(w, arg)
       PROVE  WaiterSleep'
  <2> DEFINE txg == IF arg = 0 THEN tx_open_txg + TXG_DEFER_SIZE ELSE arg
  <2>1. txg \in Nat
    BY <1>a, <1>b DEF TXG_DEFER_SIZE
  <2>2. /\ SyncedLoop(w, txg, "synced") /\ w_op[w] = "none"
        /\ tx_sync_txg_waiting' = Raise(tx_sync_txg_waiting, txg)
        /\ UNCHANGED <<pipeVars, tx_quiesce_txg_waiting, qVars>>
    BY <1>13 DEF TxgWaitSynced
  <2>3. w \notin sd
    BY <2>2 DEF WaiterSleep
  <2> QED BY <1>11, <1>c, <2>1, <2>2, <2>3
<1>14. ASSUME NEW w \in Waiters, StopWaitSynced(w)
       PROVE  WaiterSleep'
  <2>1. /\ SyncedLoop(w, w_txg[w], "stopsync") /\ w_op[w] = "stop"
        /\ tx_sync_txg_waiting' = Raise(tx_sync_txg_waiting, w_txg[w])
        /\ UNCHANGED <<pipeVars, tx_quiesce_txg_waiting, qVars>>
        /\ w_txg[w] \in Nat
    BY <1>14, <1>a DEF StopWaitSynced
  <2>2. w \notin sd
    BY <2>1 DEF WaiterSleep
  <2> QED BY <1>11, <1>c, <2>1, <2>2
<1>15. ASSUME NEW w \in Waiters, WaitSyncedWake(w)
       PROVE  WaiterSleep'
  <2>1. /\ SyncedLoop(w, w_txg[w], w_op[w]) /\ w_op[w] \in {"synced", "stopsync"}
        /\ UNCHANGED <<pipeVars, askVars, qVars>>
        /\ w_txg[w] \in Nat /\ w \notin sd
    BY <1>15, <1>a DEF WaitSyncedWake
  <2>2. w_txg[w] <= tx_sync_txg_waiting
    BY <2>1 DEF WaiterSleep
  <2> QED BY <1>11, <1>a, <2>1, <2>2
<1>16. ASSUME NEW w \in Waiters, NEW arg \in WaitArgs, TxgWaitOpen(w, arg)
       PROVE  WaiterSleep'
  <2> DEFINE txg == IF arg = 0 THEN tx_open_txg + 1 ELSE arg
  <2>1. txg \in Nat
    BY <1>a, <1>b
  <2>2. /\ OpenLoop(w, txg) /\ w_op[w] = "none"
        /\ tx_quiesce_txg_waiting' = Raise(tx_quiesce_txg_waiting, txg)
        /\ UNCHANGED <<pipeVars, tx_sync_txg_waiting, qVars>>
    BY <1>16 DEF TxgWaitOpen
  <2>3. w \notin qd
    BY <2>2 DEF WaiterSleep
  <2> QED BY <1>12, <1>c, <2>1, <2>2, <2>3
<1>17. ASSUME NEW w \in Waiters, WaitOpenWake(w)
       PROVE  WaiterSleep'
  <2>1. /\ OpenLoop(w, w_txg[w]) /\ w_op[w] = "open"
        /\ UNCHANGED <<pipeVars, askVars, qVars>>
        /\ w_txg[w] \in Nat /\ w \notin qd
    BY <1>17, <1>a DEF WaitOpenWake
  <2>2. w_txg[w] <= tx_quiesce_txg_waiting
    BY <2>1 DEF WaiterSleep
  <2> QED BY <1>12, <1>a, <2>1, <2>2
<1>18. ASSUME NEW w \in Waiters, TxgSyncStop(w) \/ StopThreads(w) \/ StopJoin(w)
       PROVE  WaiterSleep'
  <2>1. /\ UNCHANGED <<tx_open_txg, tx_synced_txg, q_pc, askVars>>
        /\ w_op'[w] \in {"stop", "stopexit", "none"}
        /\ \A v \in Waiters : v # w => w_op'[v] = w_op[v] /\ w_txg'[v] = w_txg[v]
    BY <1>18, <1>a DEF TxgSyncStop, StopThreads, StopJoin
  <2>2. w \notin sd /\ w \notin qd
    BY <1>18 DEF TxgSyncStop, StopThreads, StopJoin, Idle, WaiterSleep
  <2>3. \A v \in Waiters : (v \in sd' => v \in sd) /\ (v \in qd' => v \in qd)
    BY <1>18, <1>a, <1>b DEF TxgSyncStop, StopThreads, StopJoin, Sleep, Broadcast
  <2> QED BY <1>2, <1>a, <2>1, <2>2, <2>3
<1>19. CASE TxgSyncStart \/ TxgFini
  BY <1>1, <1>19, <1>a DEF TxgSyncStart, TxgFini, Draining, IndInv, ThreadInv
<1>20. CASE UNCHANGED vars
  BY <1>1, <1>20, <1>a DEF vars, Draining
<1> QED BY <1>3, <1>4, <1>5, <1>6, <1>7, <1>8, <1>9, <1>10, <1>13, <1>14, <1>15,
           <1>16, <1>17, <1>18, <1>19, <1>20
        DEF Next, QuiesceThread, SyncThread, TxStep, WaiterStep, Call, Terminated

LEMMA ExitStep ==
    ASSUME TypeOK, IndInv, StopInv, ExitInv, [Next]_vars
    PROVE  ExitInv'
<1> DEFINE ex == cv["exit"]
<1>a. /\ cv \in [CVs -> SUBSET Threads] /\ w_op \in [Waiters -> WaitOps]
      /\ tx_threads \in 0 .. 2 /\ tx_exiting \in BOOLEAN
  BY DEF TypeOK
<1>b. /\ {"quiesce", "sync"} \cap Waiters = {} /\ Txs \cap Waiters = {}
      /\ {"sync_more", "quiesce_done", "quiesce_more", "sync_done", "exit"} \subseteq CVs
  BY ThreadAssumption DEF CVs
<1>1. ASSUME ex' = ex,
             UNCHANGED <<lifeVars, w_op>>,
             q_pc' = "exited" => q_pc = "exited",
             s_pc' = "exited" => s_pc = "exited"
      PROVE  ExitInv'
  BY <1>1 DEF ExitInv
<1>2. CASE QuiesceWait \/ QuiesceStart \/ QuiesceLock \/ QuiesceOpenNext
           \/ QuiesceDrain \/ QuiesceHandOff
  <2>1. ex' = ex
    BY <1>2, <1>a, <1>b DEF Sleep, Broadcast, QuiesceWait, QuiesceStart, QuiesceLock,
         QuiesceOpenNext, QuiesceDrain, QuiesceHandOff, HandOffWakes
  <2> QED BY <1>1, <1>2, <2>1 DEF QuiesceWait, QuiesceStart, QuiesceLock,
         QuiesceOpenNext, QuiesceDrain, QuiesceHandOff
<1>3. CASE QuiesceExit \/ SyncExit
  <2>1. ex' = {} /\ tx_exiting /\ UNCHANGED <<tx_exiting, pool, w_op>>
    BY <1>3, <1>a, <1>b DEF Broadcast, QuiesceExit, SyncExit
  <2> QED BY <2>1 DEF ExitInv
<1>4. CASE SyncWait \/ SyncPrompt \/ SyncConsume \/ SyncDone \/ SyncTimeout
  <2>1. ex' = ex
    BY <1>4, <1>a, <1>b DEF Sleep, Broadcast, SyncWait, SyncPrompt, SyncConsume,
         SyncDone, SyncTimeout, ConsumeWakes
  <2> QED BY <1>1, <1>4, <2>1 DEF SyncWait, SyncPrompt, SyncConsume, SyncDone,
         SyncTimeout
<1>5. ASSUME NEW t \in Txs,
             \/ TxgHoldCount(t) \/ TxgReleToQuiesce(t) \/ TxgRegisterCallbacks(t)
             \/ TxgReleToSync(t) \/ TxgDoCallbacks(t)
             \/ \E c \in CPUs : TxgHoldOpen(t, c)
      PROVE  ExitInv'
  <2>1. UNCHANGED <<cv, lifeVars, w_op, s_pc>>
    BY <1>5 DEF TxgHoldCount, TxgReleToQuiesce, TxgRegisterCallbacks,
         TxgReleToSync, TxgDoCallbacks, TxgHoldOpen
  <2>2. q_pc' = "exited" => q_pc = "exited"
    BY <1>5 DEF TxgHoldCount, TxgReleToQuiesce, TxgRegisterCallbacks,
         TxgReleToSync, TxgDoCallbacks, TxgHoldOpen
  <2> QED BY <1>1, <2>1, <2>2
<1>6. ASSUME NEW t \in Txs, TxgDelay(t) \/ TxgDelayEnd(t) \/ TxgDelayAgain(t)
      PROVE  ExitInv'
  <2>1. ex' = ex
    BY <1>6, <1>a, <1>b DEF Sleep, TxgDelay, TxgDelayEnd, TxgDelayAgain
  <2> QED BY <1>1, <1>6, <2>1 DEF TxgDelay, TxgDelayEnd, TxgDelayAgain
<1>7. ASSUME NEW w \in Waiters, UNCHANGED <<lifeVars, q_pc, s_pc>>,
             \/ \E txg : OpenLoop(w, txg) /\ w_op[w] \in {"none", "open"}
             \/ \E txg : SyncedLoop(w, txg, "synced") /\ w_op[w] \in {"none", "synced"}
             \/ \E txg : SyncedLoop(w, txg, "stopsync") /\ w_op[w] \in {"stop", "stopsync"}
      PROVE  ExitInv'
  <2>1. ex' = ex
    BY <1>7, <1>a, <1>b DEF OpenLoop, SyncedLoop, Sleep, Broadcast
  <2>2. /\ \A v \in Waiters : v # w => w_op'[v] = w_op[v]
        /\ w_op[w] # "stopexit"
        /\ w_op'[w] \in {"stop", "stopsync"} => w_op[w] \in {"stop", "stopsync"}
    BY <1>7, <1>a DEF OpenLoop, SyncedLoop
  <2>3. w \notin ex
    BY <2>2 DEF ExitInv
  <2> QED BY <1>7, <2>1, <2>2, <2>3 DEF ExitInv
<1>8. ASSUME NEW w \in Waiters,
             \/ StopWaitSynced(w) \/ WaitSyncedWake(w) \/ WaitOpenWake(w)
             \/ \E arg \in WaitArgs : TxgWaitSynced(w, arg) \/ TxgWaitOpen(w, arg)
      PROVE  ExitInv'
  <2>1. CASE StopWaitSynced(w)
    BY <1>7, <2>1 DEF StopWaitSynced
  <2>2. CASE WaitSyncedWake(w)
    BY <1>7, <2>2 DEF WaitSyncedWake
  <2>3. CASE WaitOpenWake(w)
    BY <1>7, <2>3 DEF WaitOpenWake
  <2>4. CASE \E arg \in WaitArgs : TxgWaitSynced(w, arg) \/ TxgWaitOpen(w, arg)
    BY <1>7, <2>4 DEF TxgWaitSynced, TxgWaitOpen
  <2> QED BY <1>8, <2>1, <2>2, <2>3, <2>4
<1>9. ASSUME NEW w \in Waiters, TxgSyncStop(w)
      PROVE  ExitInv'
  <2>1. /\ pool = "active" /\ pool' = "exporting" /\ ~tx_exiting
        /\ UNCHANGED <<cv, tx_exiting, tx_threads, q_pc, s_pc>>
        /\ \A v \in Waiters : w_op[v] = "none"
    BY <1>9 DEF TxgSyncStop, Idle, ExitInv
  <2> QED BY <2>1 DEF ExitInv
<1>10. ASSUME NEW w \in Waiters, StopThreads(w)
       PROVE  ExitInv'
  <2>1. /\ UNCHANGED <<pool, tx_threads, q_pc, s_pc>> /\ tx_exiting'
        /\ w_op[w] = "stopsync" /\ w_op'[w] = "stopexit"
        /\ \A v \in Waiters : v # w => w_op'[v] = w_op[v]
    BY <1>10, <1>a DEF StopThreads
  <2>2. ex' = ex \cup {w}
    BY <1>10, <1>a, <1>b DEF StopThreads, Sleep, Broadcast
  <2>3. /\ pool = "exporting" /\ \A v \in Waiters : v # w => w_op[v] = "none"
    BY <2>1 DEF StopInv, StopOps
  <2>4. tx_threads # 0
    <3>1. q_pc # "exited"
      BY <2>1, <2>3 DEF ExitInv
    <3> QED BY <3>1, <2>3, <1>a DEF IndInv, ThreadInv
  <2> QED BY <2>1, <2>2, <2>3, <2>4 DEF ExitInv
<1>11. ASSUME NEW w \in Waiters, StopJoin(w)
       PROVE  ExitInv'
  <2>1. /\ UNCHANGED <<tx_threads, q_pc, s_pc>> /\ w_op[w] = "stopexit"
        /\ \/ tx_threads # 0 /\ UNCHANGED <<tx_exiting, w_op, pool>>
           \/ ~tx_exiting' /\ pool' = "stopped" /\ UNCHANGED cv
              /\ w_op' = [w_op EXCEPT ![w] = "none"] /\ w \notin ex
    BY <1>11 DEF StopJoin
  <2>2. ex' = ex \/ (ex' = ex \cup {w} /\ tx_threads # 0 /\ w_op' = w_op)
    BY <1>11, <1>a, <1>b DEF StopJoin, Sleep
  <2> QED BY <1>a, <2>1, <2>2 DEF ExitInv
<1>12. CASE TxgSyncStart
  BY <1>12, <1>a DEF TxgSyncStart, ExitInv
<1>13. CASE TxgFini
  BY <1>13 DEF TxgFini, ExitInv
<1>14. CASE TxgKick
  <2>1. ex' = ex
    BY <1>14, <1>a, <1>b DEF TxgKick, Broadcast
  <2> QED BY <1>1, <1>14, <2>1 DEF TxgKick
<1>15. CASE UNCHANGED vars
  BY <1>1, <1>15 DEF vars
<1> QED BY <1>2, <1>3, <1>4, <1>5, <1>6, <1>8, <1>9, <1>10, <1>11, <1>12, <1>13,
           <1>14, <1>15
        DEF Next, QuiesceThread, SyncThread, TxStep, WaiterStep, Call, Terminated

(* No wakeup is lost, for any number of CPUs, transactions and waiters:    *)
(* whoever sleeps on a condition variable of tx_state still has to wait.   *)
THEOREM WakeupsSafe == Spec => []NoLostWakeup
<1>1. Init => WakeInv
  BY DEF Init, WakeInv, QuiesceSleep, SyncSleep, DrainSleep, DelaySleep,
       WaiterSleep, ExitInv, CVs
<1>2. TypeOK /\ IndInv /\ StopInv /\ WakeInv /\ [Next]_vars => WakeInv'
  BY QuiesceSleepStep, SyncSleepStep, DrainSleepStep, DelaySleepStep,
     WaiterSleepStep, ExitStep DEF WakeInv
<1>3. WakeInv => NoLostWakeup
  BY DEF WakeInv, QuiesceSleep, SyncSleep, DrainSleep, DelaySleep, WaiterSleep,
       ExitInv, NoLostWakeup
<1> QED BY StopInvariance, <1>1, <1>2, <1>3, PTL DEF Spec
=============================================================================
