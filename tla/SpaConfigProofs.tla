-------------------------- MODULE SpaConfigProofs --------------------------
(***************************************************************************)
(* Theorems about the configuration locks of SpaConfig.  What a thread may *)
(* do is decided by the locks it holds, and where it is tells which those  *)
(* are: HeldAt and WriteAt list, for each lock, the places where a thread  *)
(* holds it, and holds it as writer.                                       *)
(***************************************************************************)
EXTENDS SpaConfig, TLAPS

SyncPcs == {"idle", "sync_begin", "sync_state", "sync_dirty", "sync_upgrade",
            "sync_clean", "sync_downgrade", "sync_pass", "sync_alloc",
            "sync_zio", "sync_allocated", "sync_uberblock", "sync_labels",
            "sync_failed", "sync_suspended", "sync_done", "sync_return"}
LwbPcs == {"idle", "lwb_issue", "lwb_load", "lwb_read", "lwb_alloc",
           "lwb_allocated", "lwb_issued", "lwb_zio", "lwb_flush", "lwb_flushed"}
VdevPcs == {"idle", "vdev_enter", "vdev_config_enter", "vdev_change",
            "vdev_wait", "vdev_free_enter", "vdev_free", "vdev_exit"}
StatePcs == {"idle", "state_enter", "state_hold", "state_zio", "state_held",
             "state_change", "state_wait", "state_waiting", "state_resume"}
Pcs == SyncPcs \cup LwbPcs \cup VdevPcs \cup StatePcs

HeldAt(l) ==
    CASE l = SCL_CONFIG ->
           {"sync_state", "sync_dirty", "sync_clean", "sync_pass",
            "sync_alloc", "sync_zio", "sync_allocated", "sync_uberblock",
            "sync_labels", "sync_failed", "sync_suspended", "sync_done",
            "vdev_change", "vdev_free"}
      [] l = SCL_STATE ->
           {"sync_dirty", "sync_clean", "sync_labels", "lwb_issued",
            "lwb_zio", "lwb_flush", "vdev_change", "vdev_free",
            "state_hold", "state_zio", "state_held", "state_change"}
      [] l = SCL_ALLOC ->
           {"sync_alloc", "sync_zio", "sync_allocated", "lwb_load",
            "lwb_read", "lwb_alloc", "vdev_change", "vdev_free"}
      [] l = SCL_ZIO ->
           {"sync_zio", "lwb_read", "lwb_zio", "vdev_change", "vdev_free",
            "state_zio", "state_change"}

WriteAt(l) ==
    CASE l = SCL_CONFIG -> {"sync_clean", "vdev_change", "vdev_free"}
      [] l = SCL_STATE ->
           {"sync_clean", "vdev_change", "vdev_free", "state_hold",
            "state_zio", "state_held", "state_change"}
      [] l = SCL_ALLOC -> {"vdev_change", "vdev_free"}
      [] l = SCL_ZIO -> {"vdev_change", "vdev_free", "state_change"}

(* Where a thread is inside a spa_config_enter, and the locks such a call  *)
(* of several has to collect.                                              *)
EnterPcs == {"sync_begin", "sync_state", "sync_upgrade", "sync_downgrade",
             "sync_pass", "sync_alloc", "sync_uberblock", "lwb_issue",
             "lwb_load", "lwb_allocated", "lwb_issued", "vdev_config_enter",
             "vdev_free_enter", "state_enter", "state_hold", "state_held"}

WriteEnters(l) ==
    CASE l = SCL_CONFIG ->
           {"sync_upgrade", "vdev_config_enter", "vdev_free_enter"}
      [] l = SCL_STATE ->
           {"sync_upgrade", "vdev_config_enter", "vdev_free_enter",
            "state_enter"}
      [] l = SCL_ALLOC -> {"vdev_config_enter", "vdev_free_enter"}
      [] l = SCL_ZIO ->
           {"vdev_config_enter", "vdev_free_enter", "state_held"}

ReadEnters(l) ==
    CASE l = SCL_CONFIG -> {"sync_begin", "sync_downgrade"}
      [] l = SCL_STATE ->
           {"sync_state", "sync_downgrade", "sync_uberblock", "lwb_allocated"}
      [] l = SCL_ALLOC -> {"sync_pass", "lwb_issue"}
      [] l = SCL_ZIO -> {"sync_alloc", "lwb_load", "lwb_issued", "state_hold"}

LockTypes ==
    /\ scl_writer \in [SCL_ALL -> Threads \cup {NoThread}]
    /\ scl_count \in [SCL_ALL -> SUBSET Threads]
    /\ left \in [Threads -> SUBSET SCL_ALL]
    /\ pc \in [Threads -> Pcs]

KindInv ==
    /\ pc[Sync] \in SyncPcs
    /\ \A t \in LogWriters : pc[t] \in LwbPcs
    /\ \A t \in VdevOps : pc[t] \in VdevPcs
    /\ \A t \in StateOps : pc[t] \in StatePcs
    /\ oplocks \in [StateOps -> SUBSET {SCL_ALLOC}]

(* A thread that has a lock as writer is alone in it.                      *)
WriterAlone ==
    \A l \in SCL_ALL : scl_writer[l] # NoThread => scl_count[l] = {scl_writer[l]}

(* The locks of a thread that is at p, those of a call it is in the middle *)
(* of included.                                                            *)
Collected(t, l) == left[t] # {} /\ l \notin left[t]
HoldInv ==
    \A t \in Threads : \A l \in SCL_ALL :
        /\ pc[t] \in HeldAt(l) => t \in scl_count[l]
        /\ pc[t] \in WriteAt(l) => scl_writer[l] = t
        /\ pc[t] \in ReadEnters(l) /\ Collected(t, l) => t \in scl_count[l]
        /\ pc[t] \in WriteEnters(l) /\ Collected(t, l) => scl_writer[l] = t

LeftInv == \A t \in Threads : left[t] # {} => pc[t] \in EnterPcs

LockInv == LockTypes /\ WriterAlone /\ HoldInv /\ LeftInv

(* When the groups that a change waits for are synced it is on disk.       *)
BeforeClean == {"idle", "sync_begin", "sync_state", "sync_dirty",
                "sync_upgrade", "sync_clean", "sync_downgrade"}
DirtyInv ==
    /\ waitfor \in [Threads -> Nat]
    /\ spa_state_dirty_list \subseteq StateOps
    /\ synced = IF pc[Sync] = "sync_return" THEN 1 ELSE 0
    /\ \A t \in VdevOps : t \in spa_config_dirty_list =>
         pc[t] = "vdev_wait" /\ waitfor[t] >= 1 + synced
    /\ \A t \in StateOps : pc[t] = "state_waiting" =>
         /\ t \in spa_config_dirty_list => waitfor[t] >= 1 + synced
         /\ t \in spa_state_dirty_list =>
              waitfor[t] >= IF pc[Sync] \in BeforeClean THEN 1 ELSE 2

CInv == LockInv /\ KindInv /\ DirtyInv
-----------------------------------------------------------------------------
(* The lock to take next is one of those left.                             *)
LEMMA MinIn ==
    ASSUME NEW S \in SUBSET SCL_ALL, S # {}
    PROVE  Min(S) \in S
<1>1. \A y \in S : y = 0 \/ y = 1 \/ y = 2 \/ y = 3
  BY DEF SCL_ALL
<1>2. PICK x \in S : \A y \in S : x =< y
  <2>1. CASE 0 \in S
    BY <1>1, <2>1
  <2>2. CASE 0 \notin S /\ 1 \in S
    BY <1>1, <2>2
  <2>3. CASE 0 \notin S /\ 1 \notin S /\ 2 \in S
    BY <1>1, <2>3
  <2>4. CASE 0 \notin S /\ 1 \notin S /\ 2 \notin S
    BY <1>1, <2>4
  <2> QED BY <2>1, <2>2, <2>3, <2>4
<1> QED BY <1>2 DEF Min

LEMMA Locks == /\ SCL_CONFIG \in SCL_ALL /\ SCL_STATE \in SCL_ALL
               /\ SCL_ALLOC \in SCL_ALL /\ SCL_ZIO \in SCL_ALL
               /\ SCL_ALL = {SCL_CONFIG, SCL_STATE, SCL_ALLOC, SCL_ZIO}
               /\ SCL_CONFIG # SCL_STATE /\ SCL_CONFIG # SCL_ALLOC
               /\ SCL_CONFIG # SCL_ZIO /\ SCL_STATE # SCL_ALLOC
               /\ SCL_STATE # SCL_ZIO /\ SCL_ALLOC # SCL_ZIO
BY DEF SCL_ALL, SCL_CONFIG, SCL_STATE, SCL_ALLOC, SCL_ZIO

(* A call at p for some locks, after which the thread is at q, fits the    *)
(* tables.                                                                 *)
ReadFits(p, locks, q) ==
    /\ p \in EnterPcs /\ q \in Pcs /\ locks \in SUBSET SCL_ALL /\ locks # {}
    /\ \A l \in SCL_ALL :
         /\ p \notin WriteEnters(l)
         /\ p \in ReadEnters(l) => l \in locks
         /\ q \in HeldAt(l) => p \in HeldAt(l) \/ p \in ReadEnters(l)
         /\ q \in WriteAt(l) => p \in WriteAt(l)

WriteFits(p, locks, q) ==
    /\ p \in EnterPcs /\ q \in Pcs /\ locks \in SUBSET SCL_ALL /\ locks # {}
    /\ \A l \in SCL_ALL :
         /\ p \notin ReadEnters(l)
         /\ p \in WriteEnters(l) => l \in locks
         /\ q \in HeldAt(l) => p \in HeldAt(l) \/ p \in WriteEnters(l)
         /\ q \in WriteAt(l) => p \in WriteAt(l) \/ p \in WriteEnters(l)

ExitFits(p, locks, q) ==
    /\ p \notin EnterPcs /\ q \in Pcs
    /\ \A l \in SCL_ALL :
         /\ q \in HeldAt(l) => p \in HeldAt(l) /\ l \notin locks
         /\ q \in WriteAt(l) => p \in WriteAt(l) /\ l \notin locks

LEMMA ReaderStep ==
    ASSUME LockInv, NEW t \in Threads, NEW p, NEW locks, NEW q,
           ReadFits(p, locks, q), EnterReader(t, p, locks, q)
    PROVE  LockInv'
<1>a. /\ scl_writer \in [SCL_ALL -> Threads \cup {NoThread}]
      /\ scl_count \in [SCL_ALL -> SUBSET Threads]
      /\ left \in [Threads -> SUBSET SCL_ALL]
      /\ pc \in [Threads -> Pcs]
  BY DEF LockInv, LockTypes
<1> DEFINE todo == Todo(t, locks)
           m == Min(todo)
<1>1. todo \in SUBSET SCL_ALL /\ todo # {}
  BY <1>a DEF Todo, ReadFits
<1>2. m \in todo /\ m \in SCL_ALL
  BY <1>1, MinIn
<1>3. pc[t] = p /\ UNCHANGED scl_writer
  BY DEF EnterReader
<1>4. CASE ReaderMay(m)
  <2>1. /\ scl_writer[m] = NoThread
        /\ scl_count' = [scl_count EXCEPT ![m] = @ \cup {t}]
        /\ left' = [left EXCEPT ![t] = todo \ {m}]
        /\ pc' = [pc EXCEPT ![t] = IF todo = {m} THEN q ELSE @]
    BY <1>4 DEF EnterReader, Takes, ReaderMay
  <2>2. LockTypes'
    BY <1>a, <1>1, <1>2, <1>3, <2>1 DEF LockTypes, ReadFits
  <2>3. WriterAlone'
    BY <1>a, <1>2, <1>3, <2>1 DEF LockInv, WriterAlone
  <2>4. \A l \in SCL_ALL : scl_count[l] \subseteq scl_count'[l]
    BY <1>a, <1>2, <2>1
  <2>5. t \in scl_count'[m]
    BY <1>a, <1>2, <2>1
  <2>6. \A u \in Threads : u # t => pc'[u] = pc[u] /\ left'[u] = left[u]
    BY <1>a, <2>1
  <2>7. /\ left'[t] = todo \ {m}
        /\ pc'[t] = IF todo = {m} THEN q ELSE p
    BY <1>a, <1>3, <2>1
  <2>8. ASSUME NEW l \in SCL_ALL
        PROVE  /\ pc'[t] \in HeldAt(l) => t \in scl_count'[l]
               /\ pc'[t] \in WriteAt(l) => scl_writer'[l] = t
               /\ pc'[t] \in ReadEnters(l) /\ left'[t] # {} /\ l \notin left'[t]
                    => t \in scl_count'[l]
               /\ pc'[t] \in WriteEnters(l) /\ left'[t] # {} => FALSE
    <3>1. p \in ReadEnters(l) /\ l \notin todo => t \in scl_count[l]
      BY <1>3 DEF LockInv, HoldInv, Collected, Todo, ReadFits
    <3>2. /\ p \in HeldAt(l) => t \in scl_count[l]
          /\ p \in WriteAt(l) => scl_writer[l] = t
      BY <1>3 DEF LockInv, HoldInv
    <3>3. CASE todo = {m}
      BY <1>3, <2>4, <2>5, <2>7, <3>1, <3>2, <3>3 DEF ReadFits
    <3>4. CASE todo # {m}
      BY <1>3, <2>4, <2>5, <2>7, <3>1, <3>2, <3>4 DEF ReadFits
    <3> QED BY <3>3, <3>4
  <2>9. HoldInv'
    <3> SUFFICES ASSUME NEW u \in Threads, u # t, NEW l \in SCL_ALL
                 PROVE  /\ pc[u] \in HeldAt(l) => u \in scl_count'[l]
                        /\ pc[u] \in WriteAt(l) => scl_writer[l] = u
                        /\ pc[u] \in ReadEnters(l) /\ Collected(u, l)
                             => u \in scl_count'[l]
                        /\ pc[u] \in WriteEnters(l) /\ Collected(u, l)
                             => scl_writer[l] = u
      BY <1>3, <2>6, <2>8 DEF HoldInv, Collected
    <3> QED BY <2>4 DEF LockInv, HoldInv
  <2>10. LeftInv'
    BY <1>1, <1>2, <1>3, <2>6, <2>7 DEF LockInv, LeftInv, ReadFits
  <2> QED BY <2>2, <2>3, <2>9, <2>10 DEF LockInv
<1>5. CASE ~ReaderMay(m)
  <2>1. /\ UNCHANGED <<scl_count, pc>>
        /\ left' = [left EXCEPT ![t] = todo]
    BY <1>5 DEF EnterReader, Sleeps
  <2>2. LockTypes'
    BY <1>a, <1>1, <1>3, <2>1 DEF LockTypes
  <2>3. HoldInv'
    <3> SUFFICES ASSUME NEW u \in Threads, NEW l \in SCL_ALL
                 PROVE  /\ pc[u] \in ReadEnters(l) /\ Collected(u, l)'
                             => u \in scl_count[l]
                        /\ pc[u] \in WriteEnters(l) /\ Collected(u, l)'
                             => scl_writer[l] = u
      BY <1>3, <2>1 DEF LockInv, HoldInv
    <3>1. CASE u = t
      <4>1. left'[t] = todo
        BY <1>a, <2>1
      <4> QED BY <1>3, <3>1, <4>1 DEF LockInv, HoldInv, Collected, Todo, ReadFits
    <3>2. CASE u # t
      <4>1. left'[u] = left[u]
        BY <1>a, <2>1, <3>2
      <4> QED BY <4>1 DEF LockInv, HoldInv, Collected
    <3> QED BY <3>1, <3>2
  <2>4. LeftInv' /\ WriterAlone'
    BY <1>a, <1>3, <2>1 DEF LockInv, LeftInv, WriterAlone, ReadFits
  <2> QED BY <2>2, <2>3, <2>4 DEF LockInv
<1> QED BY <1>4, <1>5

LEMMA WriterStep ==
    ASSUME LockInv, NEW t \in Threads, NEW p, NEW locks, NEW q,
           WriteFits(p, locks, q), EnterWriter(t, p, locks, q)
    PROVE  LockInv'
<1>a. /\ scl_writer \in [SCL_ALL -> Threads \cup {NoThread}]
      /\ scl_count \in [SCL_ALL -> SUBSET Threads]
      /\ left \in [Threads -> SUBSET SCL_ALL]
      /\ pc \in [Threads -> Pcs]
      /\ NoThread \notin Threads
  BY ConfigAssumption DEF LockInv, LockTypes
<1> DEFINE todo == Todo(t, locks)
           m == Min(todo)
<1>1. todo \in SUBSET SCL_ALL /\ todo # {}
  BY <1>a DEF Todo, WriteFits
<1>2. m \in todo /\ m \in SCL_ALL
  BY <1>1, MinIn
<1>3. pc[t] = p
  BY DEF EnterWriter
<1>b. \A l \in SCL_ALL : scl_writer[l] \in Threads => scl_count[l] = {scl_writer[l]}
  BY <1>a DEF LockInv, WriterAlone
<1>4. CASE scl_count[m] = {}
  <2>1. /\ scl_writer' = [scl_writer EXCEPT ![m] = t]
        /\ scl_count' = [scl_count EXCEPT ![m] = @ \cup {t}]
        /\ left' = [left EXCEPT ![t] = todo \ {m}]
        /\ pc' = [pc EXCEPT ![t] = IF todo = {m} THEN q ELSE @]
    BY <1>4 DEF EnterWriter, Takes
  <2>2. LockTypes'
    BY <1>a, <1>1, <1>2, <1>3, <2>1 DEF LockTypes, WriteFits
  <2>3. WriterAlone'
    BY <1>a, <1>2, <1>4, <2>1 DEF LockInv, WriterAlone
  <2>4. \A l \in SCL_ALL : /\ scl_count[l] \subseteq scl_count'[l]
                           /\ l # m => scl_writer'[l] = scl_writer[l]
    BY <1>a, <1>2, <2>1
  <2>5. t \in scl_count'[m] /\ scl_writer'[m] = t
    BY <1>a, <1>2, <2>1
  <2>6. \A u \in Threads : u # t => pc'[u] = pc[u] /\ left'[u] = left[u]
    BY <1>a, <2>1
  <2>7. /\ left'[t] = todo \ {m}
        /\ pc'[t] = IF todo = {m} THEN q ELSE p
    BY <1>a, <1>3, <2>1
  <2>8. ASSUME NEW l \in SCL_ALL
        PROVE  /\ pc'[t] \in HeldAt(l) => t \in scl_count'[l]
               /\ pc'[t] \in WriteAt(l) => scl_writer'[l] = t
               /\ pc'[t] \in ReadEnters(l) /\ left'[t] # {} => FALSE
               /\ pc'[t] \in WriteEnters(l) /\ left'[t] # {} /\ l \notin left'[t]
                    => scl_writer'[l] = t
    <3>1. p \in WriteEnters(l) /\ l \notin todo => scl_writer[l] = t
      BY <1>3 DEF LockInv, HoldInv, Collected, Todo, WriteFits
    <3>2. /\ p \in HeldAt(l) => t \in scl_count[l]
          /\ p \in WriteAt(l) => scl_writer[l] = t
      BY <1>3 DEF LockInv, HoldInv
    <3>3. scl_writer[l] = t => t \in scl_count[l]
      BY <1>b
    <3>4. CASE todo = {m}
      BY <1>3, <2>4, <2>5, <2>7, <3>1, <3>2, <3>3, <3>4 DEF WriteFits
    <3>5. CASE todo # {m}
      BY <1>3, <2>4, <2>5, <2>7, <3>1, <3>2, <3>3, <3>5 DEF WriteFits
    <3> QED BY <3>4, <3>5
  <2>9. HoldInv'
    <3> SUFFICES ASSUME NEW u \in Threads, u # t, NEW l \in SCL_ALL
                 PROVE  /\ pc[u] \in HeldAt(l) => u \in scl_count'[l]
                        /\ pc[u] \in WriteAt(l) => scl_writer'[l] = u
                        /\ pc[u] \in ReadEnters(l) /\ Collected(u, l)
                             => u \in scl_count'[l]
                        /\ pc[u] \in WriteEnters(l) /\ Collected(u, l)
                             => scl_writer'[l] = u
      BY <2>6, <2>8 DEF HoldInv, Collected
    <3>1. scl_writer[l] = u => scl_writer'[l] = u
      BY <1>4, <1>b, <2>4
    <3> QED BY <2>4, <3>1 DEF LockInv, HoldInv
  <2>10. LeftInv'
    BY <1>1, <1>2, <1>3, <2>6, <2>7 DEF LockInv, LeftInv, WriteFits
  <2> QED BY <2>2, <2>3, <2>9, <2>10 DEF LockInv
<1>5. CASE scl_count[m] # {}
  <2>1. /\ UNCHANGED <<scl_count, pc, scl_writer>>
        /\ left' = [left EXCEPT ![t] = todo]
    BY <1>5 DEF EnterWriter, Sleeps
  <2>2. LockTypes'
    BY <1>a, <1>1, <2>1 DEF LockTypes
  <2>3. HoldInv'
    <3> SUFFICES ASSUME NEW u \in Threads, NEW l \in SCL_ALL
                 PROVE  /\ pc[u] \in ReadEnters(l) /\ Collected(u, l)'
                             => u \in scl_count[l]
                        /\ pc[u] \in WriteEnters(l) /\ Collected(u, l)'
                             => scl_writer[l] = u
      BY <2>1 DEF LockInv, HoldInv
    <3>1. CASE u = t
      <4>1. left'[t] = todo
        BY <1>a, <2>1
      <4> QED BY <1>3, <3>1, <4>1 DEF LockInv, HoldInv, Collected, Todo, WriteFits
    <3>2. CASE u # t
      <4>1. left'[u] = left[u]
        BY <1>a, <2>1, <3>2
      <4> QED BY <4>1 DEF LockInv, HoldInv, Collected
    <3> QED BY <3>1, <3>2
  <2>4. LeftInv' /\ WriterAlone'
    BY <1>a, <1>3, <2>1 DEF LockInv, LeftInv, WriterAlone, WriteFits
  <2> QED BY <2>2, <2>3, <2>4 DEF LockInv
<1> QED BY <1>4, <1>5

LEMMA ExitStep ==
    ASSUME LockInv, NEW t \in Threads, NEW p, NEW locks, NEW q,
           ExitFits(p, locks, q), Exit(t, p, locks, q)
    PROVE  LockInv'
<1>a. /\ scl_writer \in [SCL_ALL -> Threads \cup {NoThread}]
      /\ scl_count \in [SCL_ALL -> SUBSET Threads]
      /\ left \in [Threads -> SUBSET SCL_ALL]
      /\ pc \in [Threads -> Pcs]
      /\ NoThread \notin Threads
  BY ConfigAssumption DEF LockInv, LockTypes
<1>b. \A l \in SCL_ALL : scl_writer[l] \in Threads => scl_count[l] = {scl_writer[l]}
  BY <1>a DEF LockInv, WriterAlone
<1>1. /\ pc[t] = p /\ left' = left
      /\ pc' = [pc EXCEPT ![t] = q]
      /\ scl_count' = [l \in SCL_ALL |->
           IF l \in locks THEN scl_count[l] \ {t} ELSE scl_count[l]]
      /\ scl_writer' = [l \in SCL_ALL |->
           IF l \in locks /\ scl_count[l] = {t} THEN NoThread ELSE scl_writer[l]]
  BY DEF Exit
<1>2. LockTypes'
  BY <1>a, <1>1 DEF LockTypes, ExitFits
<1>3. WriterAlone'
  <2> SUFFICES ASSUME NEW l \in SCL_ALL, scl_writer'[l] # NoThread
               PROVE  scl_count'[l] = {scl_writer'[l]}
    BY DEF WriterAlone
  <2>1. scl_writer'[l] = scl_writer[l] /\ ~(l \in locks /\ scl_count[l] = {t})
    BY <1>1
  <2>2. scl_count[l] = {scl_writer[l]}
    BY <2>1 DEF LockInv, WriterAlone
  <2> QED BY <1>1, <2>1, <2>2
<1>4. left[t] = {}
  BY <1>1 DEF LockInv, LeftInv, ExitFits
<1>5. HoldInv'
  <2> SUFFICES ASSUME NEW u \in Threads, NEW l \in SCL_ALL
               PROVE  /\ pc'[u] \in HeldAt(l) => u \in scl_count'[l]
                      /\ pc'[u] \in WriteAt(l) => scl_writer'[l] = u
                      /\ pc'[u] \in ReadEnters(l) /\ Collected(u, l)
                           => u \in scl_count'[l]
                      /\ pc'[u] \in WriteEnters(l) /\ Collected(u, l)
                           => scl_writer'[l] = u
    BY <1>1 DEF HoldInv, Collected
  <2>1. CASE u = t
    <3>1. pc'[t] = q
      BY <1>a, <1>1
    <3>2. /\ p \in HeldAt(l) => t \in scl_count[l]
          /\ p \in WriteAt(l) => scl_writer[l] = t
      BY <1>1 DEF LockInv, HoldInv
    <3> QED BY <1>1, <1>4, <2>1, <3>1, <3>2 DEF ExitFits, Collected
  <2>2. CASE u # t
    <3>1. pc'[u] = pc[u]
      BY <1>a, <1>1, <2>2
    <3>2. u \in scl_count[l] => u \in scl_count'[l]
      BY <1>1, <2>2
    <3>3. scl_writer[l] = u => scl_writer'[l] = u
      BY <1>1, <1>b, <2>2
    <3> QED BY <3>1, <3>2, <3>3 DEF LockInv, HoldInv
  <2> QED BY <2>1, <2>2
<1>6. LeftInv'
  BY <1>a, <1>1, <1>4 DEF LockInv, LeftInv
<1> QED BY <1>2, <1>3, <1>5, <1>6 DEF LockInv

LEMMA GoesStep ==
    ASSUME LockInv, NEW t \in Threads, NEW p, NEW q,
           ExitFits(p, {}, q), Goes(t, p, q)
    PROVE  LockInv'
<1>a. pc \in [Threads -> Pcs]
  BY DEF LockInv, LockTypes
<1>1. /\ pc[t] = p /\ UNCHANGED <<left, scl_count, scl_writer>>
      /\ pc' = [pc EXCEPT ![t] = q]
  BY DEF Goes, lockVars
<1>2. left[t] = {}
  BY <1>1 DEF LockInv, LeftInv, ExitFits
<1>3. LockTypes' /\ WriterAlone' /\ LeftInv'
  BY <1>a, <1>1, <1>2 DEF LockInv, LockTypes, WriterAlone, LeftInv, ExitFits
<1>4. HoldInv'
  <2> SUFFICES ASSUME NEW u \in Threads, NEW l \in SCL_ALL
               PROVE  /\ pc'[u] \in HeldAt(l) => u \in scl_count[l]
                      /\ pc'[u] \in WriteAt(l) => scl_writer[l] = u
                      /\ pc'[u] \in ReadEnters(l) /\ Collected(u, l)
                           => u \in scl_count[l]
                      /\ pc'[u] \in WriteEnters(l) /\ Collected(u, l)
                           => scl_writer[l] = u
    BY <1>1 DEF HoldInv, Collected
  <2>1. CASE u = t
    <3>1. pc'[t] = q
      BY <1>a, <1>1
    <3> QED BY <1>1, <1>2, <2>1, <3>1 DEF LockInv, HoldInv, ExitFits, Collected
  <2>2. CASE u # t
    <3>1. pc'[u] = pc[u]
      BY <1>a, <1>1, <2>2
    <3> QED BY <3>1 DEF LockInv, HoldInv
  <2> QED BY <2>1, <2>2
<1> QED BY <1>3, <1>4 DEF LockInv

-----------------------------------------------------------------------------
(* Every call in the code fits the tables.                                 *)
LEMMA SyncFits ==
    /\ ReadFits("sync_begin", {SCL_CONFIG}, "sync_state")
    /\ ReadFits("sync_state", {SCL_STATE}, "sync_dirty")
    /\ ExitFits("sync_dirty", {SCL_CONFIG, SCL_STATE}, "sync_upgrade")
    /\ ExitFits("sync_dirty", {SCL_STATE}, "sync_pass")
    /\ WriteFits("sync_upgrade", {SCL_CONFIG, SCL_STATE}, "sync_clean")
    /\ ExitFits("sync_clean", {SCL_CONFIG, SCL_STATE}, "sync_downgrade")
    /\ ReadFits("sync_downgrade", {SCL_CONFIG, SCL_STATE}, "sync_dirty")
    /\ ReadFits("sync_pass", {SCL_ALLOC}, "sync_alloc")
    /\ ReadFits("sync_alloc", {SCL_ZIO}, "sync_zio")
    /\ ExitFits("sync_zio", {SCL_ZIO}, "sync_allocated")
    /\ ExitFits("sync_allocated", {SCL_ALLOC}, "sync_uberblock")
    /\ ReadFits("sync_uberblock", {SCL_STATE}, "sync_labels")
    /\ ExitFits("sync_labels", {SCL_STATE}, "sync_done")
    /\ ExitFits("sync_labels", {SCL_STATE}, "sync_failed")
    /\ ExitFits("sync_done", {SCL_CONFIG}, "sync_return")
    /\ ExitFits("idle", {}, "sync_begin")
    /\ ExitFits("sync_failed", {}, "sync_suspended")
    /\ ExitFits("sync_suspended", {}, "sync_uberblock")
    /\ ExitFits("sync_return", {}, "idle")
BY Locks DEF ReadFits, WriteFits, ExitFits, EnterPcs, Pcs, SyncPcs, HeldAt, WriteAt,
     ReadEnters, WriteEnters

LEMMA LwbFits ==
    /\ ExitFits("idle", {}, "lwb_issue")
    /\ ReadFits("lwb_issue", {SCL_ALLOC}, "lwb_alloc")
    /\ ReadFits("lwb_issue", {SCL_ALLOC}, "lwb_load")
    /\ ReadFits("lwb_load", {SCL_ZIO}, "lwb_read")
    /\ ExitFits("lwb_read", {SCL_ZIO}, "lwb_alloc")
    /\ ExitFits("lwb_alloc", {SCL_ALLOC}, "lwb_allocated")
    /\ ReadFits("lwb_allocated", {SCL_STATE}, "lwb_issued")
    /\ ReadFits("lwb_issued", {SCL_ZIO}, "lwb_zio")
    /\ ExitFits("lwb_zio", {SCL_ZIO}, "lwb_flush")
    /\ ExitFits("lwb_flush", {SCL_STATE}, "lwb_flushed")
    /\ ExitFits("lwb_flushed", {}, "idle")
BY Locks DEF ReadFits, ExitFits, EnterPcs, Pcs, LwbPcs, HeldAt, WriteAt,
     ReadEnters, WriteEnters

LEMMA VdevFits ==
    /\ ExitFits("idle", {}, "vdev_enter")
    /\ ExitFits("vdev_enter", {}, "vdev_config_enter")
    /\ WriteFits("vdev_config_enter", SCL_ALL, "vdev_change")
    /\ ExitFits("vdev_change", SCL_ALL, "vdev_wait")
    /\ ExitFits("vdev_change", SCL_ALL, "vdev_exit")
    /\ ExitFits("vdev_change", SCL_ALL, "vdev_free_enter")
    /\ ExitFits("vdev_wait", {}, "vdev_free_enter")
    /\ ExitFits("vdev_wait", {}, "vdev_exit")
    /\ WriteFits("vdev_free_enter", SCL_ALL, "vdev_free")
    /\ ExitFits("vdev_free", SCL_ALL, "vdev_exit")
    /\ ExitFits("vdev_exit", {}, "idle")
BY Locks DEF WriteFits, ExitFits, EnterPcs, Pcs, VdevPcs, HeldAt, WriteAt,
     ReadEnters, WriteEnters

LEMMA StateFits ==
    ASSUME KindInv, NEW t \in StateOps
    PROVE  /\ ExitFits("idle", {}, "state_enter")
           /\ WriteFits("state_enter", HighLocks(t), "state_hold")
           /\ WriteFits("state_enter", HighLocks(t), "state_held")
           /\ ReadFits("state_hold", {SCL_ZIO}, "state_zio")
           /\ ExitFits("state_zio", {SCL_ZIO}, "state_held")
           /\ WriteFits("state_held", StateLocks(t) \ HighLocks(t), "state_change")
           /\ ExitFits("state_change", StateLocks(t), "state_wait")
           /\ ExitFits("state_change", StateLocks(t), "state_resume")
           /\ ExitFits("state_change", StateLocks(t), "idle")
           /\ ExitFits("state_wait", {}, "state_waiting")
           /\ ExitFits("state_waiting", {}, "idle")
           /\ ExitFits("state_resume", {}, "idle")
<1>1. oplocks[t] \subseteq {SCL_ALLOC}
  BY DEF KindInv
<1>2. HighLocks(t) = {SCL_STATE} \cup oplocks[t]
  BY <1>1 DEF HighLocks, StateLocks, SCL_STATE_ALL, SCL_STATE, SCL_ZIO, SCL_ALLOC
<1>3. StateLocks(t) = {SCL_STATE, SCL_ZIO} \cup oplocks[t]
  BY DEF StateLocks, SCL_STATE_ALL
<1>4. StateLocks(t) \ HighLocks(t) = {SCL_ZIO}
  BY <1>1, <1>2, <1>3, Locks
<1>5. /\ WriteFits("state_enter", HighLocks(t), "state_hold")
      /\ WriteFits("state_enter", HighLocks(t), "state_held")
  BY Locks, <1>1, <1>2 DEF WriteFits, EnterPcs, Pcs, StatePcs, HeldAt,
       WriteAt, ReadEnters, WriteEnters
<1>6. WriteFits("state_held", StateLocks(t) \ HighLocks(t), "state_change")
  BY Locks, <1>4 DEF WriteFits, EnterPcs, Pcs, StatePcs, HeldAt, WriteAt,
       ReadEnters, WriteEnters
<1>7. /\ ExitFits("state_change", StateLocks(t), "state_wait")
      /\ ExitFits("state_change", StateLocks(t), "state_resume")
      /\ ExitFits("state_change", StateLocks(t), "idle")
  BY Locks DEF ExitFits, EnterPcs, Pcs, StatePcs, HeldAt, WriteAt
<1>8. /\ ReadFits("state_hold", {SCL_ZIO}, "state_zio")
      /\ ExitFits("state_zio", {SCL_ZIO}, "state_held")
  BY Locks DEF ReadFits, ExitFits, EnterPcs, Pcs, StatePcs, HeldAt, WriteAt,
       ReadEnters, WriteEnters
<1>9. /\ ExitFits("idle", {}, "state_enter")
      /\ ExitFits("state_wait", {}, "state_waiting")
      /\ ExitFits("state_waiting", {}, "idle")
      /\ ExitFits("state_resume", {}, "idle")
  BY Locks DEF ExitFits, EnterPcs, Pcs, StatePcs, HeldAt, WriteAt
<1> QED BY <1>5, <1>6, <1>7, <1>8, <1>9

LEMMA LockStep ==
    ASSUME LockInv, KindInv, [Next]_vars
    PROVE  LockInv'
<1>t. /\ Sync \in Threads /\ LogWriters \subseteq Threads
      /\ VdevOps \subseteq Threads /\ StateOps \subseteq Threads
  BY DEF Threads, Admins
<1>0. CASE UNCHANGED <<lockVars, pc>>
  BY <1>0 DEF lockVars, LockInv, LockTypes, WriterAlone, HoldInv, LeftInv, Collected
<1>1. CASE SyncThread
  <2>1. CASE SyncCall
    BY <1>t, <2>1, SyncFits, ReaderStep, WriterStep, ExitStep DEF SyncCall, SyncCalls
  <2>2. CASE SyncStateClean \/ SyncLabelsFail \/ SyncUbsync
    BY <1>t, <2>2, SyncFits, ExitStep DEF SyncStateClean, SyncLabelsFail, SyncUbsync
  <2>3. CASE SyncStart \/ ZioSuspend \/ ZioResumeWait \/ SyncReturn
    BY <1>t, <2>3, SyncFits, GoesStep DEF SyncStart, ZioSuspend, ZioResumeWait,
         SyncReturn
  <2> QED BY <1>1, <2>1, <2>2, <2>3 DEF SyncThread
<1>2. ASSUME NEW t \in LogWriters, LogWriter(t)
      PROVE  LockInv'
  <2>1. CASE LwbCall(t)
    BY <1>t, <2>1, LwbFits, ReaderStep, ExitStep DEF LwbCall, LwbCalls
  <2>2. CASE LwbIssue(t) \/ LwbDone(t)
    BY <1>t, <2>2, LwbFits, GoesStep DEF LwbIssue, LwbDone
  <2> QED BY <1>2, <2>1, <2>2 DEF LogWriter
<1>3. ASSUME NEW t \in VdevOps, VdevOp(t)
      PROVE  LockInv'
  <2>1. CASE VdevCall(t)
    BY <1>t, <2>1, VdevFits, WriterStep, ExitStep, GoesStep DEF VdevCall, VdevCalls
  <2>2. CASE VdevChange(t)
    BY <1>t, <2>2, VdevFits, ExitStep DEF VdevChange
  <2>3. CASE VdevStart(t) \/ VdevEnter(t) \/ VdevExit(t)
    BY <1>t, <2>3, VdevFits, GoesStep DEF VdevStart, VdevEnter, VdevExit
  <2> QED BY <1>3, <2>1, <2>2, <2>3 DEF VdevOp
<1>4. ASSUME NEW t \in StateOps, StateOp(t)
      PROVE  LockInv'
  <2>1. CASE StateCall(t)
    BY <1>t, <2>1, StateFits, ReaderStep, WriterStep, ExitStep
       DEF StateCall, StateCalls
  <2>2. CASE StateChange(t) \/ StateFail(t) \/ StateClear(t)
    BY <1>t, <2>2, StateFits, ExitStep DEF StateChange, StateFail, StateClear
  <2>3. CASE StateOpen(t) \/ StateWait(t) \/ StateCache(t) \/ ZioResume(t)
    BY <1>t, <2>3, StateFits, GoesStep DEF StateOpen, StateWait, StateCache, ZioResume
  <2> QED BY <1>4, <2>1, <2>2, <2>3 DEF StateOp
<1>5. CASE CloseTxg \/ UNCHANGED vars
  BY <1>0, <1>5 DEF CloseTxg, vars
<1> QED BY <1>1, <1>2, <1>3, <1>4, <1>5 DEF Next

(* Which places a thread can be at.                                        *)
LEMMA PcStep ==
    ASSUME NEW t \in Threads, NEW p, NEW locks, NEW q, pc \in [Threads -> Pcs],
           \/ EnterReader(t, p, locks, q) \/ EnterWriter(t, p, locks, q)
           \/ Exit(t, p, locks, q) \/ Goes(t, p, q)
    PROVE  /\ pc[t] = p /\ pc'[t] \in {p, q}
           /\ \A u \in Threads : u # t => pc'[u] = pc[u]
<1>1. pc[t] = p /\ (pc' = pc \/ pc' = [pc EXCEPT ![t] = q]
                    \/ \E b : pc' = [pc EXCEPT ![t] = IF b THEN q ELSE pc[t]])
  BY DEF EnterReader, EnterWriter, Exit, Goes, Takes, Sleeps
<1> QED BY <1>1

LEMMA KindStep ==
    ASSUME LockInv, KindInv, [Next]_vars
    PROVE  KindInv'
<1>t. /\ Sync \in Threads /\ LogWriters \subseteq Threads
      /\ VdevOps \subseteq Threads /\ StateOps \subseteq Threads
      /\ Sync \notin LogWriters /\ Sync \notin VdevOps /\ Sync \notin StateOps
      /\ LogWriters \cap VdevOps = {} /\ LogWriters \cap StateOps = {}
      /\ VdevOps \cap StateOps = {}
  BY ConfigAssumption DEF Threads, Admins
<1>a. pc \in [Threads -> Pcs]
  BY DEF LockInv, LockTypes
<1>1. CASE SyncThread
  <2>1. /\ pc'[Sync] \in SyncPcs
        /\ \A u \in Threads : u # Sync => pc'[u] = pc[u]
    <3>1. CASE SyncCall
      BY <1>t, <1>a, <3>1, PcStep DEF SyncCall, SyncCalls, SyncPcs
    <3>2. CASE SyncStateClean \/ SyncLabelsFail \/ SyncUbsync
      BY <1>t, <1>a, <3>2, PcStep DEF SyncStateClean, SyncLabelsFail, SyncUbsync,
           SyncPcs
    <3>3. CASE SyncStart \/ ZioSuspend \/ ZioResumeWait \/ SyncReturn
      BY <1>t, <1>a, <3>3, PcStep DEF SyncStart, ZioSuspend, ZioResumeWait,
           SyncReturn, SyncPcs
    <3> QED BY <1>1, <3>1, <3>2, <3>3 DEF SyncThread
  <2>2. oplocks' = oplocks
    BY <1>1 DEF SyncThread, SyncCall, SyncStateClean, SyncLabelsFail, SyncUbsync,
         SyncStart, ZioSuspend, ZioResumeWait, SyncReturn
  <2> QED BY <1>t, <2>1, <2>2 DEF KindInv
<1>2. ASSUME NEW t \in LogWriters, LogWriter(t)
      PROVE  KindInv'
  <2>1. /\ pc'[t] \in LwbPcs
        /\ \A u \in Threads : u # t => pc'[u] = pc[u]
    BY <1>t, <1>a, <1>2, PcStep DEF LogWriter, LwbIssue, LwbCall, LwbCalls, LwbDone,
         LwbPcs
  <2>2. oplocks' = oplocks
    BY <1>2 DEF LogWriter, LwbIssue, LwbCall, LwbDone
  <2> QED BY <1>t, <2>1, <2>2 DEF KindInv
<1>3. ASSUME NEW t \in VdevOps, VdevOp(t)
      PROVE  KindInv'
  <2>1. /\ pc'[t] \in VdevPcs
        /\ \A u \in Threads : u # t => pc'[u] = pc[u]
    BY <1>t, <1>a, <1>3, PcStep DEF VdevOp, VdevStart, VdevEnter, VdevChange, VdevCall,
         VdevCalls, VdevExit, VdevPcs
  <2>2. oplocks' = oplocks
    BY <1>3 DEF VdevOp, VdevStart, VdevEnter, VdevChange, VdevCall, VdevExit
  <2> QED BY <1>t, <2>1, <2>2 DEF KindInv
<1>4. ASSUME NEW t \in StateOps, StateOp(t)
      PROVE  KindInv'
  <2>1. /\ pc'[t] \in StatePcs
        /\ \A u \in Threads : u # t => pc'[u] = pc[u]
    <3>1. CASE StateCall(t)
      BY <1>t, <1>a, <3>1, PcStep DEF StateCall, StateCalls, StatePcs
    <3>2. CASE StateChange(t) \/ StateFail(t) \/ StateClear(t)
      BY <1>t, <1>a, <3>2, PcStep DEF StateChange, StateFail, StateClear, StatePcs
    <3>3. CASE StateOpen(t) \/ StateWait(t) \/ StateCache(t) \/ ZioResume(t)
      BY <1>t, <1>a, <3>3, PcStep DEF StateOpen, StateWait, StateCache, ZioResume,
           StatePcs
    <3> QED BY <1>4, <3>1, <3>2, <3>3 DEF StateOp
  <2>2. oplocks' \in [StateOps -> SUBSET {SCL_ALLOC}]
    BY <1>4 DEF StateOp, StateCall, StateChange, StateFail, StateClear, StateOpen,
         StateWait, StateCache, ZioResume, KindInv
  <2> QED BY <1>t, <2>1, <2>2 DEF KindInv
<1>5. CASE CloseTxg \/ UNCHANGED vars
  BY <1>5 DEF CloseTxg, vars, KindInv
<1> QED BY <1>1, <1>2, <1>3, <1>4, <1>5 DEF Next

-----------------------------------------------------------------------------
(* The changes that wait to be synced.                                     *)
LEMMA DirtyStep ==
    ASSUME LockInv, KindInv, DirtyInv, [Next]_vars
    PROVE  DirtyInv'
<1>t. /\ Sync \in Threads /\ LogWriters \subseteq Threads
      /\ VdevOps \subseteq Threads /\ StateOps \subseteq Threads
      /\ Sync \notin LogWriters /\ Sync \notin VdevOps /\ Sync \notin StateOps
      /\ LogWriters \cap VdevOps = {} /\ LogWriters \cap StateOps = {}
      /\ VdevOps \cap StateOps = {}
      /\ TXG_DEFER_SIZE \in Nat
  BY ConfigAssumption DEF Threads, Admins
<1>a. /\ pc \in [Threads -> Pcs] /\ waitfor \in [Threads -> Nat]
      /\ pc[Sync] \in SyncPcs
      /\ \A t \in VdevOps : pc[t] \in VdevPcs
      /\ \A t \in StateOps : pc[t] \in StatePcs
  BY DEF LockInv, LockTypes, DirtyInv, KindInv
<1>b. synced \in Nat
  BY DEF DirtyInv
(* Steps that leave the lists and the waits alone.                         *)
<1>0. ASSUME UNCHANGED <<dirtyVars, synced, waitfor>>,
             pc'[Sync] = "sync_return" <=> pc[Sync] = "sync_return",
             \/ pc[Sync] \in BeforeClean <=> pc'[Sync] \in BeforeClean
             \/ spa_state_dirty_list = {},
             \A t \in VdevOps : pc'[t] # pc[t] =>
                pc[t] # "vdev_wait" \/ t \notin spa_config_dirty_list,
             \A t \in StateOps : pc'[t] = "state_waiting" => pc[t] = "state_waiting"
      PROVE  DirtyInv'
  BY <1>0 DEF DirtyInv, dirtyVars
<1>1. CASE SyncThread
  <2>0. ASSUME NEW p, NEW q, NEW locks,
               \/ EnterReader(Sync, p, locks, q) \/ EnterWriter(Sync, p, locks, q)
               \/ Exit(Sync, p, locks, q) \/ Goes(Sync, p, q)
        PROVE  /\ pc[Sync] = p /\ pc'[Sync] \in {p, q}
               /\ \A t \in VdevOps : pc'[t] = pc[t]
               /\ \A t \in StateOps : pc'[t] = pc[t]
    BY <1>t, <1>a, <2>0, PcStep
  <2>1. CASE SyncCall
    <3>1. /\ UNCHANGED <<dirtyVars, synced, waitfor>>
          /\ SyncCalls
      BY <2>1 DEF SyncCall, txgVars
    <3>2. /\ \A t \in VdevOps : pc'[t] = pc[t]
          /\ \A t \in StateOps : pc'[t] = pc[t]
          /\ pc'[Sync] = "sync_return" <=> pc[Sync] = "sync_return"
          /\ \/ pc[Sync] \in BeforeClean <=> pc'[Sync] \in BeforeClean
             \/ spa_state_dirty_list = {}
      BY <2>0, <3>1 DEF SyncCalls, BeforeClean
    <3> QED BY <1>0, <3>1, <3>2
  <2>2. CASE SyncLabelsFail \/ ZioSuspend \/ ZioResumeWait \/ SyncStart
    <3>1. UNCHANGED <<dirtyVars, synced, waitfor>>
      BY <2>2 DEF SyncLabelsFail, ZioSuspend, ZioResumeWait, SyncStart, txgVars
    <3>2. /\ \A t \in VdevOps : pc'[t] = pc[t]
          /\ \A t \in StateOps : pc'[t] = pc[t]
          /\ pc'[Sync] = "sync_return" <=> pc[Sync] = "sync_return"
          /\ pc[Sync] \in BeforeClean <=> pc'[Sync] \in BeforeClean
      <4>1. CASE SyncLabelsFail
        BY <4>1, <2>0 DEF SyncLabelsFail, BeforeClean
      <4>2. CASE ZioSuspend
        BY <4>2, <1>t, <1>a DEF ZioSuspend, Goes, BeforeClean
      <4>3. CASE ZioResumeWait
        BY <4>3, <1>t, <1>a DEF ZioResumeWait, Goes, BeforeClean
      <4>4. CASE SyncStart
        BY <4>4, <1>t, <1>a DEF SyncStart, Goes, BeforeClean
      <4> QED BY <2>2, <4>1, <4>2, <4>3, <4>4
    <3> QED BY <1>0, <3>1, <3>2
  <2>3. CASE SyncStateClean
    <3>1. /\ pc[Sync] = "sync_clean" /\ pc'[Sync] = "sync_downgrade"
          /\ \A t \in VdevOps : pc'[t] = pc[t]
          /\ \A t \in StateOps : pc'[t] = pc[t]
      BY <2>3, <2>0, <1>t, <1>a DEF SyncStateClean, Exit
    <3>2. /\ spa_config_dirty_list' = spa_config_dirty_list \cup spa_state_dirty_list
          /\ spa_state_dirty_list' = {} /\ UNCHANGED <<synced, waitfor>>
      BY <2>3 DEF SyncStateClean, txgVars
    <3>3. synced = 0
      BY <3>1 DEF DirtyInv
    <3>4. \A t \in VdevOps : t \notin spa_state_dirty_list
      BY <1>t DEF DirtyInv
    <3> QED BY <1>a, <3>1, <3>2, <3>3, <3>4 DEF DirtyInv, BeforeClean
  <2>4. CASE SyncUbsync
    <3>1. /\ pc[Sync] = "sync_done" /\ pc'[Sync] = "sync_return"
          /\ \A t \in VdevOps : pc'[t] = pc[t]
          /\ \A t \in StateOps : pc'[t] = pc[t]
      BY <2>4, <2>0, <1>t, <1>a DEF SyncUbsync, Exit
    <3>2. /\ spa_config_dirty_list' = {} /\ synced' = 1
          /\ UNCHANGED <<waitfor, spa_state_dirty_list>>
      BY <2>4 DEF SyncUbsync
    <3> QED BY <1>a, <3>1, <3>2 DEF DirtyInv, BeforeClean
  <2>5. CASE SyncReturn
    <3>1. /\ pc[Sync] = "sync_return" /\ pc'[Sync] = "idle"
          /\ \A t \in VdevOps : pc'[t] = pc[t]
          /\ \A t \in StateOps : pc'[t] = pc[t]
      BY <2>5, <2>0, <1>t, <1>a DEF SyncReturn, Goes
    <3>2. /\ synced' = 0 /\ UNCHANGED dirtyVars
          /\ waitfor' = [t \in Threads |->
                           IF waitfor[t] = 0 THEN 0 ELSE waitfor[t] - 1]
      BY <2>5 DEF SyncReturn
    <3>3. waitfor' \in [Threads -> Nat]
      BY <1>a, <3>2
    <3>4. synced = 1
      BY <3>1 DEF DirtyInv
    <3>5. \A t \in Threads : waitfor[t] >= 2 => waitfor'[t] >= 1
      BY <1>a, <3>2
    <3>6. \A t \in VdevOps : t \in spa_config_dirty_list' =>
            pc'[t] = "vdev_wait" /\ waitfor'[t] >= 1
      BY <1>t, <3>1, <3>2, <3>4, <3>5 DEF DirtyInv, dirtyVars
    <3>7. \A t \in StateOps : pc'[t] = "state_waiting" =>
            /\ t \in spa_config_dirty_list' => waitfor'[t] >= 1
            /\ t \in spa_state_dirty_list' => waitfor'[t] >= 1
      BY <1>t, <3>1, <3>2, <3>4, <3>5 DEF DirtyInv, dirtyVars, BeforeClean
    <3> QED BY <3>1, <3>2, <3>3, <3>6, <3>7 DEF DirtyInv, dirtyVars, BeforeClean
  <2> QED BY <1>1, <2>1, <2>2, <2>3, <2>4, <2>5 DEF SyncThread
<1>2. ASSUME NEW t \in LogWriters, LogWriter(t)
      PROVE  DirtyInv'
  <2>1. \A u \in Threads : u # t => pc'[u] = pc[u]
    BY <1>t, <1>a, <1>2, PcStep DEF LogWriter, LwbIssue, LwbCall, LwbCalls, LwbDone
  <2>2. UNCHANGED <<dirtyVars, synced, waitfor>>
    BY <1>2 DEF LogWriter, LwbIssue, LwbCall, LwbDone, txgVars
  <2> QED BY <1>0, <1>t, <2>1, <2>2
<1>3. ASSUME NEW t \in VdevOps, VdevOp(t)
      PROVE  DirtyInv'
  <2>1. /\ \A u \in Threads : u # t => pc'[u] = pc[u]
        /\ pc'[Sync] = pc[Sync] /\ \A u \in StateOps : pc'[u] = pc[u]
    <3>1. \A u \in Threads : u # t => pc'[u] = pc[u]
      BY <1>t, <1>a, <1>3, PcStep DEF VdevOp, VdevStart, VdevEnter, VdevChange, VdevCall,
           VdevCalls, VdevExit
    <3> QED BY <1>t, <3>1
  <2>2. CASE VdevChange(t)
    <3>1. /\ pc'[t] = "vdev_wait"
          /\ spa_config_dirty_list' = spa_config_dirty_list \cup {t}
          /\ waitfor' = [waitfor EXCEPT ![t] = synced + 1]
          /\ UNCHANGED <<synced, spa_state_dirty_list>>
      BY <1>t, <1>a, <2>2 DEF VdevChange, Exit, VdevTxg
    <3>a. synced + 1 \in Nat
      BY <1>b DEF DirtyInv
    <3>2. waitfor' \in [Threads -> Nat]
      BY <1>a, <1>b, <3>1, <3>a DEF DirtyInv
    <3>3. /\ waitfor'[t] = synced + 1
          /\ \A u \in Threads : u # t => waitfor'[u] = waitfor[u]
      BY <1>t, <1>a, <3>1
    <3>4. \A u \in VdevOps : u \in spa_config_dirty_list' =>
            pc'[u] = "vdev_wait" /\ waitfor'[u] >= 1 + synced
      BY <1>b, <1>t, <2>1, <3>1, <3>3 DEF DirtyInv
    <3>5. \A u \in StateOps : u # t /\ waitfor'[u] = waitfor[u]
      BY <1>t, <3>3
    <3> QED BY <2>1, <3>1, <3>2, <3>4, <3>5 DEF DirtyInv
  <2>3. CASE VdevCall(t)
    <3>1. UNCHANGED <<dirtyVars, synced, waitfor>>
      BY <2>3 DEF VdevCall, txgVars
    <3>2. pc[t] = "vdev_wait" => waitfor[t] = 0 \/ pc'[t] = pc[t]
      <4>1. CASE \/ EnterWriter(t, "vdev_config_enter", SCL_ALL, "vdev_change")
                \/ Exit(t, "vdev_change", SCL_ALL, "vdev_exit")
                \/ Exit(t, "vdev_change", SCL_ALL, "vdev_free_enter")
                \/ EnterWriter(t, "vdev_free_enter", SCL_ALL, "vdev_free")
                \/ Exit(t, "vdev_free", SCL_ALL, "vdev_exit")
        BY <4>1 DEF EnterWriter, Exit
      <4> QED BY <2>3, <4>1 DEF VdevCall, VdevCalls
    <3>3. pc'[t] # pc[t] => pc[t] # "vdev_wait" \/ t \notin spa_config_dirty_list
      BY <1>b, <3>2 DEF DirtyInv
    <3> QED BY <1>0, <1>t, <2>1, <3>1, <3>3
  <2>4. CASE VdevStart(t) \/ VdevEnter(t) \/ VdevExit(t)
    <3>1. UNCHANGED <<dirtyVars, synced, waitfor>>
      BY <2>4 DEF VdevStart, VdevEnter, VdevExit, txgVars
    <3>2. pc[t] # "vdev_wait"
      BY <2>4 DEF VdevStart, VdevEnter, VdevExit, Goes
    <3> QED BY <1>0, <1>t, <2>1, <3>1, <3>2
  <2> QED BY <1>3, <2>2, <2>3, <2>4 DEF VdevOp
<1>4. ASSUME NEW t \in StateOps, StateOp(t)
      PROVE  DirtyInv'
  <2>1. /\ \A u \in Threads : u # t => pc'[u] = pc[u]
        /\ pc'[Sync] = pc[Sync] /\ \A u \in VdevOps : pc'[u] = pc[u]
    <3>1. \A u \in Threads : u # t => pc'[u] = pc[u]
      <4>1. CASE StateCall(t)
        BY <1>t, <1>a, <4>1, PcStep DEF StateCall, StateCalls
      <4>2. CASE StateChange(t) \/ StateFail(t) \/ StateClear(t)
        BY <1>t, <1>a, <4>2, PcStep DEF StateChange, StateFail, StateClear
      <4>3. CASE StateOpen(t) \/ StateWait(t) \/ StateCache(t) \/ ZioResume(t)
        BY <1>t, <1>a, <4>3, PcStep DEF StateOpen, StateWait, StateCache, ZioResume
      <4> QED BY <1>4, <4>1, <4>2, <4>3 DEF StateOp
    <3> QED BY <1>t, <3>1
  <2>2. CASE StateCall(t)
    <3>1. UNCHANGED <<dirtyVars, synced, waitfor>>
      BY <2>2 DEF StateCall, txgVars
    <3>2. pc'[t] # "state_waiting"
      BY <1>t, <1>a, <2>2, PcStep DEF StateCall, StateCalls
    <3> QED BY <1>0, <1>t, <2>1, <3>1, <3>2
  <2>3. CASE StateFail(t) \/ StateOpen(t) \/ StateCache(t) \/ ZioResume(t)
    <3>1. UNCHANGED <<dirtyVars, synced, waitfor>>
      BY <2>3 DEF StateFail, StateOpen, StateCache, ZioResume, txgVars
    <3>2. pc'[t] # "state_waiting"
      BY <1>t, <1>a, <2>3 DEF StateFail, StateOpen, StateCache, ZioResume, Exit, Goes
    <3> QED BY <1>0, <1>t, <2>1, <3>1, <3>2
  <2>4. CASE StateChange(t) \/ StateClear(t)
    <3>1. /\ UNCHANGED <<spa_config_dirty_list, synced, waitfor>>
          /\ \A u : u # t => (u \in spa_state_dirty_list' <=> u \in spa_state_dirty_list)
          /\ spa_state_dirty_list' \subseteq spa_state_dirty_list \cup {t}
      BY <2>4 DEF StateChange, StateClear, txgVars
    <3>2. pc'[t] # "state_waiting"
      BY <1>t, <1>a, <2>4 DEF StateChange, StateClear, Exit
    <3> QED BY <1>t, <2>1, <3>1, <3>2 DEF DirtyInv
  <2>5. CASE StateWait(t)
    <3>1. /\ UNCHANGED <<dirtyVars, synced>>
          /\ waitfor' = [waitfor EXCEPT ![t] = OpenDeferred]
      BY <2>5 DEF StateWait
    <3>2. /\ OpenDeferred \in Nat /\ OpenDeferred >= 1
          /\ pc[Sync] # "idle" => OpenDeferred >= 2
      BY <1>t DEF OpenDeferred
    <3>3. waitfor' \in [Threads -> Nat]
      BY <1>a, <3>1, <3>2
    <3>4. /\ waitfor'[t] = OpenDeferred
          /\ \A u \in Threads : u # t => waitfor'[u] = waitfor[u]
      BY <1>t, <1>a, <3>1
    <3>5. /\ OpenDeferred >= 1 + synced
          /\ OpenDeferred >= IF pc[Sync] \in BeforeClean THEN 1 ELSE 2
      BY <3>2 DEF DirtyInv, BeforeClean
    <3>6. \A u \in VdevOps : waitfor'[u] = waitfor[u]
      BY <1>t, <3>4
    <3>7. \A u \in StateOps : u # t => waitfor'[u] = waitfor[u] /\ pc'[u] = pc[u]
      BY <1>t, <2>1, <3>4
    <3>8. \A u \in StateOps : pc'[u] = "state_waiting" =>
            /\ u \in spa_config_dirty_list' => waitfor'[u] >= 1 + synced'
            /\ u \in spa_state_dirty_list' =>
                 waitfor'[u] >= IF pc'[Sync] \in BeforeClean THEN 1 ELSE 2
      <4> SUFFICES ASSUME NEW u \in StateOps, pc'[u] = "state_waiting"
                   PROVE  /\ u \in spa_config_dirty_list => waitfor'[u] >= 1 + synced
                          /\ u \in spa_state_dirty_list =>
                               waitfor'[u] >= IF pc[Sync] \in BeforeClean THEN 1 ELSE 2
        BY <2>1, <3>1 DEF dirtyVars
      <4>1. CASE u = t
        BY <3>4, <3>5, <4>1
      <4>2. CASE u # t
        BY <3>7, <4>2 DEF DirtyInv
      <4> QED BY <4>1, <4>2
    <3> QED BY <2>1, <3>1, <3>3, <3>6, <3>8 DEF DirtyInv, dirtyVars
  <2> QED BY <1>4, <2>2, <2>3, <2>4, <2>5 DEF StateOp
<1>5. CASE CloseTxg \/ UNCHANGED vars
  BY <1>0, <1>5 DEF CloseTxg, vars, txgVars
<1> QED BY <1>1, <1>2, <1>3, <1>4, <1>5 DEF Next

LEMMA ConfigInvariance == Spec => []CInv
<1>1. Init => CInv
  <2> SUFFICES ASSUME Init PROVE CInv
    OBVIOUS
  <2>1. LockTypes /\ KindInv
    BY DEF Init, LockTypes, KindInv, Pcs, SyncPcs, LwbPcs, VdevPcs, StatePcs, Threads,
         Admins
  <2>2. WriterAlone /\ LeftInv
    BY DEF Init, WriterAlone, LeftInv
  <2>3. HoldInv
    BY Locks DEF Init, HoldInv, Collected, HeldAt, WriteAt
  <2>4. DirtyInv
    BY ConfigAssumption DEF Init, DirtyInv, Threads, Admins
  <2> QED BY <2>1, <2>2, <2>3, <2>4 DEF CInv, LockInv
<1>2. CInv /\ [Next]_vars => CInv'
  BY LockStep, KindStep, DirtyStep DEF CInv
<1> QED BY <1>1, <1>2, PTL DEF Spec

(* However many threads there are, nobody allocates, writes or has a zio   *)
(* in flight while the vdev tree or the vdev states are changed, though    *)
(* the locks are taken one by one and dropped and taken again in between.  *)
THEOREM ConfigSafe == Spec => []ConfigStable
<1>1. LockInv => ConfigStable
  <2> SUFFICES ASSUME LockInv, NEW t \in Threads, NEW u \in Threads, t # u
               PROVE  ~ \E l \in SCL_ALL : pc[t] \in WriteAt(l) /\ pc[u] \in HeldAt(l)
    BY Locks DEF ConfigStable, WriteAt, HeldAt
  <2> SUFFICES ASSUME NEW l \in SCL_ALL, pc[t] \in WriteAt(l), pc[u] \in HeldAt(l)
               PROVE  FALSE
    OBVIOUS
  <2>1. scl_writer[l] = t /\ u \in scl_count[l]
    BY DEF LockInv, HoldInv
  <2>2. scl_count[l] = {t}
    BY <2>1, ConfigAssumption DEF LockInv, WriterAlone
  <2> QED BY <2>1, <2>2
<1> QED BY ConfigInvariance, <1>1, PTL DEF CInv

(* "zpool(8) commands are synchronous": for any number of administrators,  *)
(* a command that is done waiting has its change on disk.                  *)
THEOREM ChangesSafe == Spec => []ChangesSynced
<1>1. KindInv /\ DirtyInv => ChangesSynced
  <2> SUFFICES ASSUME KindInv, DirtyInv, NEW t \in Admins, waitfor[t] = 0,
                      pc[t] \in {"vdev_wait", "vdev_free_enter", "vdev_free",
                                 "vdev_exit", "state_waiting"}
               PROVE  t \notin spa_state_dirty_list \cup spa_config_dirty_list
    BY DEF ChangesSynced
  <2>1. synced \in Nat
    BY DEF DirtyInv
  <2>2. CASE t \in VdevOps
    BY <2>1, <2>2, ConfigAssumption DEF DirtyInv
  <2>3. CASE t \in StateOps
    <3>1. pc[t] = "state_waiting"
      BY <2>3 DEF KindInv, StatePcs
    <3> QED BY <2>1, <2>3, <3>1 DEF DirtyInv
  <2> QED BY <2>2, <2>3 DEF Admins
<1> QED BY ConfigInvariance, <1>1, PTL DEF CInv
=============================================================================
