------------------------------ MODULE Rrmlock ------------------------------
(***************************************************************************)
(* The reader-mostly lock of ZFS (rrm_* of src/kernel/fs/zfs/rrwlock.c):   *)
(* an array of rrwlocks.  A reader enters the one its thread address maps  *)
(* to, a writer enters all of them one after the other.                    *)
(***************************************************************************)
EXTENDS Rrwlock

CONSTANT RRM_NUM_LOCKS

ASSUME RrmAssumption ==
    /\ RRM_NUM_LOCKS \in Nat \ {0}
    /\ Locks = 0 .. RRM_NUM_LOCKS - 1
    /\ FALSE \in Prios      \* rrm_enter_read calls rrw_enter_read

VARIABLES
    td_lock,    \* RRM_TD_LOCK(): the lock of each thread; never changes
    w_st,       \* where each thread is in rrm_enter_write and rrm_exit
    w_i         \* the index of that loop

rrmVars == <<rrVars, td_lock, w_st, w_i>>

(* The lock of each thread and the place of each writer in its loops.      *)
RrmTypeOK ==
    /\ RrwTypeOK
    /\ td_lock \in [Threads -> Locks]
    /\ w_st \in [Threads -> {"none", "entering", "held", "exiting"}]
    /\ w_i \in [Threads -> 0 .. RRM_NUM_LOCKS]

RrmInit ==
    /\ RrwInit
    /\ td_lock \in [Threads -> Locks]
    /\ w_st = [t \in Threads |-> "none"]
    /\ w_i = [t \in Threads |-> 0]

RrmEnterRead(t, h) ==
    /\ w_st[t] = "none"
    /\ RrwEnterRead(t, td_lock[t], h, FALSE)
    /\ UNCHANGED <<td_lock, w_st, w_i>>

RrmReadWake(t) == RrwReadWake(t) /\ UNCHANGED <<td_lock, w_st, w_i>>

(* rrm_enter_write is called.                                              *)
RrmEnterWrite(t) ==
    /\ w_st[t] = "none"
    /\ call[t] = Idle
    /\ \A l \in Locks : ~Reads(t, l)
    /\ w_st' = [w_st EXCEPT ![t] = "entering"]
    /\ w_i' = [w_i EXCEPT ![t] = 0]
    /\ UNCHANGED <<rrVars, td_lock>>

(* Mutant: each writer starts with the lock of its own thread.             *)
LockAtOwn(t, i) == (td_lock[t] + i) % RRM_NUM_LOCKS
(* The lock entered and left in round i of the loops.                      *)
LockAt(t, i) == i

(* One round of its loop: enter a lock, or go on once the lock is ours.    *)
RrmWriteStep(t) ==
    /\ w_st[t] = "entering"
    /\ RrwEnterWrite(t, LockAt(t, w_i[t])) \/ RrwWriteWake(t)
    /\ IF rr_writer'[LockAt(t, w_i[t])] = t
       THEN /\ w_i' = [w_i EXCEPT ![t] = @ + 1]
            /\ w_st' = [w_st EXCEPT ![t] =
                 IF w_i[t] + 1 = RRM_NUM_LOCKS THEN "held" ELSE @]
       ELSE UNCHANGED <<w_i, w_st>>
    /\ UNCHANGED td_lock

(* rrm_exit by a thread that finds itself the writer of lock 0 ...         *)
RrmExitWrite(t) ==
    /\ w_st[t] = "held"
    /\ rr_writer[0] = t
    /\ w_st' = [w_st EXCEPT ![t] = "exiting"]
    /\ w_i' = [w_i EXCEPT ![t] = 0]
    /\ UNCHANGED <<rrVars, td_lock>>

(* ... drops the locks one after the other.                                *)
RrmExitStep(t) ==
    /\ w_st[t] = "exiting"
    /\ RrwExitWrite(t, LockAt(t, w_i[t]))
    /\ w_i' = [w_i EXCEPT ![t] = @ + 1]
    /\ w_st' = [w_st EXCEPT ![t] =
         IF w_i[t] + 1 = RRM_NUM_LOCKS THEN "none" ELSE @]
    /\ UNCHANGED td_lock

(* rrm_exit by any other thread.                                           *)
RrmExitRead(t, h) ==
    /\ w_st[t] = "none"
    /\ rr_writer[0] # t
    /\ RrwExitRead(t, td_lock[t], h)
    /\ UNCHANGED <<td_lock, w_st, w_i>>

RrmRun(t) == RrmReadWake(t) \/ RrmWriteStep(t) \/ RrmExitStep(t)

RrmStep(t) ==
    \/ RrmRun(t)
    \/ t \in Writers /\ RrmEnterWrite(t)
    \/ RrmExitWrite(t)
    \/ \E h \in Holds : RrmEnterRead(t, h) \/ RrmExitRead(t, h)

RrmNext == (\E t \in Threads : RrmStep(t)) /\ UNCHANGED rr_track_all

RrmSpec == RrmInit /\ [][RrmNext]_rrmVars

(* Threads inside a call run; callers leave the sections they entered.     *)
RrmFairness ==
    \A t \in Threads :
        /\ WF_rrmVars(RrmRun(t) /\ UNCHANGED rr_track_all)
        /\ WF_rrmVars(RrmExitWrite(t) /\ UNCHANGED rr_track_all)
        /\ \A h \in Holds :
             WF_rrmVars(RrmExitRead(t, h) /\ UNCHANGED rr_track_all)

RrmFairSpec == RrmSpec /\ RrmFairness

-----------------------------------------------------------------------------
(* When rrm_enter_write has returned there is no reader on any of the      *)
(* locks and no second writer, although the locks were taken one by one.   *)
RrmExclusion ==
    \A t \in Threads : w_st[t] = "held" =>
        \A l \in Locks : rr_writer[l] = t /\ held[l] = {}

(* Neither readers that keep coming nor writers that each have some of the *)
(* locks block writers for ever: when some are entering, one of them gets  *)
(* through.                                                                *)
RrmWritersProgress ==
    (\E t \in Threads : w_st[t] = "entering")
        ~> (\E t \in Threads : w_st[t] = "held")
=============================================================================
