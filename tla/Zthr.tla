------------------------------- MODULE Zthr -------------------------------
(***************************************************************************)
(* The cancellable worker threads of src/kernel/fs/zfs/zthr.c.             *)
(*                                                                         *)
(* zthr_thread is not NULL exactly while z_pc is not "none".  checkfunc    *)
(* asks whether work is left; what func does to the work is in the module  *)
(* that owns it.  One action is one critical section of zthr_lock.  The    *)
(* thread and those who cancel it sleep on the same condition variable.    *)
(***************************************************************************)
EXTENDS Naturals

CONSTANTS
    Zthrs,
    Callers     \* threads that cancel and resume zthrs

VARIABLES
    z_pc,           \* zthr -> where its thread is, "none" if there is none
    z_work,         \* zthr -> steps of work checkfunc finds, 0 if none
    zthr_cancel,    \* zthr -> a cancellation is wanted
    zthr_cv         \* zthr -> those asleep on it: callers or the thread

zthrVars == <<z_pc, z_work, zthr_cancel, zthr_cv>>

Self == "self"      \* the zthr's own thread among the sleepers

(* zthr_create_timer with max_sleep 0 *)
ZthrInit ==
    /\ z_pc = [z \in Zthrs |-> "loop"]
    /\ z_work = [z \in Zthrs |-> 0]
    /\ zthr_cancel = [z \in Zthrs |-> FALSE]
    /\ zthr_cv = [z \in Zthrs |-> {}]

(* zthr_isrunning *)
Running(z) == z_pc[z] # "none"

-----------------------------------------------------------------------------
(* zthr_procedure, from one look at zthr_cancel to the next place where    *)
(* the lock is dropped.                                                    *)
ZthrProcedure(z) ==
    /\ z_pc[z] \in {"loop", "sleep"}
    /\ Self \notin zthr_cv[z]
    /\ \/ /\ zthr_cancel[z]
          /\ z_pc' = [z_pc EXCEPT ![z] = "exit"]
          /\ UNCHANGED zthr_cv
       \/ /\ ~zthr_cancel[z] /\ z_work[z] > 0
          /\ z_pc' = [z_pc EXCEPT ![z] = "func"]
          /\ UNCHANGED zthr_cv
       \/ /\ ~zthr_cancel[z] /\ z_work[z] = 0
          /\ z_pc' = [z_pc EXCEPT ![z] = "sleep"]
          /\ zthr_cv' = [zthr_cv EXCEPT ![z] = @ \cup {Self}]
    /\ UNCHANGED <<z_work, zthr_cancel>>

(* zthr_exit *)
ZthrExit(z) ==
    /\ z_pc[z] = "exit"
    /\ z_pc' = [z_pc EXCEPT ![z] = "none"]
    /\ zthr_cv' = [zthr_cv EXCEPT ![z] = {}]
    /\ UNCHANGED <<z_work, zthr_cancel>>

(* zthr_wakeup *)
ZthrWakeup(z) ==
    /\ zthr_cv' = [zthr_cv EXCEPT ![z] = {}]
    /\ UNCHANGED <<z_pc, z_work, zthr_cancel>>

(* zthr_cancel by c up to its first wait; without a thread it sets and     *)
(* clears zthr_cancel under one hold of the lock and does not wait.        *)
ZthrCancel(c, z) ==
    /\ zthr_cv' = [zthr_cv EXCEPT ![z] = IF Running(z) THEN {c} ELSE {}]
    /\ zthr_cancel' = [zthr_cancel EXCEPT ![z] = Running(z)]
    /\ UNCHANGED <<z_pc, z_work>>

(* The wait loop of zthr_cancel: asleep again, or done.                    *)
ZthrCancelWake(c, z) ==
    /\ c \notin zthr_cv[z]
    /\ IF Running(z)
       THEN /\ zthr_cv' = [zthr_cv EXCEPT ![z] = @ \cup {c}]
            /\ UNCHANGED zthr_cancel
       ELSE /\ zthr_cancel' = [zthr_cancel EXCEPT ![z] = FALSE]
            /\ UNCHANGED zthr_cv
    /\ UNCHANGED <<z_pc, z_work>>

(* zthr_resume *)
ZthrResume(z) ==
    /\ z_pc' = [z_pc EXCEPT ![z] = "loop"]
    /\ UNCHANGED <<z_work, zthr_cancel, zthr_cv>>
=============================================================================
