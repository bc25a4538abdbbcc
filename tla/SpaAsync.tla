----------------------------- MODULE SpaAsync -----------------------------
(***************************************************************************)
(* The background threads of one pool and the callers that stop them to    *)
(* export or destroy it (src/kernel/fs/zfs/spa.c): the async thread that   *)
(* spa_sync dispatches for requested tasks, and the zthrs that condense    *)
(* indirect vdevs and discard a checkpoint.                                *)
(*                                                                         *)
(* spa_namespace_lock is a variable because an exporting caller keeps it   *)
(* over waits.  The others take it, do their work and drop it without      *)
(* waiting for anything but the sync thread: that is one action here.      *)
(***************************************************************************)
EXTENDS Zthr, FiniteSets, Functions

CONSTANT MaxWork    \* bound: sync tasks that the zthrs have left to do

(* The zthrs are numbered in the order spa_async_suspend stops them.       *)
NZthr == Cardinality(Zthrs)

(* The async tasks by what they need: "config" is                          *)
(* SPA_ASYNC_CONFIG_UPDATE, "other" stands for the tasks after it, some of *)
(* which (RESILVER_DONE, INITIALIZE_RESTART) take the namespace lock too.  *)
Tasks == {"config", "other"}
NOBODY == "NOBODY"

ASSUME SpaAsyncAssumption ==
    /\ NZthr \in Nat \ {0} /\ Zthrs = 1 .. NZthr
    /\ IsFiniteSet(Callers) /\ NOBODY \notin Callers
    /\ MaxWork \in Nat \ {0}

VARIABLES
    spa_sync_on,            \* the pool is loaded and its groups are synced
    spa_namespace_lock,     \* the caller that has it over a wait, or NOBODY
    spa_refcount,           \* holds on the open pool, less spa_minref
    opened,                 \* a user has the pool open
    spa_async_tasks,        \* tasks requested
    spa_async_suspended,    \* suspensions in force
    spa_ccw_recent,         \* spa_ccw_fail_time less than the interval ago
    spa_async_cv,           \* callers asleep on it
    a_pc,                   \* the async thread, "none" if there is none
    a_tasks,                \* its tasks still to do
    sync_wake,              \* zthr the sync thread will wake next, or 0
    pc,                     \* caller -> where it is in spa_export_common
    zi                      \* caller -> zthr that it stops or resumes

spaVars == <<spa_sync_on, spa_namespace_lock, spa_refcount, opened,
             spa_async_tasks, spa_async_suspended, spa_ccw_recent,
             spa_async_cv, a_pc, a_tasks, sync_wake, pc, zi>>
vars == <<zthrVars, spaVars>>
poolRefs == <<spa_refcount, opened>>
asyncVars == <<a_pc, a_tasks, spa_async_tasks, spa_ccw_recent>>

(* A pool that has been loaded; nobody exports it yet.                     *)
SpaInit ==
    /\ ZthrInit
    /\ spa_sync_on = TRUE /\ spa_namespace_lock = NOBODY
    /\ spa_refcount = 0 /\ opened = FALSE
    /\ spa_async_tasks = {} /\ spa_async_suspended = 0
    /\ spa_ccw_recent = FALSE /\ spa_async_cv = {}
    /\ a_pc = "none" /\ a_tasks = {} /\ sync_wake = 0
    /\ pc = [c \in Callers |-> "start"]
    /\ zi = [c \in Callers |-> 1]

-----------------------------------------------------------------------------
(* spa_async_request *)
SpaAsyncRequest(t) ==
    /\ spa_sync_on
    /\ spa_async_tasks' = spa_async_tasks \cup {t}
    /\ UNCHANGED <<zthrVars, spa_sync_on, spa_namespace_lock, poolRefs,
                   spa_async_suspended, spa_ccw_recent, spa_async_cv, a_pc,
                   a_tasks, sync_wake, pc, zi>>

(* spa_async_tasks_pending: a config update that just failed has to wait.  *)
TasksPending ==
    \/ spa_async_tasks \ {"config"} # {}
    \/ "config" \in spa_async_tasks /\ ~spa_ccw_recent

(* The condition of spa_async_dispatch.                                    *)
Dispatchable ==
    TasksPending /\ spa_async_suspended = 0 /\ a_pc = "none"

(* spa_sync ends with spa_async_dispatch.                                  *)
SpaAsyncDispatch ==
    /\ spa_sync_on /\ sync_wake = 0
    /\ Dispatchable
    /\ a_pc' = "start"
    /\ UNCHANGED <<zthrVars, spa_sync_on, spa_namespace_lock, poolRefs,
                   spa_async_tasks, spa_async_suspended, spa_ccw_recent,
                   spa_async_cv, a_tasks, sync_wake, pc, zi>>

(* zfs_ccw_retry_interval has passed since the last failure.               *)
CcwInterval ==
    /\ spa_ccw_recent
    /\ spa_ccw_recent' = FALSE
    /\ UNCHANGED <<zthrVars, spa_sync_on, spa_namespace_lock, poolRefs,
                   spa_async_tasks, spa_async_suspended, spa_async_cv, a_pc,
                   a_tasks, sync_wake, pc, zi>>

(* spa_async_thread: it takes all the tasks there are ...                  *)
AsyncTake ==
    /\ a_pc = "start"
    /\ a_pc' = "work"
    /\ a_tasks' = spa_async_tasks
    /\ spa_async_tasks' = {}
    /\ UNCHANGED spa_ccw_recent

(* ... updates the config, which writes the cache file twice, and asks for *)
(* another update if one of the writes fails ...                           *)
AsyncConfig ==
    /\ a_pc = "work" /\ "config" \in a_tasks
    /\ spa_namespace_lock = NOBODY
    /\ \E fail1, fail2 \in BOOLEAN :
         /\ spa_async_tasks' =
              spa_async_tasks \cup (IF fail1 \/ fail2 THEN {"config"} ELSE {})
         /\ spa_ccw_recent' = fail2
    /\ a_tasks' = a_tasks \ {"config"}
    /\ UNCHANGED a_pc

(* ... does the others ...                                                 *)
AsyncOther ==
    /\ a_pc = "work" /\ a_tasks = {"other"}
    /\ spa_namespace_lock = NOBODY
    /\ a_tasks' = {}
    /\ UNCHANGED <<a_pc, spa_async_tasks, spa_ccw_recent>>

(* ... and lets those who wait know that it is done.                       *)
AsyncEnd ==
    /\ a_pc = "work" /\ a_tasks = {}
    /\ a_pc' = "none"
    /\ spa_async_cv' = {}
    /\ UNCHANGED <<a_tasks, spa_async_tasks, spa_ccw_recent>>

SpaAsyncThread ==
    /\ \/ (AsyncTake \/ AsyncConfig \/ AsyncOther)
          /\ UNCHANGED spa_async_cv
       \/ AsyncEnd
    /\ UNCHANGED <<zthrVars, spa_sync_on, spa_namespace_lock, poolRefs,
                   spa_async_suspended, sync_wake, pc, zi>>

-----------------------------------------------------------------------------
(* A sync task gives a zthr work (spa_condense_indirect_start_sync,        *)
(* spa_checkpoint_discard_sync) ...                                        *)
SyncStartWork(z) ==
    /\ spa_sync_on /\ sync_wake = 0
    /\ z_work[z] = 0
    /\ \E n \in 1 .. MaxWork :
         /\ n + FoldFunction(+, 0, z_work) <= MaxWork
         /\ z_work' = [z_work EXCEPT ![z] = n]
    /\ sync_wake' = z
    /\ UNCHANGED <<z_pc, zthr_cancel, zthr_cv, spa_sync_on,
                   spa_namespace_lock, poolRefs, spa_async_suspended,
                   spa_async_cv, asyncVars, pc, zi>>

(* ... and wakes it.                                                       *)
SyncWakeup ==
    /\ sync_wake # 0
    /\ ZthrWakeup(sync_wake)
    /\ sync_wake' = 0
    /\ UNCHANGED <<spa_sync_on, spa_namespace_lock, poolRefs,
                   spa_async_suspended, spa_async_cv, asyncVars, pc, zi>>

(* The function of a zthr looks at zthr_iscancelled before each sync task  *)
(* (spa_condense_indirect_thread, spa_checkpoint_discard_thread) ...       *)
ZthrFunc(z) ==
    /\ z_pc[z] = "func"
    /\ z_pc' = [z_pc EXCEPT ![z] = IF zthr_cancel[z] THEN "loop" ELSE "task"]
    /\ UNCHANGED <<z_work, zthr_cancel, zthr_cv, spa_refcount>>

(* ... dsl_sync_task opens the pool, for which it needs the namespace ...  *)
ZthrTaskOpen(z) ==
    /\ z_pc[z] = "task"
    /\ spa_namespace_lock = NOBODY
    /\ z_pc' = [z_pc EXCEPT ![z] = "sync"]
    /\ spa_refcount' = spa_refcount + 1
    /\ UNCHANGED <<z_work, zthr_cancel, zthr_cv>>

(* ... and closes it when the task has been synced.                        *)
ZthrTaskDone(z) ==
    /\ z_pc[z] = "sync"
    /\ z_work' = [z_work EXCEPT ![z] = @ - 1]
    /\ z_pc' = [z_pc EXCEPT ![z] = IF z_work[z] = 1 THEN "loop" ELSE "func"]
    /\ spa_refcount' = spa_refcount - 1
    /\ UNCHANGED <<zthr_cancel, zthr_cv>>

ZthrRun(z) ==
    /\ \/ (ZthrProcedure(z) \/ ZthrExit(z)) /\ UNCHANGED spa_refcount
       \/ ZthrFunc(z) \/ ZthrTaskOpen(z) \/ ZthrTaskDone(z)
    /\ UNCHANGED <<spa_sync_on, spa_namespace_lock, opened,
                   spa_async_suspended, spa_async_cv, asyncVars, sync_wake,
                   pc, zi>>

-----------------------------------------------------------------------------
(* spa_open and spa_close by a user of the pool.                           *)
SpaOpen ==
    /\ spa_sync_on /\ spa_namespace_lock = NOBODY
    /\ ~opened /\ opened' = TRUE
    /\ spa_refcount' = spa_refcount + 1
    /\ UNCHANGED <<zthrVars, spa_sync_on, spa_namespace_lock,
                   spa_async_suspended, spa_async_cv, asyncVars, sync_wake,
                   pc, zi>>

SpaClose ==
    /\ opened /\ opened' = FALSE
    /\ spa_refcount' = spa_refcount - 1
    /\ UNCHANGED <<zthrVars, spa_sync_on, spa_namespace_lock,
                   spa_async_suspended, spa_async_cv, asyncVars, sync_wake,
                   pc, zi>>

Goto(c, l) == pc' = [pc EXCEPT ![c] = l]

(* Who has the namespace lock when spa_export_common goes to stop the      *)
(* async tasks: it drops the lock.                                         *)
LookupLeaves(c) == NOBODY

(* spa_export_common finds the pool and holds it, or returns ENOENT.       *)
ExportLookup(c) ==
    /\ pc[c] = "start"
    /\ spa_namespace_lock = NOBODY
    /\ IF spa_sync_on
       THEN /\ Goto(c, "suspend")
            /\ spa_refcount' = spa_refcount + 1
            /\ spa_namespace_lock' = LookupLeaves(c)
       ELSE Goto(c, "done") /\ UNCHANGED <<spa_refcount, spa_namespace_lock>>
    /\ UNCHANGED <<zthrVars, spa_sync_on, opened, spa_async_suspended,
                   spa_async_cv, asyncVars, sync_wake, zi>>

(* The wait loop of spa_async_suspend.                                     *)
SuspendLoop(c) ==
    IF a_pc # "none"
    THEN spa_async_cv' = spa_async_cv \cup {c} /\ Goto(c, "async")
         /\ UNCHANGED zi
    ELSE Goto(c, "check") /\ zi' = [zi EXCEPT ![c] = 1]
         /\ UNCHANGED spa_async_cv

(* Mutant: suspensions are a flag, not a count.                            *)
SuspendedFlag(n) == 1
(* spa_async_suspended after one more suspension.                          *)
Suspended(n) == n + 1

(* spa_async_suspend by spa_export_common, and with the namespace lock by  *)
(* spa_unload.                                                             *)
SpaAsyncSuspend(c) ==
    /\ pc[c] = "suspend"
    /\ spa_async_suspended' = Suspended(spa_async_suspended)
    /\ SuspendLoop(c)
    /\ UNCHANGED <<zthrVars, spa_sync_on, spa_namespace_lock, poolRefs,
                   asyncVars, sync_wake>>

SuspendWake(c) ==
    /\ pc[c] = "async" /\ c \notin spa_async_cv
    /\ SuspendLoop(c)
    /\ UNCHANGED <<zthrVars, spa_sync_on, spa_namespace_lock, poolRefs,
                   spa_async_suspended, asyncVars, sync_wake>>

(* On to the next zthr, or past spa_async_suspend.                         *)
NextCancel(c) ==
    IF zi[c] < NZthr
    THEN Goto(c, "check") /\ zi' = [zi EXCEPT ![c] = @ + 1]
    ELSE /\ Goto(c, IF spa_namespace_lock = c THEN "stop" ELSE "lock")
         /\ UNCHANGED zi

(* Whether spa_async_suspend cancels a zthr.                               *)
NeedsCancel(z) == Running(z)

SuspendCheck(c) ==
    /\ pc[c] = "check"
    /\ IF NeedsCancel(zi[c]) THEN Goto(c, "cancel") /\ UNCHANGED zi
       ELSE NextCancel(c)
    /\ UNCHANGED <<zthrVars, spa_sync_on, spa_namespace_lock, poolRefs,
                   spa_async_suspended, spa_async_cv, asyncVars, sync_wake>>

SuspendCancel(c) ==
    /\ \/ pc[c] = "cancel" /\ ZthrCancel(c, zi[c])
       \/ pc[c] = "cwait" /\ ZthrCancelWake(c, zi[c])
    /\ IF Running(zi[c]) THEN Goto(c, "cwait") /\ UNCHANGED zi
       ELSE NextCancel(c)
    /\ UNCHANGED <<spa_sync_on, spa_namespace_lock, poolRefs,
                   spa_async_suspended, spa_async_cv, asyncVars, sync_wake>>

(* spa_export_common takes the namespace lock again and drops its hold.    *)
ExportLock(c) ==
    /\ pc[c] = "lock"
    /\ spa_namespace_lock = NOBODY
    /\ spa_namespace_lock' = c
    /\ spa_refcount' = spa_refcount - 1
    /\ Goto(c, "decide")
    /\ UNCHANGED <<zthrVars, spa_sync_on, opened, spa_async_suspended,
                   spa_async_cv, asyncVars, sync_wake, zi>>

(* It fails if the pool is in use or, unless forced, has an active shared  *)
(* spare; else spa_unload begins, which suspends once more.                *)
ExportDecide(c) ==
    /\ pc[c] = "decide"
    /\ \/ Goto(c, "resume")
       \/ spa_refcount = 0 /\ Goto(c, "suspend")
    /\ UNCHANGED <<zthrVars, spa_sync_on, spa_namespace_lock, poolRefs,
                   spa_async_suspended, spa_async_cv, asyncVars, sync_wake,
                   zi>>

(* spa_async_resume by an export that failed.                              *)
SpaAsyncResume(c) ==
    /\ pc[c] = "resume"
    /\ spa_async_suspended' = spa_async_suspended - 1
    /\ Goto(c, "rcheck")
    /\ zi' = [zi EXCEPT ![c] = 1]
    /\ UNCHANGED <<zthrVars, spa_sync_on, spa_namespace_lock, poolRefs,
                   spa_async_cv, asyncVars, sync_wake>>

(* On to the next zthr, or the export returns EBUSY or EXDEV.              *)
NextResume(c) ==
    IF zi[c] < NZthr
    THEN /\ Goto(c, "rcheck") /\ zi' = [zi EXCEPT ![c] = @ + 1]
         /\ UNCHANGED spa_namespace_lock
    ELSE /\ Goto(c, "done") /\ spa_namespace_lock' = NOBODY
         /\ UNCHANGED zi

(* Mutant: a failed export leaves the zthrs stopped.                       *)
NeedsResumeNone(z) == FALSE
(* Whether spa_async_resume starts a zthr again.                           *)
NeedsResume(z) == ~Running(z)

ResumeCheck(c) ==
    /\ pc[c] = "rcheck"
    /\ IF NeedsResume(zi[c])
       THEN Goto(c, "rstart") /\ UNCHANGED <<zi, spa_namespace_lock>>
       ELSE NextResume(c)
    /\ UNCHANGED <<zthrVars, spa_sync_on, poolRefs, spa_async_suspended,
                   spa_async_cv, asyncVars, sync_wake>>

ResumeStart(c) ==
    /\ pc[c] = "rstart"
    /\ ZthrResume(zi[c])
    /\ NextResume(c)
    /\ UNCHANGED <<spa_sync_on, poolRefs, spa_async_suspended, spa_async_cv,
                   asyncVars, sync_wake>>

(* spa_unload stops the sync thread ...                                    *)
UnloadStop(c) ==
    /\ pc[c] = "stop"
    /\ sync_wake = 0
    /\ spa_sync_on' = FALSE
    /\ Goto(c, "destroy")
    /\ UNCHANGED <<zthrVars, spa_namespace_lock, poolRefs,
                   spa_async_suspended, spa_async_cv, asyncVars, sync_wake,
                   zi>>

(* ... and destroys the zthrs; the pool leaves the namespace.              *)
UnloadDestroy(c) ==
    /\ pc[c] = "destroy"
    /\ spa_async_suspended' = 0
    /\ spa_namespace_lock' = NOBODY
    /\ Goto(c, "done")
    /\ UNCHANGED <<zthrVars, spa_sync_on, poolRefs, spa_async_cv, asyncVars,
                   sync_wake, zi>>

Export(c) ==
    \/ SpaAsyncSuspend(c) \/ SuspendWake(c)
    \/ SuspendCheck(c) \/ SuspendCancel(c)
    \/ ExportLock(c) \/ ExportDecide(c)
    \/ SpaAsyncResume(c) \/ ResumeCheck(c) \/ ResumeStart(c)
    \/ UnloadStop(c) \/ UnloadDestroy(c)

SpaNext ==
    \/ \E c \in Callers : ExportLookup(c) \/ Export(c)
    \/ \E t \in Tasks : SpaAsyncRequest(t)
    \/ SpaAsyncDispatch \/ CcwInterval \/ SpaAsyncThread
    \/ \E z \in Zthrs : SyncStartWork(z) \/ ZthrRun(z)
    \/ SyncWakeup
    \/ SpaOpen \/ SpaClose

SpaSpec == SpaInit /\ [][SpaNext]_vars

(* Threads run and time passes; nobody has to request anything, open the   *)
(* pool or close it.  Groups keep being synced and every spa_sync ends     *)
(* with a dispatch, whatever sync tasks it ran before: hence SF.           *)
SpaFairSpec ==
    /\ SpaSpec
    /\ \A c \in Callers : WF_vars(Export(c))
    /\ \A z \in Zthrs : WF_vars(ZthrRun(z))
    /\ WF_vars(SpaAsyncThread) /\ SF_vars(SpaAsyncDispatch)
    /\ WF_vars(SyncWakeup) /\ WF_vars(CcwInterval)

-----------------------------------------------------------------------------
(* From the end of its wait in spa_async_suspend until it resumes, a       *)
(* caller has no async thread beside it, whatever other callers do; so one *)
(* that has the namespace lock never waits for that thread, which may be   *)
(* waiting for the lock.  When spa_unload destroys the zthrs none of them  *)
(* runs, nobody sleeps on one, and no thread holds the pool.               *)
AsyncQuiet ==
    \A c \in Callers :
        /\ \/ spa_namespace_lock = c
                /\ pc[c] \in {"decide", "suspend", "async", "resume", "stop"}
           \/ pc[c] \in {"check", "cancel", "cwait", "lock"}
           => a_pc = "none"
        /\ pc[c] = "destroy" =>
            /\ \A z \in Zthrs : ~Running(z) /\ zthr_cv[z] = {}
            /\ a_pc = "none" /\ spa_refcount = 0

(* Nothing that is asked for is forgotten among suspensions and resumes:   *)
(* tasks requested while nothing is suspended are taken up, a config       *)
(* update whose write failed is tried again, and after exports that failed *)
(* the zthrs go on with their work.                                        *)
WorkDone ==
    LET Undisturbed == \A c \in Callers : pc[c] \in {"start", "done"}
    IN  /\ \A t \in Tasks :
             (t \in spa_async_tasks /\ spa_async_suspended = 0 /\ spa_sync_on)
             ~> \/ t \notin spa_async_tasks
                \/ spa_async_suspended # 0 \/ ~spa_sync_on
        /\ \A z \in Zthrs :
             (z_work[z] > 0 /\ spa_sync_on /\ Undisturbed) ~>
                 (z_work[z] = 0 \/ ~Undisturbed)

(* "ZTHR threads must be cancelled when their SPA is being exported": an   *)
(* export stops them and returns, whatever comes of it.                    *)
ExportReturns ==
    \A c \in Callers : (pc[c] = "suspend") ~> (pc[c] = "done")
=============================================================================
