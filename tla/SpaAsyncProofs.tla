--------------------------- MODULE SpaAsyncProofs ---------------------------
(***************************************************************************)
(* Proofs about SpaAsync for any number of zthrs and of callers that       *)
(* export the pool at the same time: whoever has suspended the background  *)
(* threads is alone with the pool.                                         *)
(***************************************************************************)
EXTENDS SpaAsync, TLAPS, FiniteSetTheorems

(* Where a caller is in spa_async_suspend, and past it.                    *)
Waiting == {"async", "check", "cancel", "cwait"}
Unloading == Waiting \cup {"suspend", "stop", "destroy"}
Pcs == Unloading \cup {"start", "lock", "decide", "resume", "rcheck", "rstart", "done"}

Types ==
    /\ pc \in [Callers -> Pcs] /\ zi \in [Callers -> Zthrs]
    /\ spa_async_suspended \in Nat /\ spa_refcount \in Nat
    /\ DOMAIN z_pc = Zthrs /\ z_pc = [z \in Zthrs |-> z_pc[z]]
    /\ DOMAIN zthr_cv = Zthrs /\ zthr_cv = [z \in Zthrs |-> zthr_cv[z]]

(* Who can have the namespace lock, and who must have it.                  *)
LockInv ==
    /\ spa_namespace_lock \in Callers \cup {NOBODY}
    /\ \A c \in Callers :
        /\ pc[c] \in {"decide", "resume", "rcheck", "rstart", "stop", "destroy"} =>
             spa_namespace_lock = c
        /\ pc[c] \in {"start", "lock", "done"} => spa_namespace_lock # c

(* The callers that hold the pool, those with a suspension in force, and   *)
(* those with a second one.                                                *)
HoldsPool(c) == /\ spa_namespace_lock # c
                /\ pc[c] \in Waiting \cup {"suspend", "lock"}
OnceSuspended(c) ==
    \/ spa_namespace_lock # c /\ pc[c] \in Waiting \cup {"lock"}
    \/ spa_namespace_lock = c /\ pc[c] \in Unloading \cup {"decide", "resume"}
TwiceSuspended(c) == /\ spa_namespace_lock = c
                     /\ pc[c] \in Waiting \cup {"stop", "destroy"}

Holders == {c \in Callers : HoldsPool(c)}
Once == {c \in Callers : OnceSuspended(c)}
Twice == {c \in Callers : TwiceSuspended(c)}
Syncing == {z \in Zthrs : z_pc[z] = "sync"}

(* The two counts are what they count.                                     *)
CountInv ==
    /\ spa_async_suspended = Cardinality(Once) + Cardinality(Twice)
    /\ spa_refcount = Cardinality(Holders) + Cardinality(Syncing)
                        + (IF opened THEN 1 ELSE 0)

(* A caller past its wait has no async thread beside it.                   *)
Alone(c) == pc[c] \in {"check", "cancel", "cwait", "lock"} \/ spa_namespace_lock = c
QuietInv == \A c \in Callers : OnceSuspended(c) /\ Alone(c) => a_pc = "none"

(* spa_unload has the pool to itself, and stops one zthr after another.    *)
StoppedInv ==
    /\ \A z \in Zthrs : ~Running(z) => zthr_cv[z] = {}
    /\ \A c \in Callers : spa_namespace_lock = c /\ pc[c] \in Unloading =>
         /\ spa_refcount = 0
         /\ pc[c] \in {"check", "cancel", "cwait"} =>
              \A z \in Zthrs : z < zi[c] => ~Running(z)
         /\ pc[c] \in {"stop", "destroy"} => \A z \in Zthrs : ~Running(z)
    /\ \A c \in Callers : pc[c] = "rstart" => ~Running(zi[c])

SInv == Types /\ LockInv /\ CountInv /\ QuietInv /\ StoppedInv

LEMMA SInvQuiet == SInv => AsyncQuiet
<1> SUFFICES ASSUME SInv, NEW c \in Callers
             PROVE  /\ \/ /\ spa_namespace_lock = c
                          /\ pc[c] \in {"decide", "suspend", "async", "resume", "stop"}
                       \/ pc[c] \in {"check", "cancel", "cwait", "lock"}
                       => a_pc = "none"
                    /\ pc[c] = "destroy" =>
                        /\ \A z \in Zthrs : ~Running(z) /\ zthr_cv[z] = {}
                        /\ a_pc = "none" /\ spa_refcount = 0
  BY DEF AsyncQuiet
<1> USE DEF Waiting, Unloading
<1>1. /\ spa_namespace_lock = c
      /\ pc[c] \in {"decide", "suspend", "async", "resume", "stop"}
      => a_pc = "none"
  BY DEF SInv, QuietInv, OnceSuspended, Alone
<1>2. pc[c] \in {"check", "cancel", "cwait", "lock"} => a_pc = "none"
  BY DEF SInv, LockInv, QuietInv, OnceSuspended, Alone
<1>3. pc[c] = "destroy" => spa_namespace_lock = c
  BY DEF SInv, LockInv
<1>4. pc[c] = "destroy" => a_pc = "none"
  BY <1>3 DEF SInv, QuietInv, OnceSuspended, Alone
<1>5. pc[c] = "destroy" => /\ \A z \in Zthrs : ~Running(z) /\ zthr_cv[z] = {}
                           /\ spa_refcount = 0
  BY <1>3 DEF SInv, StoppedInv
<1> QED BY <1>1, <1>2, <1>4, <1>5

LEMMA SInvInit == SpaInit => SInv
<1> SUFFICES ASSUME SpaInit PROVE SInv OBVIOUS
<1> USE DEF SpaInit, ZthrInit
<1>1. Types
  BY SpaAsyncAssumption DEF Types, Pcs
<1>2. Holders = {} /\ Once = {} /\ Twice = {} /\ Syncing = {}
  BY SpaAsyncAssumption DEF Holders, Once, Twice, Syncing, HoldsPool, OnceSuspended,
       TwiceSuspended, Waiting, Unloading
<1>3. CountInv
  BY <1>2, FS_EmptySet DEF CountInv
<1>4. LockInv /\ QuietInv /\ StoppedInv
  BY SpaAsyncAssumption DEF LockInv, QuietInv, StoppedInv, Running
<1> QED BY <1>1, <1>3, <1>4 DEF SInv

(* How a count changes when one element may enter or leave its set.        *)
In(x, S) == IF x \in S THEN 1 ELSE 0

LEMMA CardStep ==
  ASSUME NEW S, NEW T, NEW x, IsFiniteSet(S), \A y : y # x => (y \in S <=> y \in T)
  PROVE  /\ IsFiniteSet(T) /\ Cardinality(S) \in Nat /\ Cardinality(T) \in Nat
         /\ Cardinality(T) = Cardinality(S) - In(x, S) + In(x, T)
<1>0. PICK R : R = S \ {x}
  OBVIOUS
<1>1. IsFiniteSet(R) /\ Cardinality(R) = Cardinality(S) - In(x, S) /\ x \notin R
      /\ Cardinality(S) \in Nat /\ Cardinality(R) \in Nat
  BY <1>0, FS_RemoveElement, FS_CardinalityType DEF In
<1>2. CASE x \in T
  <2>1. T = R \cup {x}
    BY <1>0, <1>2
  <2>2. IsFiniteSet(T) /\ Cardinality(T) = Cardinality(R) + 1
    BY <1>1, <2>1, FS_AddElement
  <2> QED BY <1>1, <1>2, <2>2 DEF In
<1>3. CASE x \notin T
  <2>1. T = R
    BY <1>0, <1>3
  <2> QED BY <1>1, <1>3, <2>1 DEF In
<1> QED BY <1>2, <1>3

LEMMA Finite ==
  /\ IsFiniteSet(Once) /\ IsFiniteSet(Twice) /\ IsFiniteSet(Holders)
  /\ IsFiniteSet(Syncing)
<1>1. IsFiniteSet(Zthrs)
  BY FS_Interval, SpaAsyncAssumption
<1> QED BY <1>1, FS_Subset, SpaAsyncAssumption DEF Once, Twice, Holders, Syncing

Bit(P) == IF P THEN 1 ELSE 0

(* A step of caller c: the others stay where they are, only it may take or *)
(* drop the namespace lock, and the counts change with its place.          *)
CallerStep(c) ==
    /\ pc' = [pc EXCEPT ![c] = pc'[c]] /\ pc'[c] \in Pcs
    /\ zi' = [zi EXCEPT ![c] = zi'[c]] /\ zi'[c] \in Zthrs
    /\ spa_namespace_lock' \in Callers \cup {NOBODY}
    /\ \A u \in Callers : u # c =>
         (spa_namespace_lock' = u <=> spa_namespace_lock = u)
    /\ UNCHANGED <<a_pc, opened>>
    /\ pc'[c] \in {"decide", "resume", "rcheck", "rstart", "stop", "destroy"} =>
         spa_namespace_lock' = c
    /\ pc'[c] \in {"start", "lock", "done"} => spa_namespace_lock' # c
    /\ spa_async_suspended' \in Nat /\ spa_refcount' \in Nat
    /\ spa_async_suspended' =
         spa_async_suspended - Bit(OnceSuspended(c)) - Bit(TwiceSuspended(c))
           + Bit(OnceSuspended(c)') + Bit(TwiceSuspended(c)')
    /\ spa_refcount' = spa_refcount - Bit(HoldsPool(c)) + Bit(HoldsPool(c)')
    /\ OnceSuspended(c)' /\ Alone(c)' => a_pc = "none"
    /\ z_pc' = [z \in Zthrs |-> z_pc'[z]] /\ zthr_cv' = [z \in Zthrs |-> zthr_cv'[z]]
    /\ Syncing' = Syncing
    /\ z_pc' = z_pc \/ spa_namespace_lock = c
    /\ spa_refcount' = spa_refcount \/ spa_namespace_lock \in {NOBODY, c}
    /\ \A z \in Zthrs : ~Running(z)' => zthr_cv'[z] = {}
    /\ spa_namespace_lock' = c /\ pc'[c] \in Unloading =>
         /\ spa_refcount' = 0
         /\ pc'[c] \in {"check", "cancel", "cwait"} =>
              \A z \in Zthrs : z < zi'[c] => ~Running(z)'
         /\ pc'[c] \in {"stop", "destroy"} => \A z \in Zthrs : ~Running(z)'
    /\ pc'[c] = "rstart" => z_pc'[zi'[c]] = "none"

LEMMA CallerKeeps ==
  ASSUME SInv, NEW c \in Callers, CallerStep(c)
  PROVE  SInv'
<1>a. NOBODY \notin Callers
  BY SpaAsyncAssumption
<1>0. /\ pc \in [Callers -> Pcs] /\ zi \in [Callers -> Zthrs]
      /\ \A u \in Callers : u # c => /\ pc'[u] = pc[u] /\ zi'[u] = zi[u]
                                     /\ spa_namespace_lock' = u <=> spa_namespace_lock = u
  BY DEF SInv, Types, CallerStep
<1>1. Types'
  BY DEF SInv, Types, CallerStep
<1>2. LockInv'
  BY <1>0 DEF SInv, LockInv, CallerStep
<1>3. \A u \in Callers : u # c => /\ OnceSuspended(u)' <=> OnceSuspended(u)
                                  /\ TwiceSuspended(u)' <=> TwiceSuspended(u)
                                  /\ HoldsPool(u)' <=> HoldsPool(u)
                                  /\ Alone(u)' <=> Alone(u)
  BY <1>0 DEF OnceSuspended, TwiceSuspended, HoldsPool, Alone
<1>4. CountInv'
  <2>1. /\ Cardinality(Once) \in Nat /\ Cardinality(Once)' \in Nat
        /\ Cardinality(Once)' = Cardinality(Once) - In(c, Once) + In(c, Once')
    BY <1>3, CardStep, Finite DEF Once
  <2>2. /\ Cardinality(Twice) \in Nat /\ Cardinality(Twice)' \in Nat
        /\ Cardinality(Twice)' = Cardinality(Twice) - In(c, Twice) + In(c, Twice')
    BY <1>3, CardStep, Finite DEF Twice
  <2>3. /\ Cardinality(Holders) \in Nat /\ Cardinality(Holders)' \in Nat
        /\ Cardinality(Holders)' = Cardinality(Holders) - In(c, Holders) + In(c, Holders')
    BY <1>3, CardStep, Finite DEF Holders
  <2>4. Cardinality(Syncing)' = Cardinality(Syncing) /\ Cardinality(Syncing) \in Nat
    BY Finite, FS_CardinalityType DEF CallerStep
  <2>5. /\ In(c, Once) = Bit(OnceSuspended(c)) /\ In(c, Once') = Bit(OnceSuspended(c)')
        /\ In(c, Twice) = Bit(TwiceSuspended(c)) /\ In(c, Twice') = Bit(TwiceSuspended(c)')
        /\ In(c, Holders) = Bit(HoldsPool(c)) /\ In(c, Holders') = Bit(HoldsPool(c)')
    BY DEF In, Bit, Once, Twice, Holders
  <2>6. spa_async_suspended' = Cardinality(Once)' + Cardinality(Twice)'
    <3>1. spa_async_suspended = Cardinality(Once) + Cardinality(Twice)
      BY DEF SInv, CountInv
    <3>2. spa_async_suspended' =
            spa_async_suspended - Bit(OnceSuspended(c)) - Bit(TwiceSuspended(c))
              + Bit(OnceSuspended(c)') + Bit(TwiceSuspended(c)')
      BY DEF CallerStep
    <3>3. /\ Bit(OnceSuspended(c)) \in Int /\ Bit(TwiceSuspended(c)) \in Int
          /\ Bit(OnceSuspended(c)') \in Int /\ Bit(TwiceSuspended(c)') \in Int
      BY DEF Bit
    <3> QED BY <2>1, <2>2, <2>5, <3>1, <3>2, <3>3
  <2>7. spa_refcount' = Cardinality(Holders)' + Cardinality(Syncing)'
                          + (IF opened' THEN 1 ELSE 0)
    <3>1. spa_refcount = Cardinality(Holders) + Cardinality(Syncing)
                          + (IF opened THEN 1 ELSE 0)
      BY DEF SInv, CountInv
    <3>2. spa_refcount' = spa_refcount - Bit(HoldsPool(c)) + Bit(HoldsPool(c)')
          /\ opened' = opened
      BY DEF CallerStep
    <3>3. Bit(HoldsPool(c)) \in Int /\ Bit(HoldsPool(c)') \in Int
      BY DEF Bit
    <3> QED BY <2>3, <2>4, <2>5, <3>1, <3>2, <3>3
  <2> QED BY <2>6, <2>7 DEF CountInv
<1>5. QuietInv'
  BY <1>3 DEF SInv, QuietInv, CallerStep
<1>6. StoppedInv'
  <2>1. \A z \in Zthrs : ~Running(z)' => zthr_cv'[z] = {}
    BY DEF CallerStep
  <2>2. \A u \in Callers : pc'[u] = "rstart" => z_pc'[zi'[u]] = "none"
    <3>1. \A u \in Callers : u # c /\ pc[u] = "rstart" => z_pc' = z_pc
      BY <1>a DEF SInv, LockInv, CallerStep
    <3> QED BY <1>0, <3>1 DEF SInv, StoppedInv, CallerStep, Running
  <2>3. ASSUME NEW u \in Callers, spa_namespace_lock' = u, pc'[u] \in Unloading
        PROVE  /\ spa_refcount' = 0
               /\ pc'[u] \in {"check", "cancel", "cwait"} =>
                    \A z \in Zthrs : z < zi'[u] => ~Running(z)'
               /\ pc'[u] \in {"stop", "destroy"} => \A z \in Zthrs : ~Running(z)'
    <3>1. CASE u = c
      BY <2>3, <3>1 DEF CallerStep
    <3>2. CASE u # c
      <4>1. spa_namespace_lock = u /\ pc'[u] = pc[u] /\ zi'[u] = zi[u]
        BY <1>0, <2>3, <3>2
      <4>2. z_pc' = z_pc /\ spa_refcount' = spa_refcount
        BY <1>a, <3>2, <4>1 DEF CallerStep
      <4> QED BY <2>3, <4>1, <4>2 DEF SInv, StoppedInv, Running
    <3> QED BY <3>1, <3>2
  <2> QED BY <2>1, <2>2, <2>3 DEF StoppedInv, Running
<1> QED BY <1>1, <1>2, <1>4, <1>5, <1>6 DEF SInv

(* A caller that neither starts nor wakes a zthr.                          *)
LEMMA ZthrsKept ==
  ASSUME SInv, UNCHANGED <<z_pc, zthr_cv>>
  PROVE  /\ z_pc' = [z \in Zthrs |-> z_pc'[z]] /\ zthr_cv' = [z \in Zthrs |-> zthr_cv'[z]]
         /\ Syncing' = Syncing
         /\ \A z \in Zthrs : Running(z)' <=> Running(z)
         /\ \A z \in Zthrs : ~Running(z)' => zthr_cv'[z] = {}
BY DEF SInv, Types, StoppedInv, Syncing, Running

LEMMA ExportLookupStep ==
  ASSUME SInv, NEW c \in Callers, ExportLookup(c)
  PROVE  CallerStep(c)
<1>a. /\ pc \in [Callers -> Pcs] /\ zi \in [Callers -> Zthrs]
      /\ spa_async_suspended \in Nat /\ spa_refcount \in Nat /\ NOBODY \notin Callers
  BY SpaAsyncAssumption DEF SInv, Types
<1>1. /\ pc[c] = "start" /\ spa_namespace_lock = NOBODY /\ zi' = zi
      /\ UNCHANGED <<z_pc, zthr_cv, opened, spa_async_suspended, a_pc>>
  BY DEF ExportLookup, zthrVars, asyncVars
<1>2. \/ /\ pc' = [pc EXCEPT ![c] = "suspend"] /\ spa_refcount' = spa_refcount + 1
         /\ spa_namespace_lock' = NOBODY
      \/ /\ pc' = [pc EXCEPT ![c] = "done"]
         /\ UNCHANGED <<spa_refcount, spa_namespace_lock>>
  BY DEF ExportLookup, LookupLeaves, Goto
<1>3. spa_namespace_lock' = NOBODY /\ NOBODY # c
  BY <1>a, <1>1, <1>2
<1>4. /\ ~OnceSuspended(c) /\ ~TwiceSuspended(c) /\ ~HoldsPool(c)
      /\ ~OnceSuspended(c)' /\ ~TwiceSuspended(c)'
  BY <1>a, <1>1, <1>2, <1>3 DEF OnceSuspended, TwiceSuspended, HoldsPool, Waiting
<1>5. CASE pc'[c] = "suspend"
  <2>1. HoldsPool(c)' /\ spa_refcount' = spa_refcount + 1
    BY <1>a, <1>2, <1>3, <1>5 DEF HoldsPool
  <2>2. pc' = [pc EXCEPT ![c] = "suspend"]
    BY <1>a, <1>2, <1>5
  <2> QED BY <1>a, <1>1, <1>3, <1>4, <1>5, <2>1, <2>2, ZthrsKept
          DEF CallerStep, Bit, Pcs, Unloading
<1>6. CASE pc'[c] = "done"
  <2>1. ~HoldsPool(c)' /\ spa_refcount' = spa_refcount
    BY <1>a, <1>2, <1>6 DEF HoldsPool, Waiting
  <2>2. pc' = [pc EXCEPT ![c] = "done"]
    BY <1>a, <1>2, <1>6
  <2> QED BY <1>a, <1>1, <1>3, <1>4, <1>6, <2>1, <2>2, ZthrsKept
          DEF CallerStep, Bit, Pcs, Unloading
<1> QED BY <1>a, <1>2, <1>5, <1>6

(* spa_async_suspend: a caller with the namespace lock does not wait.      *)
LEMMA SuspendStep ==
  ASSUME SInv, NEW c \in Callers, SpaAsyncSuspend(c) \/ SuspendWake(c)
  PROVE  CallerStep(c)
<1>a. /\ pc \in [Callers -> Pcs] /\ zi \in [Callers -> Zthrs] /\ 1 \in Zthrs
      /\ spa_async_suspended \in Nat /\ spa_refcount \in Nat
      /\ spa_namespace_lock \in Callers \cup {NOBODY}
  BY SpaAsyncAssumption DEF SInv, Types, LockInv
<1>1. /\ pc[c] \in {"suspend", "async"}
      /\ spa_async_suspended' = IF pc[c] = "suspend" THEN spa_async_suspended + 1
                                ELSE spa_async_suspended
      /\ UNCHANGED <<z_pc, zthr_cv, spa_namespace_lock, opened, spa_refcount, a_pc>>
  BY DEF SpaAsyncSuspend, SuspendWake, Suspended, zthrVars, poolRefs, asyncVars
<1>2. \/ /\ a_pc # "none" /\ pc' = [pc EXCEPT ![c] = "async"] /\ zi' = zi
      \/ /\ a_pc = "none" /\ pc' = [pc EXCEPT ![c] = "check"]
         /\ zi' = [zi EXCEPT ![c] = 1]
  BY DEF SpaAsyncSuspend, SuspendWake, SuspendLoop, Goto
<1>3. spa_namespace_lock = c => a_pc = "none" /\ spa_refcount = 0
  BY <1>1 DEF SInv, QuietInv, StoppedInv, OnceSuspended, Alone, Unloading, Waiting
<1>4. /\ pc'[c] \in {"async", "check"} /\ (pc'[c] = "async" <=> a_pc # "none")
      /\ pc' = [pc EXCEPT ![c] = pc'[c]] /\ zi' = [zi EXCEPT ![c] = zi'[c]]
      /\ zi'[c] \in Zthrs /\ (pc'[c] = "check" => zi'[c] = 1)
  BY <1>a, <1>2
<1>5. \A z \in Zthrs : ~(z < 1)
  BY SpaAsyncAssumption
<1>6. /\ OnceSuspended(c)' /\ (HoldsPool(c)' <=> HoldsPool(c))
      /\ TwiceSuspended(c)' <=> spa_namespace_lock = c
      /\ pc[c] = "suspend" =>
           /\ OnceSuspended(c) <=> spa_namespace_lock = c
           /\ ~TwiceSuspended(c)
      /\ pc[c] = "async" =>
           /\ OnceSuspended(c)
           /\ TwiceSuspended(c) <=> spa_namespace_lock = c
      /\ Alone(c)' => a_pc = "none"
  BY <1>1, <1>3, <1>4 DEF OnceSuspended, TwiceSuspended, HoldsPool, Alone, Waiting, Unloading
<1>7. spa_async_suspended' =
        spa_async_suspended - Bit(OnceSuspended(c)) - Bit(TwiceSuspended(c))
          + Bit(OnceSuspended(c)') + Bit(TwiceSuspended(c)')
  BY <1>a, <1>1, <1>6 DEF Bit
<1>8. spa_refcount' = spa_refcount - Bit(HoldsPool(c)) + Bit(HoldsPool(c)')
  BY <1>a, <1>1, <1>6 DEF Bit
<1>9. pc'[c] \in Pcs /\ pc'[c] \notin {"decide", "resume", "rcheck", "rstart", "stop",
        "destroy", "start", "lock", "done", "cancel", "cwait"}
  BY <1>4 DEF Pcs, Unloading, Waiting
<1>10. spa_async_suspended' \in Nat
  BY <1>a, <1>1
<1> QED BY <1>a, <1>1, <1>3, <1>4, <1>5, <1>6, <1>7, <1>8, <1>9, <1>10, ZthrsKept
        DEF CallerStep

(* The zthrs are stopped in order: those below zi have been, and nobody    *)
(* but the owner of the namespace lock starts one again.                   *)
LEMMA CancelStep ==
  ASSUME SInv, NEW c \in Callers, SuspendCheck(c) \/ SuspendCancel(c)
  PROVE  CallerStep(c)
<1>a. /\ pc \in [Callers -> Pcs] /\ zi \in [Callers -> Zthrs] /\ zi[c] \in Zthrs
      /\ spa_async_suspended \in Nat /\ spa_refcount \in Nat
      /\ spa_namespace_lock \in Callers \cup {NOBODY} /\ NOBODY \notin Callers
      /\ NZthr \in Nat /\ Zthrs = 1 .. NZthr
  BY SpaAsyncAssumption DEF SInv, Types, LockInv
<1>1. /\ pc[c] \in {"check", "cancel", "cwait"}
      /\ UNCHANGED <<z_pc, spa_namespace_lock, opened, spa_refcount,
                     spa_async_suspended, a_pc>>
  BY DEF SuspendCheck, SuspendCancel, ZthrCancel, ZthrCancelWake, zthrVars, poolRefs,
         asyncVars
<1>2. \/ /\ pc' = [pc EXCEPT ![c] = "cancel"] \/ pc' = [pc EXCEPT ![c] = "cwait"]
         /\ zi' = zi
      \/ /\ ~Running(zi[c]) /\ zi[c] < NZthr /\ pc' = [pc EXCEPT ![c] = "check"]
         /\ zi' = [zi EXCEPT ![c] = @ + 1]
      \/ /\ ~Running(zi[c]) /\ ~(zi[c] < NZthr) /\ zi' = zi
         /\ pc' = [pc EXCEPT ![c] = IF spa_namespace_lock = c THEN "stop" ELSE "lock"]
  BY DEF SuspendCheck, SuspendCancel, NextCancel, NeedsCancel, Goto
<1>3. /\ pc' = [pc EXCEPT ![c] = pc'[c]]
      /\ pc'[c] \in {"check", "cancel", "cwait", "stop", "lock"}
      /\ pc'[c] = "stop" => spa_namespace_lock = c
      /\ pc'[c] = "lock" => spa_namespace_lock # c
  BY <1>a, <1>2
<1>4. /\ zi' = [zi EXCEPT ![c] = zi'[c]] /\ zi'[c] \in Zthrs
      /\ zi'[c] = zi[c] \/ (zi'[c] = zi[c] + 1 /\ ~Running(zi[c]))
      /\ pc'[c] \in {"stop", "lock"} => zi[c] = NZthr /\ ~Running(zi[c])
  BY <1>a, <1>2
<1>5. /\ z_pc' = [z \in Zthrs |-> z_pc'[z]] /\ zthr_cv' = [z \in Zthrs |-> zthr_cv'[z]]
      /\ Syncing' = Syncing
      /\ \A z \in Zthrs : Running(z)' <=> Running(z)
  BY <1>1 DEF SInv, Types, Syncing, Running, SuspendCheck, SuspendCancel, ZthrCancel,
       ZthrCancelWake, zthrVars
<1>6. \A z \in Zthrs : ~Running(z)' => zthr_cv'[z] = {}
  <2>1. \A z \in Zthrs : ~Running(z) => zthr_cv[z] = {}
    BY DEF SInv, StoppedInv
  <2>2. \/ zthr_cv' = zthr_cv
        \/ zthr_cv' = [zthr_cv EXCEPT ![zi[c]] = IF Running(zi[c]) THEN {c} ELSE {}]
        \/ Running(zi[c]) /\ zthr_cv' = [zthr_cv EXCEPT ![zi[c]] = @ \cup {c}]
    BY DEF SuspendCheck, SuspendCancel, ZthrCancel, ZthrCancelWake, zthrVars
  <2>3. zthr_cv = [z \in Zthrs |-> zthr_cv[z]]
    BY DEF SInv, Types
  <2> QED BY <1>a, <1>5, <2>1, <2>2, <2>3
<1>7. spa_namespace_lock = c =>
        /\ spa_refcount = 0 /\ a_pc = "none"
        /\ \A z \in Zthrs : z < zi[c] => ~Running(z)
  BY <1>1 DEF SInv, StoppedInv, QuietInv, OnceSuspended, Alone, Unloading, Waiting
<1>8. spa_namespace_lock = c => \A z \in Zthrs : z < zi'[c] => ~Running(z)
  BY <1>a, <1>4, <1>7
<1>9. spa_namespace_lock = c /\ pc'[c] = "stop" => \A z \in Zthrs : ~Running(z)
  BY <1>a, <1>4, <1>7
<1>10. a_pc = "none"
  BY <1>1 DEF SInv, QuietInv, OnceSuspended, Alone, Unloading, Waiting
<1>11. /\ OnceSuspended(c) /\ OnceSuspended(c)' /\ (HoldsPool(c)' <=> HoldsPool(c))
       /\ TwiceSuspended(c)' <=> TwiceSuspended(c)
  BY <1>1, <1>3 DEF OnceSuspended, TwiceSuspended, HoldsPool, Waiting, Unloading
<1>12. /\ spa_async_suspended' =
            spa_async_suspended - Bit(OnceSuspended(c)) - Bit(TwiceSuspended(c))
              + Bit(OnceSuspended(c)') + Bit(TwiceSuspended(c)')
       /\ spa_refcount' = spa_refcount - Bit(HoldsPool(c)) + Bit(HoldsPool(c)')
  BY <1>a, <1>1, <1>11 DEF Bit
<1>13. pc'[c] \in Pcs /\ pc'[c] \notin {"decide", "resume", "rcheck", "rstart",
         "destroy", "start", "done"}
  BY <1>3 DEF Pcs, Unloading, Waiting
<1> QED BY <1>a, <1>1, <1>3, <1>4, <1>5, <1>6, <1>7, <1>8, <1>9, <1>10, <1>12, <1>13
        DEF CallerStep

(* The namespace lock is taken and the hold dropped; then the pool is left *)
(* alone, or unloaded if nobody else holds it.                             *)
LEMMA LockStep ==
  ASSUME SInv, NEW c \in Callers, ExportLock(c) \/ ExportDecide(c)
  PROVE  CallerStep(c)
<1>a. /\ pc \in [Callers -> Pcs] /\ zi \in [Callers -> Zthrs]
      /\ spa_async_suspended \in Nat /\ spa_refcount \in Nat /\ NOBODY \notin Callers
  BY SpaAsyncAssumption DEF SInv, Types
<1>1. /\ zi' = zi /\ spa_namespace_lock' = c
      /\ UNCHANGED <<z_pc, zthr_cv, opened, spa_async_suspended, a_pc>>
  BY DEF ExportLock, ExportDecide, SInv, LockInv, zthrVars, poolRefs, asyncVars
<1>2. CASE ExportLock(c)
  <2>1. /\ pc[c] = "lock" /\ spa_namespace_lock = NOBODY /\ spa_namespace_lock # c
        /\ spa_refcount' = spa_refcount - 1 /\ pc' = [pc EXCEPT ![c] = "decide"]
    BY <1>2, <1>a DEF ExportLock, Goto
  <2>2. /\ OnceSuspended(c) /\ ~TwiceSuspended(c) /\ HoldsPool(c)
        /\ OnceSuspended(c)' /\ ~TwiceSuspended(c)' /\ ~HoldsPool(c)'
    BY <1>a, <1>1, <2>1 DEF OnceSuspended, TwiceSuspended, HoldsPool, Waiting, Unloading
  <2>3. a_pc = "none"
    BY <2>1, <2>2 DEF SInv, QuietInv, Alone
  <2>4. spa_refcount - 1 \in Nat
    <3>1. c \in Holders
      BY <2>2 DEF Holders
    <3>2. Cardinality(Holders) \in Nat /\ Cardinality(Holders) # 0
          /\ Cardinality(Syncing) \in Nat
      BY <3>1, Finite, FS_CardinalityType, FS_EmptySet
    <3>3. spa_refcount = Cardinality(Holders) + Cardinality(Syncing)
                          + (IF opened THEN 1 ELSE 0)
      BY DEF SInv, CountInv
    <3> QED BY <3>2, <3>3
  <2> QED BY <1>a, <1>1, <2>1, <2>2, <2>3, <2>4, ZthrsKept
          DEF CallerStep, Bit, Pcs, Unloading, Waiting
<1>3. CASE ExportDecide(c)
  <2>1. /\ pc[c] = "decide" /\ spa_namespace_lock = c /\ spa_refcount' = spa_refcount
        /\ \/ pc' = [pc EXCEPT ![c] = "resume"]
           \/ pc' = [pc EXCEPT ![c] = "suspend"] /\ spa_refcount = 0
    BY <1>3 DEF ExportDecide, Goto, SInv, LockInv, poolRefs
  <2>2. /\ pc' = [pc EXCEPT ![c] = pc'[c]] /\ pc'[c] \in {"resume", "suspend"}
        /\ pc'[c] = "suspend" => spa_refcount = 0
    BY <1>a, <2>1
  <2>3. /\ OnceSuspended(c) /\ ~TwiceSuspended(c) /\ ~HoldsPool(c)
        /\ OnceSuspended(c)' /\ ~TwiceSuspended(c)' /\ ~HoldsPool(c)'
    BY <1>a, <1>1, <2>1, <2>2
       DEF OnceSuspended, TwiceSuspended, HoldsPool, Waiting, Unloading
  <2>4. a_pc = "none"
    BY <2>1, <2>3 DEF SInv, QuietInv, Alone
  <2> QED BY <1>a, <1>1, <2>1, <2>2, <2>3, <2>4, ZthrsKept
          DEF CallerStep, Bit, Pcs, Unloading, Waiting
<1> QED BY <1>2, <1>3

(* An export that failed ends its suspension and starts the zthrs again.   *)
LEMMA ResumeStep ==
  ASSUME SInv, NEW c \in Callers, SpaAsyncResume(c) \/ ResumeCheck(c) \/ ResumeStart(c)
  PROVE  CallerStep(c)
<1>a. /\ pc \in [Callers -> Pcs] /\ zi \in [Callers -> Zthrs] /\ zi[c] \in Zthrs
      /\ spa_async_suspended \in Nat /\ spa_refcount \in Nat /\ NOBODY \notin Callers
      /\ 1 \in Zthrs /\ NZthr \in Nat /\ Zthrs = 1 .. NZthr
  BY SpaAsyncAssumption DEF SInv, Types
<1>1. /\ pc[c] \in {"resume", "rcheck", "rstart"} /\ spa_namespace_lock = c
      /\ UNCHANGED <<opened, spa_refcount, a_pc>>
  BY DEF SpaAsyncResume, ResumeCheck, ResumeStart, SInv, LockInv, poolRefs, asyncVars
<1>2. CASE SpaAsyncResume(c)
  <2>1. /\ pc[c] = "resume" /\ spa_namespace_lock' = c
        /\ spa_async_suspended' = spa_async_suspended - 1
        /\ pc' = [pc EXCEPT ![c] = "rcheck"] /\ zi' = [zi EXCEPT ![c] = 1]
        /\ UNCHANGED <<z_pc, zthr_cv>>
    BY <1>1, <1>2 DEF SpaAsyncResume, Goto, zthrVars
  <2>2. /\ OnceSuspended(c) /\ ~TwiceSuspended(c) /\ ~HoldsPool(c)
        /\ ~OnceSuspended(c)' /\ ~TwiceSuspended(c)' /\ ~HoldsPool(c)'
    BY <1>a, <1>1, <2>1 DEF OnceSuspended, TwiceSuspended, HoldsPool, Waiting, Unloading
  <2>3. spa_async_suspended - 1 \in Nat
    <3>1. c \in Once
      BY <2>2 DEF Once
    <3>2. Cardinality(Once) \in Nat /\ Cardinality(Once) # 0 /\ Cardinality(Twice) \in Nat
      BY <3>1, Finite, FS_CardinalityType, FS_EmptySet
    <3>3. spa_async_suspended = Cardinality(Once) + Cardinality(Twice)
      BY DEF SInv, CountInv
    <3> QED BY <3>2, <3>3
  <2> QED BY <1>a, <1>1, <2>1, <2>2, <2>3, ZthrsKept
          DEF CallerStep, Bit, Pcs, Unloading, Waiting
<1>3. ASSUME ResumeCheck(c) \/ ResumeStart(c)
      PROVE  CallerStep(c)
  <2>1. /\ pc[c] \in {"rcheck", "rstart"} /\ UNCHANGED <<zthr_cv, spa_async_suspended>>
        /\ pc[c] = "rcheck" => z_pc' = z_pc
        /\ pc[c] = "rstart" => z_pc' = [z_pc EXCEPT ![zi[c]] = "loop"]
    BY <1>3 DEF ResumeCheck, ResumeStart, ZthrResume, zthrVars
  <2>2. \/ /\ pc[c] = "rcheck" /\ ~Running(zi[c]) /\ zi' = zi
           /\ pc' = [pc EXCEPT ![c] = "rstart"] /\ spa_namespace_lock' = c
        \/ /\ pc' = [pc EXCEPT ![c] = "rcheck"] /\ spa_namespace_lock' = c
           /\ zi[c] < NZthr /\ zi' = [zi EXCEPT ![c] = @ + 1]
        \/ /\ pc' = [pc EXCEPT ![c] = "done"] /\ spa_namespace_lock' = NOBODY
           /\ zi' = zi
    BY <1>1, <1>3 DEF ResumeCheck, ResumeStart, NextResume, NeedsResume, Goto
  <2>3. /\ pc' = [pc EXCEPT ![c] = pc'[c]] /\ pc'[c] \in {"rstart", "rcheck", "done"}
        /\ pc'[c] = "rstart" => pc[c] = "rcheck" /\ ~Running(zi[c]) /\ zi'[c] = zi[c]
        /\ spa_namespace_lock' = IF pc'[c] = "done" THEN NOBODY ELSE c
        /\ zi' = [zi EXCEPT ![c] = zi'[c]] /\ zi'[c] \in Zthrs
    BY <1>a, <2>2
  <2>4. pc[c] = "rstart" => ~Running(zi[c])
    BY DEF SInv, StoppedInv
  <2>5. z_pc = [z \in Zthrs |-> z_pc[z]] /\ zthr_cv = [z \in Zthrs |-> zthr_cv[z]]
        /\ \A z \in Zthrs : ~Running(z) => zthr_cv[z] = {}
    BY DEF SInv, Types, StoppedInv
  <2>6. /\ z_pc' = [z \in Zthrs |-> z_pc'[z]] /\ zthr_cv' = [z \in Zthrs |-> zthr_cv'[z]]
        /\ Syncing' = Syncing
        /\ \A z \in Zthrs : ~Running(z)' => zthr_cv'[z] = {}
    BY <1>a, <2>1, <2>4, <2>5 DEF Syncing, Running
  <2>7. pc'[c] = "rstart" => z_pc'[zi'[c]] = "none"
    BY <2>1, <2>3 DEF Running
  <2>8. /\ ~OnceSuspended(c) /\ ~TwiceSuspended(c) /\ ~HoldsPool(c)
        /\ ~OnceSuspended(c)' /\ ~TwiceSuspended(c)' /\ ~HoldsPool(c)'
    BY <1>1, <2>1, <2>3 DEF OnceSuspended, TwiceSuspended, HoldsPool, Waiting, Unloading
  <2>9. pc'[c] \in Pcs /\ pc'[c] \notin Unloading
    BY <2>3 DEF Pcs, Unloading, Waiting
  <2> QED BY <1>a, <1>1, <2>1, <2>3, <2>6, <2>7, <2>8, <2>9 DEF CallerStep, Bit
<1> QED BY <1>2, <1>3

(* spa_unload: the caller's own two suspensions are all there are when the *)
(* pool goes away, because every other suspender would hold the pool.      *)
LEMMA UnloadStep ==
  ASSUME SInv, NEW c \in Callers, UnloadStop(c) \/ UnloadDestroy(c)
  PROVE  CallerStep(c)
<1>a. /\ pc \in [Callers -> Pcs] /\ zi \in [Callers -> Zthrs]
      /\ spa_async_suspended \in Nat /\ spa_refcount \in Nat /\ NOBODY \notin Callers
  BY SpaAsyncAssumption DEF SInv, Types
<1>1. /\ pc[c] \in {"stop", "destroy"} /\ spa_namespace_lock = c /\ zi' = zi
      /\ UNCHANGED <<z_pc, zthr_cv, opened, spa_refcount, a_pc>>
  BY DEF UnloadStop, UnloadDestroy, SInv, LockInv, zthrVars, poolRefs, asyncVars
<1>2. /\ spa_refcount = 0 /\ \A z \in Zthrs : ~Running(z)
      /\ OnceSuspended(c) /\ TwiceSuspended(c) /\ ~HoldsPool(c)
  BY <1>1 DEF SInv, StoppedInv, OnceSuspended, TwiceSuspended, HoldsPool, Unloading
<1>3. a_pc = "none"
  BY <1>1, <1>2 DEF SInv, QuietInv, Alone
<1>4. CASE UnloadStop(c)
  <2>1. /\ pc' = [pc EXCEPT ![c] = "destroy"] /\ spa_namespace_lock' = c
        /\ spa_async_suspended' = spa_async_suspended
    BY <1>1, <1>4 DEF UnloadStop, Goto
  <2>2. OnceSuspended(c)' /\ TwiceSuspended(c)' /\ ~HoldsPool(c)'
    BY <1>a, <2>1 DEF OnceSuspended, TwiceSuspended, HoldsPool, Unloading
  <2> QED BY <1>a, <1>1, <1>2, <1>3, <2>1, <2>2, ZthrsKept
          DEF CallerStep, Bit, Pcs, Unloading, Waiting
<1>5. CASE UnloadDestroy(c)
  <2>1. /\ pc' = [pc EXCEPT ![c] = "done"] /\ spa_namespace_lock' = NOBODY
        /\ spa_async_suspended' = 0
    BY <1>5 DEF UnloadDestroy, Goto
  <2>2. ~OnceSuspended(c)' /\ ~TwiceSuspended(c)' /\ ~HoldsPool(c)'
    BY <1>a, <2>1 DEF OnceSuspended, TwiceSuspended, HoldsPool, Unloading, Waiting
  <2>3. spa_async_suspended = 2
    <3>1. /\ Cardinality(Holders) \in Nat /\ Cardinality(Syncing) \in Nat
          /\ spa_refcount = Cardinality(Holders) + Cardinality(Syncing)
                              + (IF opened THEN 1 ELSE 0)
      BY Finite, FS_CardinalityType DEF SInv, CountInv
    <3>2. Holders = {}
      <4>1. Cardinality(Holders) = 0
        BY <1>2, <3>1
      <4> QED BY <4>1, Finite, FS_EmptySet
    <3>3. Once = {c} /\ Twice = {c}
      BY <1>1, <1>2, <3>2
         DEF Once, Twice, Holders, OnceSuspended, TwiceSuspended, HoldsPool
    <3>4. Cardinality(Once) = 1 /\ Cardinality(Twice) = 1
      BY <3>3, FS_Singleton
    <3> QED BY <3>4 DEF SInv, CountInv
  <2> QED BY <1>a, <1>1, <1>2, <1>3, <2>1, <2>2, <2>3, ZthrsKept
          DEF CallerStep, Bit, Pcs, Unloading, Waiting
<1> QED BY <1>4, <1>5

-----------------------------------------------------------------------------
(* A step of any other thread: no caller moves, an async thread comes only *)
(* while nothing is suspended, a zthr only stops, and a hold is taken only *)
(* while nobody has the namespace lock.                                    *)
ThreadStep ==
    /\ UNCHANGED <<pc, zi, spa_namespace_lock, spa_async_suspended>>
    /\ a_pc' = "none" \/ a_pc # "none" \/ a_pc' = a_pc \/ spa_async_suspended = 0
    /\ z_pc' = [z \in Zthrs |-> z_pc'[z]] /\ zthr_cv' = [z \in Zthrs |-> zthr_cv'[z]]
    /\ \A z \in Zthrs : ~Running(z) => ~Running(z)'
    /\ \A z \in Zthrs : ~Running(z)' => zthr_cv'[z] = {}
    /\ spa_refcount' = Cardinality(Holders) + Cardinality(Syncing')
                         + (IF opened' THEN 1 ELSE 0)
    /\ spa_refcount' = spa_refcount \/ spa_namespace_lock = NOBODY \/ spa_refcount # 0

LEMMA ThreadKeeps ==
  ASSUME SInv, ThreadStep
  PROVE  SInv'
<1>a. NOBODY \notin Callers
  BY SpaAsyncAssumption
<1>0. UNCHANGED <<pc, zi, spa_namespace_lock, spa_async_suspended>>
  BY DEF ThreadStep
<1>1. Holders' = Holders /\ Once' = Once /\ Twice' = Twice
  BY <1>0 DEF Holders, Once, Twice, HoldsPool, OnceSuspended, TwiceSuspended
<1>2. Types'
  <2>1. spa_refcount' \in Nat
    <3>1. IsFiniteSet(Zthrs)
      BY FS_Interval, SpaAsyncAssumption
    <3>2. IsFiniteSet(Syncing')
      BY <3>1, FS_Subset DEF Syncing
    <3>3. Cardinality(Holders) \in Nat /\ Cardinality(Syncing') \in Nat
      BY <3>2, Finite, FS_CardinalityType
    <3> QED BY <3>3 DEF ThreadStep
  <2> QED BY <1>0, <2>1 DEF SInv, Types, ThreadStep
<1>3. LockInv'
  BY <1>0 DEF SInv, LockInv
<1>4. CountInv'
  BY <1>0, <1>1 DEF SInv, CountInv, ThreadStep
<1>5. QuietInv'
  <2>1. \A c \in Callers : OnceSuspended(c) => spa_async_suspended # 0
    <3>1. /\ Cardinality(Once) \in Nat /\ Cardinality(Twice) \in Nat
          /\ spa_async_suspended = Cardinality(Once) + Cardinality(Twice)
      BY Finite, FS_CardinalityType DEF SInv, CountInv
    <3>2. spa_async_suspended = 0 => Once = {}
      <4>1. spa_async_suspended = 0 => Cardinality(Once) = 0
        BY <3>1
      <4> QED BY <4>1, Finite, FS_EmptySet
    <3> QED BY <3>2 DEF Once
  <2>2. \A c \in Callers : /\ OnceSuspended(c)' <=> OnceSuspended(c)
                           /\ Alone(c)' <=> Alone(c)
    BY <1>0 DEF OnceSuspended, Alone
  <2> QED BY <2>1, <2>2 DEF SInv, QuietInv, ThreadStep
<1>6. StoppedInv'
  <2>1. \A c \in Callers : spa_namespace_lock = c /\ pc[c] \in Unloading =>
          spa_refcount' = spa_refcount
    BY <1>a DEF SInv, StoppedInv, ThreadStep
  <2>2. zi \in [Callers -> Zthrs]
    BY DEF SInv, Types
  <2> QED BY <1>0, <2>1, <2>2 DEF SInv, StoppedInv, ThreadStep
<1> QED BY <1>2, <1>3, <1>4, <1>5, <1>6 DEF SInv

(* The async thread, the requests, and the sync thread's hand-over to a    *)
(* zthr leave the holds alone.                                             *)
LEMMA AsyncStep ==
  ASSUME SInv,
         \/ \E t \in Tasks : SpaAsyncRequest(t)
         \/ SpaAsyncDispatch \/ CcwInterval \/ SpaAsyncThread
         \/ \E z \in Zthrs : SyncStartWork(z)
         \/ SyncWakeup
  PROVE  ThreadStep
<1>1. /\ UNCHANGED <<pc, zi, spa_namespace_lock, spa_async_suspended, z_pc,
                     spa_refcount, opened>>
      /\ zthr_cv' = zthr_cv \/ zthr_cv' = [zthr_cv EXCEPT ![sync_wake] = {}]
  BY DEF SpaAsyncRequest, SpaAsyncDispatch, CcwInterval, SpaAsyncThread, SyncStartWork,
         SyncWakeup, ZthrWakeup, zthrVars, poolRefs, asyncVars
<1>2. a_pc' = "none" \/ a_pc # "none" \/ a_pc' = a_pc \/ spa_async_suspended = 0
  BY DEF SpaAsyncRequest, SpaAsyncDispatch, Dispatchable, CcwInterval, SpaAsyncThread,
         AsyncTake, AsyncConfig, AsyncOther, AsyncEnd, SyncStartWork, SyncWakeup,
         asyncVars
<1>3. /\ z_pc = [z \in Zthrs |-> z_pc[z]] /\ zthr_cv = [z \in Zthrs |-> zthr_cv[z]]
      /\ \A z \in Zthrs : ~Running(z) => zthr_cv[z] = {}
      /\ spa_refcount = Cardinality(Holders) + Cardinality(Syncing)
                          + (IF opened THEN 1 ELSE 0)
  BY DEF SInv, Types, StoppedInv, CountInv
<1>4. Syncing' = Syncing /\ \A z \in Zthrs : Running(z)' <=> Running(z)
  BY <1>1 DEF Syncing, Running
<1>5. zthr_cv' = [z \in Zthrs |-> zthr_cv'[z]]
      /\ \A z \in Zthrs : zthr_cv'[z] = zthr_cv[z] \/ zthr_cv'[z] = {}
  BY <1>1, <1>3
<1> QED BY <1>1, <1>2, <1>3, <1>4, <1>5 DEF ThreadStep

(* A zthr holds the pool exactly while its sync task is under way.         *)
LEMMA ZthrStep ==
  ASSUME SInv, NEW z \in Zthrs, ZthrRun(z)
  PROVE  ThreadStep
<1>1. UNCHANGED <<pc, zi, spa_namespace_lock, spa_async_suspended, opened, a_pc>>
  BY DEF ZthrRun, asyncVars
<1>2. /\ z_pc = [y \in Zthrs |-> z_pc[y]] /\ zthr_cv = [y \in Zthrs |-> zthr_cv[y]]
      /\ \A y \in Zthrs : ~Running(y) => zthr_cv[y] = {}
      /\ spa_refcount \in Nat
      /\ spa_refcount = Cardinality(Holders) + Cardinality(Syncing)
                          + (IF opened THEN 1 ELSE 0)
  BY DEF SInv, Types, StoppedInv, CountInv
<1>3. /\ z_pc[z] # "none"
      /\ \/ /\ z_pc[z] # "sync" /\ spa_refcount' = spa_refcount
            /\ \/ /\ \E l \in {"exit", "func", "sleep", "loop", "task"} :
                         z_pc' = [z_pc EXCEPT ![z] = l]
                  /\ \/ zthr_cv' = zthr_cv
                     \/ zthr_cv' = [zthr_cv EXCEPT ![z] = @ \cup {Self}]
               \/ /\ z_pc' = [z_pc EXCEPT ![z] = "none"]
                  /\ zthr_cv' = [zthr_cv EXCEPT ![z] = {}]
         \/ /\ z_pc[z] = "task" /\ spa_namespace_lock = NOBODY
            /\ z_pc' = [z_pc EXCEPT ![z] = "sync"] /\ zthr_cv' = zthr_cv
            /\ spa_refcount' = spa_refcount + 1
         \/ /\ z_pc[z] = "sync" /\ zthr_cv' = zthr_cv
            /\ \E l \in {"loop", "func"} : z_pc' = [z_pc EXCEPT ![z] = l]
            /\ spa_refcount' = spa_refcount - 1
  BY DEF ZthrRun, ZthrProcedure, ZthrExit, ZthrFunc, ZthrTaskOpen, ZthrTaskDone
<1>4. /\ z_pc' = [y \in Zthrs |-> z_pc'[y]] /\ zthr_cv' = [y \in Zthrs |-> zthr_cv'[y]]
      /\ \A y \in Zthrs : y # z => z_pc'[y] = z_pc[y] /\ zthr_cv'[y] = zthr_cv[y]
      /\ ~Running(z)' => zthr_cv'[z] = {}
  BY <1>2, <1>3 DEF Running
<1>5. /\ \A y \in Zthrs : ~Running(y) => ~Running(y)'
      /\ \A y \in Zthrs : ~Running(y)' => zthr_cv'[y] = {}
  BY <1>2, <1>3, <1>4 DEF Running
<1>6. /\ Cardinality(Syncing) \in Nat /\ Cardinality(Syncing') \in Nat
      /\ Cardinality(Syncing') = Cardinality(Syncing) - In(z, Syncing) + In(z, Syncing')
  BY <1>4, CardStep, Finite DEF Syncing
<1>7. /\ spa_refcount' = spa_refcount - In(z, Syncing) + In(z, Syncing')
      /\ spa_refcount' = spa_refcount \/ spa_namespace_lock = NOBODY \/ z \in Syncing
  BY <1>2, <1>3 DEF In, Syncing
<1>8. z \in Syncing => spa_refcount # 0
  <2>1. z \in Syncing => Cardinality(Syncing) # 0
    BY Finite, FS_EmptySet
  <2>2. Cardinality(Holders) \in Nat
    BY Finite, FS_CardinalityType
  <2> QED BY <1>2, <1>6, <2>1, <2>2
<1>9. spa_refcount' = Cardinality(Holders) + Cardinality(Syncing')
                        + (IF opened' THEN 1 ELSE 0)
  <2>1. Cardinality(Holders) \in Nat
    BY Finite, FS_CardinalityType
  <2>2. In(z, Syncing) \in Int /\ In(z, Syncing') \in Int /\ opened' = opened
    BY <1>1 DEF In
  <2> QED BY <1>2, <1>6, <1>7, <2>1, <2>2
<1> QED BY <1>1, <1>4, <1>5, <1>7, <1>8, <1>9 DEF ThreadStep

LEMMA UserStep ==
  ASSUME SInv, SpaOpen \/ SpaClose
  PROVE  ThreadStep
<1>1. /\ UNCHANGED <<pc, zi, spa_namespace_lock, spa_async_suspended, z_pc, zthr_cv, a_pc>>
      /\ \/ /\ ~opened /\ opened' /\ spa_refcount' = spa_refcount + 1
            /\ spa_namespace_lock = NOBODY
         \/ opened /\ ~opened' /\ spa_refcount' = spa_refcount - 1
  BY DEF SpaOpen, SpaClose, zthrVars, asyncVars
<1>2. /\ Cardinality(Holders) \in Nat /\ Cardinality(Syncing) \in Nat
      /\ spa_refcount = Cardinality(Holders) + Cardinality(Syncing)
                          + (IF opened THEN 1 ELSE 0)
  BY Finite, FS_CardinalityType DEF SInv, CountInv
<1>3. /\ spa_refcount' = Cardinality(Holders) + Cardinality(Syncing)
                           + (IF opened' THEN 1 ELSE 0)
      /\ spa_namespace_lock = NOBODY \/ spa_refcount # 0
  BY <1>1, <1>2
<1> QED BY <1>1, <1>3, ZthrsKept DEF ThreadStep

LEMMA SInvStep == SInv /\ [SpaNext]_vars => SInv'
<1> SUFFICES ASSUME SInv, [SpaNext]_vars PROVE SInv' OBVIOUS
<1>1. ASSUME NEW c \in Callers, ExportLookup(c) \/ Export(c) PROVE SInv'
  BY <1>1, ExportLookupStep, SuspendStep, CancelStep, LockStep, ResumeStep, UnloadStep,
     CallerKeeps DEF Export
<1>2. ASSUME \/ \E t \in Tasks : SpaAsyncRequest(t)
             \/ SpaAsyncDispatch \/ CcwInterval \/ SpaAsyncThread
             \/ \E z \in Zthrs : SyncStartWork(z)
             \/ SyncWakeup
      PROVE  SInv'
  BY <1>2, AsyncStep, ThreadKeeps
<1>3. ASSUME (\E z \in Zthrs : ZthrRun(z)) \/ SpaOpen \/ SpaClose PROVE SInv'
  BY <1>3, ZthrStep, UserStep, ThreadKeeps
<1>4. CASE UNCHANGED vars
  BY <1>4 DEF vars, spaVars, zthrVars, SInv, Types, LockInv, CountInv, QuietInv,
       StoppedInv, Holders, Once, Twice, Syncing, HoldsPool, OnceSuspended,
       TwiceSuspended, Alone, Running
<1> QED BY <1>1, <1>2, <1>3, <1>4 DEF SpaNext

(* Whoever has suspended the async tasks has no async thread beside it,    *)
(* however many exports overlap, and spa_unload destroys the zthrs when    *)
(* none of them runs, nobody sleeps on one and no thread holds the pool.   *)
THEOREM AsyncQuietSafe == SpaSpec => []AsyncQuiet
<1>1. SpaInit => SInv
  BY SInvInit
<1>2. SInv /\ [SpaNext]_vars => SInv'
  BY SInvStep
<1>3. SInv => AsyncQuiet
  BY SInvQuiet
<1> QED BY <1>1, <1>2, <1>3, PTL DEF SpaSpec
=============================================================================
