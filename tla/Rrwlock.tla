------------------------------ MODULE Rrwlock ------------------------------
(***************************************************************************)
(* The re-entrant read reader/writer lock of ZFS (rrw_* of                 *)
(* src/kernel/fs/zfs/rrwlock.c).                                           *)
(*                                                                         *)
(* A read hold is <<thread, tag, k>>: k tells apart nested holds of one    *)
(* thread with one tag.  A reader that comes while a writer waits leaves a *)
(* node in its thread specific data and is counted in rr_linked_rcount;    *)
(* any other reader is anonymous and only counted in rr_anon_rcount.  The  *)
(* fast paths of a non-DEBUG kernel do what the loops do when nothing      *)
(* blocks, so each function is modelled once.  One action is one critical  *)
(* section of rr_lock, ended by the unlock or by cv_wait.                  *)
(***************************************************************************)
EXTENDS Naturals, FiniteSets

CONSTANTS
    Threads,
    Writers,    \* the threads that ask for the write lock
    Locks,
    Tags,
    MaxHolds,   \* bound: nested read holds of one thread with one tag
    Prios       \* {FALSE}, or BOOLEAN if rrw_enter_read_prio is used too

NULL == "NULL"

ASSUME RrwAssumption ==
    /\ IsFiniteSet(Threads) /\ IsFiniteSet(Tags) /\ MaxHolds \in Nat
    /\ Writers \subseteq Threads
    /\ NULL \notin Threads
    /\ Prios \subseteq BOOLEAN

Holds == Threads \X Tags \X (1 .. MaxHolds)

VARIABLES
    rr_track_all,       \* lock -> the argument of rrw_init; never changes
    rr_writer,          \* lock -> the writer or NULL
    rr_writer_wanted,   \* lock -> whether a writer waits
    rr_anon_rcount,     \* lock -> anonymous read holds
    rr_linked_rcount,   \* lock -> read holds with a node
    rr_cv,              \* lock -> threads asleep on it
    rrn,                \* lock -> holds that have a node in their thread's tsd
    held,               \* lock -> read holds the callers have been given
    call                \* thread -> the enter call it is in

rrVars == <<rr_track_all, rr_writer, rr_writer_wanted, rr_anon_rcount, rr_linked_rcount,
            rr_cv, rrn, held, call>>

Idle == [op |-> "none"]
ReadCall(l, h, prio) == [op |-> "read", lock |-> l, hold |-> h, prio |-> prio]
WriteCall(l) == [op |-> "write", lock |-> l]
Calls == {Idle}
         \cup {ReadCall(l, h, p) : l \in Locks, h \in Holds, p \in Prios}
         \cup {WriteCall(l) : l \in Locks}

(* Every field of rrwlock_t has its range; rrw_exit never takes a read      *)
(* count below zero.                                                       *)
RrwTypeOK ==
    /\ rr_track_all \in [Locks -> BOOLEAN]
    /\ rr_writer \in [Locks -> Threads \cup {NULL}]
    /\ rr_writer_wanted \in [Locks -> BOOLEAN]
    /\ rr_anon_rcount \in [Locks -> Nat]
    /\ rr_linked_rcount \in [Locks -> Nat]
    /\ rr_cv \in [Locks -> SUBSET Threads]
    /\ rrn \in [Locks -> SUBSET Holds]
    /\ held \in [Locks -> SUBSET Holds]
    /\ call \in [Threads -> Calls]

(* rrw_init *)
RrwInit ==
    /\ rr_track_all \in [Locks -> BOOLEAN]
    /\ rr_writer = [l \in Locks |-> NULL]
    /\ rr_writer_wanted = [l \in Locks |-> FALSE]
    /\ rr_anon_rcount = [l \in Locks |-> 0]
    /\ rr_linked_rcount = [l \in Locks |-> 0]
    /\ rr_cv = [l \in Locks |-> {}]
    /\ rrn = [l \in Locks |-> {}]
    /\ held = [l \in Locks |-> {}]
    /\ call = [t \in Threads |-> Idle]

-----------------------------------------------------------------------------
(* Mutant: a node of any thread will do.                                   *)
RrnFindAny(t, l) == rr_linked_rcount[l] # 0
(* rrn_find: a node of this thread for this lock, whatever its tag.        *)
RrnFind(t, l) == rr_linked_rcount[l] # 0 /\ \E n \in rrn[l] : n[1] = t

(* Mutant: the list is not searched.                                       *)
RrnMatchesNone(l, h) == {}
(* The nodes that rrn_find_and_remove may take for a hold: it looks at the *)
(* thread and the tag, so nested holds with one tag are interchangeable.   *)
RrnMatches(l, h) ==
    {n \in rrn[l] : rr_linked_rcount[l] # 0 /\ n[1] = h[1] /\ n[2] = h[2]}

(* Mutant: anonymous readers are not taken for possible re-entries.        *)
ReadBlockedStrict(t, l, prio) ==
    \/ rr_writer[l] # NULL
    \/ rr_writer_wanted[l] /\ ~prio /\ ~RrnFind(t, l)
(* The condition of the wait loop in rrw_enter_read_impl.                  *)
ReadBlocked(t, l, prio) ==
    \/ rr_writer[l] # NULL
    \/ /\ rr_writer_wanted[l]
       /\ rr_anon_rcount[l] = 0
       /\ ~prio
       /\ ~RrnFind(t, l)

(* The loop of rrw_enter_read_impl and what follows it.                    *)
ReadLoop(t, l, h, prio) ==
    IF ReadBlocked(t, l, prio)
    THEN /\ rr_cv' = [rr_cv EXCEPT ![l] = @ \cup {t}]
         /\ call' = [call EXCEPT ![t] = ReadCall(l, h, prio)]
         /\ UNCHANGED <<rr_writer, rr_writer_wanted, rr_anon_rcount,
                        rr_linked_rcount, rrn, held>>
    ELSE /\ IF rr_writer_wanted[l] \/ rr_track_all[l]
            THEN /\ rrn' = [rrn EXCEPT ![l] = @ \cup {h}]
                 /\ rr_linked_rcount' = [rr_linked_rcount EXCEPT ![l] = @ + 1]
                 /\ UNCHANGED rr_anon_rcount
            ELSE /\ rr_anon_rcount' = [rr_anon_rcount EXCEPT ![l] = @ + 1]
                 /\ UNCHANGED <<rrn, rr_linked_rcount>>
         /\ held' = [held EXCEPT ![l] = @ \cup {h}]
         /\ call' = [call EXCEPT ![t] = Idle]
         /\ UNCHANGED <<rr_writer, rr_writer_wanted, rr_cv>>

(* rrw_enter_read and rrw_enter_read_prio; the caller may already be a     *)
(* reader but not the writer.                                              *)
RrwEnterRead(t, l, h, prio) ==
    /\ call[t] = Idle
    /\ rr_writer[l] # t
    /\ h[1] = t
    /\ h \notin held[l]
    /\ ReadLoop(t, l, h, prio)

RrwReadWake(t) ==
    /\ call[t].op = "read"
    /\ t \notin rr_cv[call[t].lock]
    /\ ReadLoop(t, call[t].lock, call[t].hold, call[t].prio)

(* Mutant: linked readers do not keep a writer out.                        *)
WriteBlockedAnon(l) == rr_anon_rcount[l] > 0 \/ rr_writer[l] # NULL
(* The condition of the wait loop in rrw_enter_write.                      *)
WriteBlocked(l) ==
    \/ rr_anon_rcount[l] > 0
    \/ rr_linked_rcount[l] > 0
    \/ rr_writer[l] # NULL

WriteLoop(t, l) ==
    /\ IF WriteBlocked(l)
       THEN /\ rr_writer_wanted' = [rr_writer_wanted EXCEPT ![l] = TRUE]
            /\ rr_cv' = [rr_cv EXCEPT ![l] = @ \cup {t}]
            /\ call' = [call EXCEPT ![t] = WriteCall(l)]
            /\ UNCHANGED rr_writer
       ELSE /\ rr_writer_wanted' = [rr_writer_wanted EXCEPT ![l] = FALSE]
            /\ rr_writer' = [rr_writer EXCEPT ![l] = t]
            /\ call' = [call EXCEPT ![t] = Idle]
            /\ UNCHANGED rr_cv
    /\ UNCHANGED <<rr_anon_rcount, rr_linked_rcount, rrn, held>>

Reads(t, l) == \E h \in held[l] : h[1] = t

(* rrw_enter_write; a reader must first drop its read holds.               *)
RrwEnterWrite(t, l) ==
    /\ call[t] = Idle
    /\ rr_writer[l] # t
    /\ ~Reads(t, l)
    /\ WriteLoop(t, l)

RrwWriteWake(t) ==
    /\ call[t].op = "write"
    /\ t \notin rr_cv[call[t].lock]
    /\ WriteLoop(t, call[t].lock)

(* Mutant: the sleepers are woken when the anonymous readers are gone, not *)
(* when the linked ones are.                                               *)
ExitWakesAnon(anon, linked, wasLinked) == ~wasLinked /\ anon = 0
(* Whether rrw_exit of a reader broadcasts: the count it decremented is 0. *)
ExitWakes(anon, linked, wasLinked) == IF wasLinked THEN linked = 0 ELSE anon = 0

(* rrw_exit by a reader.                                                   *)
RrwExitRead(t, l, h) ==
    /\ call[t] = Idle
    /\ h[1] = t
    /\ h \in held[l]
    /\ held' = [held EXCEPT ![l] = @ \ {h}]
    /\ IF RrnMatches(l, h) # {}
       THEN /\ \E n \in RrnMatches(l, h) :
                 /\ h \in rrn[l] => n = h
                 /\ rrn' = [rrn EXCEPT ![l] = @ \ {n}]
            /\ rr_linked_rcount' = [rr_linked_rcount EXCEPT ![l] = @ - 1]
            /\ UNCHANGED rr_anon_rcount
       ELSE /\ rr_anon_rcount' = [rr_anon_rcount EXCEPT ![l] = @ - 1]
            /\ UNCHANGED <<rrn, rr_linked_rcount>>
    /\ rr_cv' = IF ExitWakes(rr_anon_rcount'[l], rr_linked_rcount'[l],
                             RrnMatches(l, h) # {})
                THEN [rr_cv EXCEPT ![l] = {}] ELSE rr_cv
    /\ UNCHANGED <<rr_writer, rr_writer_wanted, call>>

(* rrw_exit by the writer.                                                 *)
RrwExitWrite(t, l) ==
    /\ call[t] = Idle
    /\ rr_writer[l] = t
    /\ rr_writer' = [rr_writer EXCEPT ![l] = NULL]
    /\ rr_cv' = [rr_cv EXCEPT ![l] = {}]
    /\ UNCHANGED <<rr_writer_wanted, rr_anon_rcount, rr_linked_rcount, rrn,
                   held, call>>

(* rrw_held(RW_READER) *)
RrwHeld(t, l) == rr_anon_rcount[l] # 0 \/ RrnFind(t, l)

RrwWake(t) == RrwReadWake(t) \/ RrwWriteWake(t)

RrwStep(t) ==
    \/ RrwWake(t)
    \/ \E l \in Locks :
         \/ t \in Writers /\ RrwEnterWrite(t, l)
         \/ RrwExitWrite(t, l)
         \/ \E h \in Holds :
              \/ \E prio \in Prios : RrwEnterRead(t, l, h, prio)
              \/ RrwExitRead(t, l, h)

RrwNext == (\E t \in Threads : RrwStep(t)) /\ UNCHANGED rr_track_all

RrwSpec == RrwInit /\ [][RrwNext]_rrVars

-----------------------------------------------------------------------------
(* While a thread has the write lock nobody has a read hold, and the two   *)
(* counts together are the number of read holds: an exit by a thread whose *)
(* first hold was anonymous and whose second was linked takes one off      *)
(* either count and still leaves both right.                               *)
Exclusion ==
    \A l \in Locks :
        /\ rr_writer[l] # NULL => held[l] = {}
        /\ rr_anon_rcount[l] + rr_linked_rcount[l] = Cardinality(held[l])
        /\ rr_linked_rcount[l] = Cardinality(rrn[l])

(* A thread that has a read hold never sleeps in rrw_enter_read, whatever  *)
(* writers wait: it could be the one the writer waits for.                 *)
ReentryNeverWaits ==
    \A l \in Locks, t \in Threads :
        t \in rr_cv[l] /\ call[t].op = "read" => ~Reads(t, l)

(* A sleeping thread has been announced and somebody is there to wake it:  *)
(* a writer sleeps only with rr_writer_wanted set and the lock taken, a    *)
(* reader only while a writer has the lock or waits for it.                *)
SleepersAnnounced ==
    \A l \in Locks : \A t \in rr_cv[l] :
        /\ call[t].op = "write" => rr_writer_wanted[l] /\ WriteBlocked(l)
        /\ call[t].op = "read" =>
             \/ rr_writer[l] # NULL
             \/ \E w \in Threads : call[w] = WriteCall(l)

(* rrw_held(RW_READER) never denies a hold, and with rr_track_all it is    *)
(* exact, as the comment on it says.                                       *)
HeldExact ==
    \A l \in Locks, t \in Threads :
        /\ Reads(t, l) => RrwHeld(t, l)
        /\ rr_track_all[l] => (RrwHeld(t, l) => Reads(t, l))
=============================================================================
