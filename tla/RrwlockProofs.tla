--------------------------- MODULE RrwlockProofs ---------------------------
(***************************************************************************)
(* Proofs about Rrwlock for any number of threads, locks, tags and nested  *)
(* holds.  The argument: the nodes are a part of the read holds (NodesHeld) *)
(* and the two counts add up to the holds (Exclusion), so once no          *)
(* anonymous hold is counted every hold has a node and a re-entering       *)
(* reader finds its own.                                                   *)
(***************************************************************************)
EXTENDS Rrwlock, FiniteSetTheorems, TLAPS

(* Every node stands for a hold somebody has, and there are finitely many. *)
NodesHeld ==
    \A l \in Locks : rrn[l] \subseteq held[l] /\ IsFiniteSet(held[l])

(* A thread that waits to read asks for a hold of its own and reads        *)
(* nothing of that lock; a sleeper is in a call on the lock it sleeps on.  *)
CallsFit ==
    /\ \A t \in Threads : call[t].op = "read" =>
         call[t].hold[1] = t /\ ~Reads(t, call[t].lock)
    /\ \A l \in Locks : \A t \in rr_cv[l] :
         call[t].op # "none" /\ call[t].lock = l

(* With rr_track_all no read hold is anonymous.                            *)
TrackInv == \A l \in Locks : rr_track_all[l] => rr_anon_rcount[l] = 0

RInv == RrwTypeOK /\ Exclusion /\ NodesHeld /\ CallsFit /\ TrackInv

-----------------------------------------------------------------------------
(* A call that is not idle is one of the two kinds.                        *)
LEMMA CallKinds ==
    ASSUME RrwTypeOK, NEW t \in Threads
    PROVE  /\ call[t].op = "read" =>
                /\ call[t].lock \in Locks /\ call[t].hold \in Holds
                /\ call[t].prio \in Prios
           /\ call[t].op = "write" => call[t].lock \in Locks
           /\ call[t] = Idle <=> call[t].op = "none"
<1>1. call[t] \in Calls
    BY DEF RrwTypeOK
<1>2. CASE call[t] = Idle
    BY <1>2 DEF Idle
<1>3. ASSUME NEW l \in Locks, NEW h \in Holds, NEW p \in Prios,
             call[t] = ReadCall(l, h, p)
      PROVE  /\ call[t].op = "read" /\ call[t].lock = l
             /\ call[t].hold = h /\ call[t].prio = p /\ call[t] # Idle
    BY <1>3 DEF ReadCall, Idle
<1>4. ASSUME NEW l \in Locks, call[t] = WriteCall(l)
      PROVE  call[t].op = "write" /\ call[t].lock = l /\ call[t] # Idle
    BY <1>4 DEF WriteCall, Idle
<1>5. QED
    BY <1>1, <1>2, <1>3, <1>4 DEF Calls

(* What the fields of a call are.                                          *)
LEMMA CallFields ==
    ASSUME NEW l \in Locks, NEW h \in Holds, NEW p \in Prios
    PROVE  /\ ReadCall(l, h, p) \in Calls /\ WriteCall(l) \in Calls
           /\ Idle \in Calls /\ Idle.op = "none"
           /\ ReadCall(l, h, p).op = "read" /\ ReadCall(l, h, p).lock = l
           /\ ReadCall(l, h, p).hold = h
           /\ WriteCall(l).op = "write" /\ WriteCall(l).lock = l
BY DEF Calls, ReadCall, WriteCall, Idle

(* A thread that has a read hold finds an anonymous count or its own node. *)
LEMMA ReaderKnown ==
    ASSUME RInv, NEW l \in Locks, NEW t \in Threads, Reads(t, l),
           rr_anon_rcount[l] = 0
    PROVE  RrnFind(t, l) /\ rr_writer[l] = NULL
<1>1. /\ rrn[l] \subseteq held[l] /\ IsFiniteSet(held[l])
      /\ rr_linked_rcount[l] \in Nat
      /\ rr_linked_rcount[l] = Cardinality(held[l])
      /\ rr_linked_rcount[l] = Cardinality(rrn[l])
    BY DEF RInv, NodesHeld, Exclusion, RrwTypeOK
<1>2. rrn[l] = held[l]
    BY <1>1, FS_Subset
<1>3. held[l] # {}
    BY DEF Reads
<1>4. Cardinality(held[l]) # 0
    BY <1>1, <1>3, FS_EmptySet
<1>5. rr_writer[l] = NULL
    BY <1>3 DEF RInv, Exclusion
<1>6. QED
    BY <1>1, <1>2, <1>4, <1>5 DEF RrnFind, Reads

-----------------------------------------------------------------------------
(* The state rrw_init leaves satisfies the invariant.                      *)
LEMMA InitRInv == RrwInit => RInv
<1> SUFFICES ASSUME RrwInit PROVE RInv
    OBVIOUS
<1> USE DEF RrwInit
<1>1. RrwTypeOK
    BY DEF RrwTypeOK, Calls
<1>2. Exclusion /\ NodesHeld
    BY FS_EmptySet DEF Exclusion, NodesHeld
<1>3. CallsFit
    BY DEF CallsFit, Idle
<1>4. TrackInv
    BY DEF TrackInv
<1>5. QED
    BY <1>1, <1>2, <1>3, <1>4 DEF RInv

(* The loop of rrw_enter_read, whether the thread just came or was woken.  *)
LEMMA ReadLoopStep ==
    ASSUME RInv, NEW t \in Threads, NEW l \in Locks, NEW h \in Holds,
           NEW prio \in Prios, h[1] = t, h \notin held[l],
           \A m \in Locks : t \notin rr_cv[m],
           ReadLoop(t, l, h, prio), UNCHANGED rr_track_all
    PROVE  RInv'
<1>0. RrwTypeOK /\ Exclusion /\ NodesHeld /\ CallsFit /\ TrackInv
    BY DEF RInv
<1>1. CASE ReadBlocked(t, l, prio)
    <2>1. /\ rr_cv' = [rr_cv EXCEPT ![l] = @ \cup {t}]
          /\ call' = [call EXCEPT ![t] = ReadCall(l, h, prio)]
          /\ UNCHANGED <<rr_writer, rr_writer_wanted, rr_anon_rcount,
                         rr_linked_rcount, rrn, held>>
        BY <1>1 DEF ReadLoop
    <2>2. ~Reads(t, l)
        BY <1>0, <1>1, ReaderKnown DEF ReadBlocked, Exclusion, Reads
    <2>3. RrwTypeOK'
        BY <1>0, <2>1, CallFields DEF RrwTypeOK
    <2>4. (Exclusion /\ NodesHeld /\ TrackInv)'
        BY <1>0, <2>1 DEF Exclusion, NodesHeld, TrackInv
    <2>5. \A u \in Threads : call'[u] = IF u = t THEN ReadCall(l, h, prio)
                                        ELSE call[u]
        BY <1>0, <2>1 DEF RrwTypeOK
    <2>6. \A m \in Locks : rr_cv'[m] = IF m = l THEN rr_cv[m] \cup {t}
                                       ELSE rr_cv[m]
        BY <1>0, <2>1 DEF RrwTypeOK
    <2>7. \A u \in Threads, m \in Locks : Reads(u, m)' <=> Reads(u, m)
        BY <2>1 DEF Reads
    <2>8. CallsFit'
        <3>1. ASSUME NEW u \in Threads, call'[u].op = "read"
              PROVE  (call[u].hold[1] = u /\ ~Reads(u, call[u].lock))'
            <4>1. CASE u = t
                BY <2>2, <2>5, <2>7, <4>1, CallFields
            <4>2. CASE u # t
                BY <1>0, <2>5, <2>7, <3>1, <4>2, CallKinds DEF CallsFit
            <4>3. QED
                BY <4>1, <4>2
        <3>2. ASSUME NEW m \in Locks, NEW u \in rr_cv'[m]
              PROVE  call'[u].op # "none" /\ call'[u].lock = m
            <4>1. u \in Threads
                BY <2>3 DEF RrwTypeOK
            <4>2. u \in rr_cv[m] \/ (m = l /\ u = t)
                BY <2>6, <3>2
            <4>3. CASE u \in rr_cv[m]
                <5>1. u # t /\ call'[u] = call[u]
                    BY <2>5, <4>1, <4>3
                <5>2. QED
                    BY <1>0, <4>3, <5>1 DEF CallsFit
            <4>4. CASE m = l /\ u = t
                BY <2>5, <4>4, CallFields
            <4>5. QED
                BY <4>2, <4>3, <4>4
        <3>3. QED
            BY <3>1, <3>2 DEF CallsFit
    <2>9. QED
        BY <2>3, <2>4, <2>8 DEF RInv
<1>2. CASE ~ReadBlocked(t, l, prio)
    <2>1. /\ \/ /\ rr_writer_wanted[l] \/ rr_track_all[l]
                /\ rrn' = [rrn EXCEPT ![l] = @ \cup {h}]
                /\ rr_linked_rcount' = [rr_linked_rcount EXCEPT ![l] = @ + 1]
                /\ UNCHANGED rr_anon_rcount
             \/ /\ ~rr_track_all[l]
                /\ rr_anon_rcount' = [rr_anon_rcount EXCEPT ![l] = @ + 1]
                /\ UNCHANGED <<rrn, rr_linked_rcount>>
          /\ held' = [held EXCEPT ![l] = @ \cup {h}]
          /\ call' = [call EXCEPT ![t] = Idle]
          /\ UNCHANGED <<rr_writer, rr_writer_wanted, rr_cv>>
        BY <1>2 DEF ReadLoop
    <2>2. rr_writer[l] = NULL
        BY <1>2 DEF ReadBlocked
    <2>3. RrwTypeOK'
        BY <1>0, <2>1, CallFields DEF RrwTypeOK
    <2>4. /\ IsFiniteSet(held[l] \cup {h})
          /\ Cardinality(held[l] \cup {h}) = Cardinality(held[l]) + 1
          /\ Cardinality(rrn[l] \cup {h}) = Cardinality(rrn[l]) + 1
        <3>1. IsFiniteSet(held[l]) /\ IsFiniteSet(rrn[l]) /\ h \notin rrn[l]
            BY <1>0, FS_Subset DEF NodesHeld
        <3>2. QED
            BY <3>1, FS_AddElement
    <2>5. \A m \in Locks : held'[m] = IF m = l THEN held[m] \cup {h}
                                      ELSE held[m]
        BY <1>0, <2>1 DEF RrwTypeOK
    <2>6. \/ /\ \A m \in Locks : rrn'[m] = IF m = l THEN rrn[m] \cup {h}
                                            ELSE rrn[m]
             /\ \A m \in Locks : rr_linked_rcount'[m] =
                  IF m = l THEN rr_linked_rcount[m] + 1
                  ELSE rr_linked_rcount[m]
             /\ rr_anon_rcount' = rr_anon_rcount
          \/ /\ \A m \in Locks : rr_anon_rcount'[m] =
                  IF m = l THEN rr_anon_rcount[m] + 1 ELSE rr_anon_rcount[m]
             /\ rrn' = rrn /\ rr_linked_rcount' = rr_linked_rcount
             /\ ~rr_track_all[l]
        BY <1>0, <2>1 DEF RrwTypeOK
    <2>7. Exclusion'
        <3>1. ASSUME NEW m \in Locks
              PROVE  /\ rr_writer'[m] # NULL => held'[m] = {}
                     /\ rr_anon_rcount'[m] + rr_linked_rcount'[m]
                          = Cardinality(held'[m])
                     /\ rr_linked_rcount'[m] = Cardinality(rrn'[m])
            <4>1. /\ rr_writer[m] # NULL => held[m] = {}
                  /\ rr_anon_rcount[m] \in Nat /\ rr_linked_rcount[m] \in Nat
                  /\ rr_anon_rcount[m] + rr_linked_rcount[m]
                       = Cardinality(held[m])
                  /\ rr_linked_rcount[m] = Cardinality(rrn[m])
                BY <1>0 DEF Exclusion, RrwTypeOK
            <4>2. CASE m = l
                <5>1. rr_writer'[m] = NULL
                    BY <2>1, <2>2, <4>2
                <5>2. \/ /\ rrn'[m] = rrn[m] \cup {h}
                         /\ rr_linked_rcount'[m] = rr_linked_rcount[m] + 1
                         /\ rr_anon_rcount'[m] = rr_anon_rcount[m]
                      \/ /\ rrn'[m] = rrn[m]
                         /\ rr_linked_rcount'[m] = rr_linked_rcount[m]
                         /\ rr_anon_rcount'[m] = rr_anon_rcount[m] + 1
                    BY <2>6, <4>2
                <5>3. /\ Cardinality(held'[m]) = Cardinality(held[m]) + 1
                      /\ Cardinality(rrn[m] \cup {h})
                           = Cardinality(rrn[m]) + 1
                    BY <2>4, <2>5, <4>2
                <5>4. rr_linked_rcount'[m] = Cardinality(rrn'[m])
                    BY <4>1, <5>2, <5>3
                <5>5. rr_anon_rcount'[m] + rr_linked_rcount'[m]
                        = (rr_anon_rcount[m] + rr_linked_rcount[m]) + 1
                    BY <4>1, <5>2
                <5>6. QED
                    BY <4>1, <5>1, <5>3, <5>4, <5>5
            <4>3. CASE m # l
                BY <2>1, <2>5, <2>6, <4>1, <4>3
            <4>4. QED
                BY <4>2, <4>3
        <3>2. QED
            BY <3>1 DEF Exclusion
    <2>8. NodesHeld' /\ TrackInv'
        BY <1>0, <2>4, <2>5, <2>6 DEF NodesHeld, TrackInv
    <2>9. CallsFit'
        <3>1. \A u \in Threads : call'[u] = IF u = t THEN Idle ELSE call[u]
            BY <1>0, <2>1 DEF RrwTypeOK
        <3>2. \A u \in Threads, m \in Locks :
                 u # t => (Reads(u, m)' <=> Reads(u, m))
            BY <2>5 DEF Reads
        <3>3. ASSUME NEW u \in Threads, call'[u].op = "read"
              PROVE  (call[u].hold[1] = u /\ ~Reads(u, call[u].lock))'
            <4>1. u # t /\ call'[u] = call[u]
                BY <3>1, <3>3 DEF Idle
            <4>2. QED
                BY <1>0, <3>2, <3>3, <4>1, CallKinds DEF CallsFit
        <3>4. ASSUME NEW m \in Locks, NEW u \in rr_cv'[m]
              PROVE  call'[u].op # "none" /\ call'[u].lock = m
            <4>1. u \in Threads /\ u # t /\ u \in rr_cv[m]
                BY <2>1, <2>3 DEF RrwTypeOK
            <4>2. QED
                BY <1>0, <3>1, <4>1 DEF CallsFit
        <3>5. QED
            BY <3>3, <3>4 DEF CallsFit
    <2>10. QED
        BY <2>3, <2>7, <2>8, <2>9 DEF RInv
<1>3. QED
    BY <1>1, <1>2

(* The loop of rrw_enter_write, whether the thread just came or was woken. *)
LEMMA WriteLoopStep ==
    ASSUME RInv, NEW t \in Threads, NEW l \in Locks,
           \A m \in Locks : t \notin rr_cv[m],
           WriteLoop(t, l), UNCHANGED rr_track_all
    PROVE  RInv'
<1>0. RrwTypeOK /\ Exclusion /\ NodesHeld /\ CallsFit /\ TrackInv
    BY DEF RInv
<1>1. /\ UNCHANGED <<rr_anon_rcount, rr_linked_rcount, rrn, held>>
      /\ \/ /\ rr_cv' = [rr_cv EXCEPT ![l] = @ \cup {t}]
            /\ call' = [call EXCEPT ![t] = WriteCall(l)]
            /\ rr_writer' = rr_writer
         \/ /\ ~WriteBlocked(l)
            /\ rr_writer' = [rr_writer EXCEPT ![l] = t]
            /\ call' = [call EXCEPT ![t] = Idle]
            /\ rr_cv' = rr_cv
      /\ \E b \in BOOLEAN :
           rr_writer_wanted' = [rr_writer_wanted EXCEPT ![l] = b]
    BY DEF WriteLoop
<1>2. WriteCall(l) \in Calls /\ Idle \in Calls
    BY DEF Calls
<1>3. RrwTypeOK'
    BY <1>0, <1>1, <1>2 DEF RrwTypeOK
<1>4. Exclusion'
    <2>1. ~WriteBlocked(l) => held[l] = {}
        <3>1. ~WriteBlocked(l) => Cardinality(held[l]) = 0
            BY <1>0 DEF WriteBlocked, Exclusion, RrwTypeOK
        <3>2. IsFiniteSet(held[l])
            BY <1>0 DEF NodesHeld
        <3>3. QED
            BY <3>1, <3>2, FS_EmptySet
    <2>2. \A m \in Locks : rr_writer'[m] # NULL => held[m] = {}
        BY <1>0, <1>1, <2>1 DEF Exclusion, RrwTypeOK
    <2>3. QED
        BY <1>0, <1>1, <2>2 DEF Exclusion
<1>5. NodesHeld' /\ TrackInv'
    BY <1>0, <1>1 DEF NodesHeld, TrackInv
<1>6. CallsFit'
    <2>1. \A u \in Threads : u # t => call'[u] = call[u]
        BY <1>0, <1>1 DEF RrwTypeOK
    <2>2. \A u \in Threads, m \in Locks : Reads(u, m)' <=> Reads(u, m)
        BY <1>1 DEF Reads
    <2>3. /\ call'[t].op # "read"
          /\ rr_cv' # rr_cv => call'[t].op = "write" /\ call'[t].lock = l
        BY <1>0, <1>1 DEF RrwTypeOK, WriteCall, Idle
    <2>4. ASSUME NEW u \in Threads, call'[u].op = "read"
          PROVE  (call[u].hold[1] = u /\ ~Reads(u, call[u].lock))'
        <3>1. u # t /\ call'[u] = call[u]
            BY <2>1, <2>3, <2>4
        <3>2. QED
            BY <1>0, <2>2, <2>4, <3>1, CallKinds DEF CallsFit
    <2>5. ASSUME NEW m \in Locks, NEW u \in rr_cv'[m]
          PROVE  call'[u].op # "none" /\ call'[u].lock = m
        <3>1. u \in Threads
            BY <1>3 DEF RrwTypeOK
        <3>2. u \in rr_cv[m] \/ (m = l /\ u = t /\ rr_cv' # rr_cv)
            BY <1>0, <1>1, <2>5 DEF RrwTypeOK
        <3>3. u \in rr_cv[m] => u # t
            OBVIOUS
        <3>4. QED
            BY <1>0, <2>1, <2>3, <3>1, <3>2, <3>3 DEF CallsFit
    <2>6. QED
        BY <2>4, <2>5 DEF CallsFit
<1>7. QED
    BY <1>3, <1>4, <1>5, <1>6 DEF RInv

(* rrw_exit by a reader: the count it takes one off is not zero.           *)
LEMMA ExitReadStep ==
    ASSUME RInv, NEW t \in Threads, NEW l \in Locks, NEW h \in Holds,
           RrwExitRead(t, l, h), UNCHANGED rr_track_all
    PROVE  RInv'
<1>0. RrwTypeOK /\ Exclusion /\ NodesHeld /\ CallsFit /\ TrackInv
    BY DEF RInv
<1>1. /\ h[1] = t /\ h \in held[l]
      /\ held' = [held EXCEPT ![l] = @ \ {h}]
      /\ UNCHANGED <<rr_writer, rr_writer_wanted, call>>
      /\ \A m \in Locks : rr_cv'[m] \subseteq rr_cv[m]
      /\ rr_cv' \in [Locks -> SUBSET Threads]
    BY <1>0 DEF RrwExitRead, RrwTypeOK
<1>2. /\ IsFiniteSet(held[l]) /\ IsFiniteSet(rrn[l])
      /\ rrn[l] \subseteq held[l]
      /\ rr_anon_rcount[l] \in Nat /\ rr_linked_rcount[l] \in Nat
      /\ rr_anon_rcount[l] + rr_linked_rcount[l] = Cardinality(held[l])
      /\ rr_linked_rcount[l] = Cardinality(rrn[l])
    BY <1>0, FS_Subset DEF NodesHeld, Exclusion, RrwTypeOK
<1>3. /\ IsFiniteSet(held[l] \ {h})
      /\ Cardinality(held[l] \ {h}) = Cardinality(held[l]) - 1
    BY <1>1, <1>2, FS_RemoveElement
<1>4. \A m \in Locks : held'[m] = IF m = l THEN held[m] \ {h} ELSE held[m]
    BY <1>0, <1>1 DEF RrwTypeOK
<1>5. CASE RrnMatches(l, h) # {}
    <2>1. PICK n \in RrnMatches(l, h) :
             /\ h \in rrn[l] => n = h
             /\ rrn' = [rrn EXCEPT ![l] = @ \ {n}]
             /\ rr_linked_rcount' = [rr_linked_rcount EXCEPT ![l] = @ - 1]
             /\ rr_anon_rcount' = rr_anon_rcount
        BY <1>5 DEF RrwExitRead
    <2>2. n \in rrn[l] /\ rr_linked_rcount[l] # 0
        BY DEF RrnMatches
    <2>3. Cardinality(rrn[l] \ {n}) = Cardinality(rrn[l]) - 1
        BY <1>2, <2>2, FS_RemoveElement
    <2>4. RrwTypeOK'
        BY <1>0, <1>1, <2>1, <2>2 DEF RrwTypeOK
    <2>5. \A m \in Locks :
            /\ rrn'[m] = IF m = l THEN rrn[m] \ {n} ELSE rrn[m]
            /\ rr_linked_rcount'[m] = IF m = l THEN rr_linked_rcount[m] - 1
                                      ELSE rr_linked_rcount[m]
        BY <1>0, <2>1 DEF RrwTypeOK
    <2>6. Exclusion'
        <3>1. ASSUME NEW m \in Locks
              PROVE  /\ rr_writer'[m] # NULL => held'[m] = {}
                     /\ rr_anon_rcount'[m] + rr_linked_rcount'[m]
                          = Cardinality(held'[m])
                     /\ rr_linked_rcount'[m] = Cardinality(rrn'[m])
            <4>1. CASE m = l
                <5>1. rr_writer'[m] = NULL
                    BY <1>0, <1>1, <4>1 DEF Exclusion
                <5>2. /\ Cardinality(held'[m]) = Cardinality(held[l]) - 1
                      /\ Cardinality(rrn'[m]) = Cardinality(rrn[l]) - 1
                    BY <1>3, <1>4, <2>3, <2>5, <4>1
                <5>3. /\ rr_anon_rcount'[m] = rr_anon_rcount[l]
                      /\ rr_linked_rcount'[m] = rr_linked_rcount[l] - 1
                    BY <2>1, <2>5, <4>1
                <5>4. QED
                    BY <1>2, <5>1, <5>2, <5>3
            <4>2. CASE m # l
                BY <1>0, <1>1, <1>4, <2>1, <2>5, <4>2 DEF Exclusion
            <4>3. QED
                BY <4>1, <4>2
        <3>2. QED
            BY <3>1 DEF Exclusion
    <2>7. NodesHeld'
        <3>1. h \notin rrn[l] \ {n}
            BY <2>1
        <3>2. QED
            BY <1>0, <1>2, <1>3, <1>4, <2>5, <3>1 DEF NodesHeld
    <2>8. TrackInv'
        BY <1>0, <2>1 DEF TrackInv
    <2>9. QED
        BY <2>4, <2>6, <2>7, <2>8, <1>0, <1>1, <1>4 DEF RInv, CallsFit, Reads
<1>6. CASE RrnMatches(l, h) = {}
    <2>1. /\ rr_anon_rcount' = [rr_anon_rcount EXCEPT ![l] = @ - 1]
          /\ UNCHANGED <<rrn, rr_linked_rcount>>
        BY <1>6 DEF RrwExitRead
    <2>2. h \notin rrn[l]
        <3>1. h \in rrn[l] => rr_linked_rcount[l] # 0
            BY <1>2, FS_EmptySet
        <3>2. QED
            BY <1>6, <3>1 DEF RrnMatches
    <2>3. rr_anon_rcount[l] # 0
        <3>1. rrn[l] # held[l]
            BY <1>1, <2>2
        <3>2. QED
            BY <1>2, <3>1, FS_Subset
    <2>4. RrwTypeOK'
        BY <1>0, <1>1, <2>1, <2>3 DEF RrwTypeOK
    <2>5. \A m \in Locks : rr_anon_rcount'[m] =
             IF m = l THEN rr_anon_rcount[m] - 1 ELSE rr_anon_rcount[m]
        BY <1>0, <2>1 DEF RrwTypeOK
    <2>6. Exclusion'
        <3>1. ASSUME NEW m \in Locks
              PROVE  /\ rr_writer'[m] # NULL => held'[m] = {}
                     /\ rr_anon_rcount'[m] + rr_linked_rcount'[m]
                          = Cardinality(held'[m])
                     /\ rr_linked_rcount'[m] = Cardinality(rrn'[m])
            <4>1. CASE m = l
                <5>1. rr_writer'[m] = NULL
                    BY <1>0, <1>1, <4>1 DEF Exclusion
                <5>2. Cardinality(held'[m]) = Cardinality(held[l]) - 1
                    BY <1>3, <1>4, <4>1
                <5>3. QED
                    BY <1>2, <2>1, <2>5, <4>1, <5>1, <5>2
            <4>2. CASE m # l
                BY <1>0, <1>1, <1>4, <2>1, <2>5, <4>2 DEF Exclusion
            <4>3. QED
                BY <4>1, <4>2
        <3>2. QED
            BY <3>1 DEF Exclusion
    <2>7. NodesHeld'
        BY <1>0, <1>3, <1>4, <2>1, <2>2 DEF NodesHeld
    <2>8. TrackInv'
        BY <1>0, <2>3, <2>5 DEF TrackInv
    <2>9. QED
        BY <2>4, <2>6, <2>7, <2>8, <1>0, <1>1, <1>4 DEF RInv, CallsFit, Reads
<1>7. QED
    BY <1>5, <1>6

(* rrw_exit by the writer.                                                 *)
LEMMA ExitWriteStep ==
    ASSUME RInv, NEW t \in Threads, NEW l \in Locks, RrwExitWrite(t, l),
           UNCHANGED rr_track_all
    PROVE  RInv'
<1>1. RrwTypeOK'
    BY DEF RInv, RrwTypeOK, RrwExitWrite
<1>2. Exclusion'
    BY DEF RInv, RrwTypeOK, RrwExitWrite, Exclusion
<1>3. NodesHeld' /\ TrackInv'
    BY DEF RInv, RrwExitWrite, NodesHeld, TrackInv
<1>4. CallsFit'
    BY DEF RInv, RrwTypeOK, RrwExitWrite, CallsFit, Reads
<1>5. QED
    BY <1>1, <1>2, <1>3, <1>4 DEF RInv

-----------------------------------------------------------------------------
(* Every step keeps the invariant.                                         *)
LEMMA RInvStep ==
    ASSUME RInv, [RrwNext]_rrVars
    PROVE  RInv'
<1>0. /\ RrwTypeOK /\ CallsFit
      /\ \A t \in Threads : call[t] = Idle =>
            \A m \in Locks : t \notin rr_cv[m]
    BY DEF RInv, CallsFit, Idle
<1>1. ASSUME NEW t \in Threads, RrwReadWake(t), UNCHANGED rr_track_all
      PROVE  RInv'
    <2>1. /\ call[t].lock \in Locks /\ call[t].hold \in Holds
          /\ call[t].prio \in Prios
          /\ call[t].hold[1] = t /\ ~Reads(t, call[t].lock)
          /\ \A m \in Locks : t \notin rr_cv[m]
        BY <1>0, <1>1, CallKinds DEF RrwReadWake, CallsFit
    <2>2. call[t].hold \notin held[call[t].lock]
        BY <2>1 DEF Reads
    <2>3. QED
        BY <1>1, <2>1, <2>2, ReadLoopStep DEF RrwReadWake
<1>2. ASSUME NEW t \in Threads, RrwWriteWake(t), UNCHANGED rr_track_all
      PROVE  RInv'
    <2>1. /\ call[t].lock \in Locks
          /\ \A m \in Locks : t \notin rr_cv[m]
        BY <1>0, <1>2, CallKinds DEF RrwWriteWake, CallsFit
    <2>2. QED
        BY <1>2, <2>1, WriteLoopStep DEF RrwWriteWake
<1>3. ASSUME NEW t \in Threads, NEW l \in Locks, RrwEnterWrite(t, l),
             UNCHANGED rr_track_all
      PROVE  RInv'
    BY <1>0, <1>3, WriteLoopStep DEF RrwEnterWrite
<1>4. ASSUME NEW t \in Threads, NEW l \in Locks, NEW h \in Holds,
             NEW prio \in Prios, RrwEnterRead(t, l, h, prio),
             UNCHANGED rr_track_all
      PROVE  RInv'
    BY <1>0, <1>4, ReadLoopStep DEF RrwEnterRead
<1>5. CASE UNCHANGED rrVars
    BY <1>5 DEF rrVars, RInv, RrwTypeOK, Exclusion, NodesHeld, CallsFit,
                TrackInv, Reads
<1>6. QED
    BY <1>1, <1>2, <1>3, <1>4, <1>5, ExitReadStep, ExitWriteStep
       DEF RrwNext, RrwStep, RrwWake

(* The invariant is inductive.                                             *)
THEOREM RrwInvariance == RrwSpec => []RInv
<1>1. RInv /\ [RrwNext]_rrVars => RInv'
    BY RInvStep
<1>2. QED
    BY InitRInv, <1>1, PTL DEF RrwSpec

(* The types hold: neither read count of rrw_exit ever underflows.         *)
THEOREM RrwTypeCorrect == RrwSpec => []RrwTypeOK
BY RrwInvariance, PTL DEF RInv

(* Writer and readers exclude each other and the split of the read holds   *)
(* in anonymous and linked ones is always exact.                           *)
THEOREM ExclusionSafe == RrwSpec => []Exclusion
BY RrwInvariance, PTL DEF RInv

(* A thread that already reads never sleeps in rrw_enter_read.             *)
THEOREM ReentrySafe == RrwSpec => []ReentryNeverWaits
<1>1. RInv => ReentryNeverWaits
    BY DEF RInv, CallsFit, ReentryNeverWaits
<1>2. QED
    BY <1>1, RrwInvariance, PTL

(* rrw_held(RW_READER) answers as the comment on it says.                  *)
THEOREM HeldSafe == RrwSpec => []HeldExact
<1>1. RInv => HeldExact
    <2> SUFFICES ASSUME RInv, NEW l \in Locks, NEW t \in Threads
                 PROVE  /\ Reads(t, l) => RrwHeld(t, l)
                        /\ rr_track_all[l] => (RrwHeld(t, l) => Reads(t, l))
        BY DEF HeldExact
    <2>1. Reads(t, l) => RrwHeld(t, l)
        BY ReaderKnown DEF RrwHeld
    <2>2. RrnFind(t, l) => Reads(t, l)
        BY DEF RInv, NodesHeld, RrnFind, Reads
    <2>3. QED
        BY <2>1, <2>2 DEF RInv, TrackInv, RrwHeld
<1>2. QED
    BY <1>1, RrwInvariance, PTL
-----------------------------------------------------------------------------
(* Sleepers.  rr_writer_wanted is one flag for all writers; it is set only *)
(* while some writer is in rrw_enter_write.                                *)
WantedByWriter ==
    \A l \in Locks : rr_writer_wanted[l] =>
        \E w \in Threads : call[w] = WriteCall(l)

SleepInv == SleepersAnnounced /\ WantedByWriter

(* A reader that goes to sleep finds a writer or one that waits; one that  *)
(* gets in disturbs no sleeper.                                            *)
LEMMA ReadLoopSleep ==
    ASSUME RInv, SleepInv, NEW t \in Threads, NEW l \in Locks,
           NEW h \in Holds, NEW prio \in Prios,
           \A m \in Locks : t \notin rr_cv[m],
           call[t].op # "write", ReadLoop(t, l, h, prio)
    PROVE  SleepInv'
<1>0. RrwTypeOK /\ SleepersAnnounced /\ WantedByWriter
    BY DEF RInv, SleepInv
<1>1. /\ UNCHANGED <<rr_writer, rr_writer_wanted>>
      /\ \A m \in Locks : WriteBlocked(m) => WriteBlocked(m)'
    BY <1>0 DEF ReadLoop, WriteBlocked, RrwTypeOK
<1>2. /\ \A u \in Threads : u # t => call'[u] = call[u]
      /\ call'[t].op # "write"
      /\ \A m \in Locks : \A u \in rr_cv'[m] :
           \/ u \in rr_cv[m] /\ u # t
           \/ u = t /\ m = l /\ ReadBlocked(t, l, prio)
    <2>1. CASE ReadBlocked(t, l, prio)
        BY <1>0, <2>1, CallFields DEF ReadLoop, RrwTypeOK
    <2>2. CASE ~ReadBlocked(t, l, prio)
        BY <1>0, <2>2 DEF ReadLoop, RrwTypeOK, Idle
    <2>3. QED
        BY <2>1, <2>2
<1>3. \A w \in Threads, m \in Locks :
        call[w] = WriteCall(m) => call'[w] = WriteCall(m)
    BY <1>2, CallFields DEF WriteCall
<1>4. WantedByWriter'
    BY <1>0, <1>1, <1>3 DEF WantedByWriter
<1>5. ASSUME NEW m \in Locks, NEW u \in rr_cv'[m]
      PROVE  /\ call'[u].op = "write" => (rr_writer_wanted[m] /\ WriteBlocked(m))'
             /\ call'[u].op = "read" =>
                  \/ rr_writer'[m] # NULL
                  \/ \E w \in Threads : call'[w] = WriteCall(m)
    <2>1. CASE u \in rr_cv[m] /\ u # t
        <3>1. u \in Threads /\ call'[u] = call[u]
            BY <1>0, <1>2, <2>1 DEF RrwTypeOK
        <3>2. QED
            BY <1>0, <1>1, <1>3, <2>1, <3>1 DEF SleepersAnnounced
    <2>2. CASE u = t /\ m = l /\ ReadBlocked(t, l, prio)
        BY <1>0, <1>1, <1>2, <1>3, <2>2 DEF ReadBlocked, WantedByWriter
    <2>3. QED
        BY <1>2, <1>5, <2>1, <2>2
<1>6. SleepersAnnounced'
    BY <1>5 DEF SleepersAnnounced
<1>7. QED
    BY <1>4, <1>6 DEF SleepInv

(* A writer that gets the lock finds no writer asleep whose flag it would  *)
(* take away, since such a one sleeps only while the lock is taken.        *)
LEMMA WriteLoopSleep ==
    ASSUME RInv, SleepInv, NEW t \in Threads, NEW l \in Locks,
           \A m \in Locks : t \notin rr_cv[m],
           call[t].op = "write" => call[t].lock = l,
           WriteLoop(t, l)
    PROVE  SleepInv'
<1>0. /\ RrwTypeOK /\ SleepersAnnounced /\ WantedByWriter
      /\ \A m \in Locks : \A u \in rr_cv[m] : u \in Threads /\ u # t
      /\ t # NULL
    BY RrwAssumption DEF RInv, SleepInv, RrwTypeOK
<1>1. CASE WriteBlocked(l)
    <2>1. /\ rr_writer_wanted' = [rr_writer_wanted EXCEPT ![l] = TRUE]
          /\ rr_cv' = [rr_cv EXCEPT ![l] = @ \cup {t}]
          /\ call' = [call EXCEPT ![t] = WriteCall(l)]
          /\ UNCHANGED <<rr_writer, rr_anon_rcount, rr_linked_rcount>>
        BY <1>1 DEF WriteLoop
    <2>2. /\ \A u \in Threads : u # t => call'[u] = call[u]
          /\ call'[t] = WriteCall(l) /\ call'[t].op = "write"
          /\ \A m \in Locks : WriteBlocked(m)' <=> WriteBlocked(m)
          /\ \A m \in Locks : rr_writer_wanted'[m] =
               IF m = l THEN TRUE ELSE rr_writer_wanted[m]
          /\ \A m \in Locks : rr_cv'[m] =
               IF m = l THEN rr_cv[m] \cup {t} ELSE rr_cv[m]
        BY <1>0, <2>1, CallFields DEF RrwTypeOK, WriteBlocked, WriteCall
    <2>3. \A w \in Threads, m \in Locks :
            call[w] = WriteCall(m) => call'[w] = WriteCall(m)
        BY <2>2 DEF WriteCall
    <2>4. WantedByWriter'
        BY <1>0, <2>2, <2>3 DEF WantedByWriter
    <2>5. ASSUME NEW m \in Locks, NEW u \in rr_cv'[m]
          PROVE  /\ call'[u].op = "write" =>
                      (rr_writer_wanted[m] /\ WriteBlocked(m))'
                 /\ call'[u].op = "read" =>
                      \/ rr_writer'[m] # NULL
                      \/ \E w \in Threads : call'[w] = WriteCall(m)
        <3>1. CASE u \in rr_cv[m]
            <4>1. u \in Threads /\ call'[u] = call[u]
                BY <1>0, <2>2, <3>1
            <4>2. QED
                BY <1>0, <2>1, <2>2, <2>3, <3>1, <4>1 DEF SleepersAnnounced
        <3>2. CASE u \notin rr_cv[m]
            <4>1. u = t /\ m = l
                BY <2>2, <2>5, <3>2
            <4>2. QED
                BY <1>1, <2>2, <4>1
        <3>3. QED
            BY <3>1, <3>2
    <2>6. SleepersAnnounced'
        BY <2>5 DEF SleepersAnnounced
    <2>7. QED
        BY <2>4, <2>6 DEF SleepInv
<1>2. CASE ~WriteBlocked(l)
    <2>1. /\ rr_writer_wanted' = [rr_writer_wanted EXCEPT ![l] = FALSE]
          /\ rr_writer' = [rr_writer EXCEPT ![l] = t]
          /\ call' = [call EXCEPT ![t] = Idle]
          /\ UNCHANGED <<rr_cv, rr_anon_rcount, rr_linked_rcount>>
        BY <1>2 DEF WriteLoop
    <2>2. /\ \A u \in Threads : u # t => call'[u] = call[u]
          /\ \A m \in Locks : WriteBlocked(m) => WriteBlocked(m)'
          /\ \A m \in Locks : rr_writer_wanted'[m] =
               IF m = l THEN FALSE ELSE rr_writer_wanted[m]
          /\ \A m \in Locks : rr_writer'[m] = IF m = l THEN t ELSE rr_writer[m]
        BY <1>0, <2>1 DEF RrwTypeOK, WriteBlocked
    <2>3. \A w \in Threads, m \in Locks :
            m # l /\ call[w] = WriteCall(m) => call'[w] = WriteCall(m)
        BY <2>2 DEF WriteCall
    <2>4. WantedByWriter'
        BY <1>0, <2>2, <2>3 DEF WantedByWriter
    <2>5. SleepersAnnounced'
        BY <1>0, <1>2, <2>1, <2>2, <2>3 DEF SleepersAnnounced
    <2>6. QED
        BY <2>4, <2>5 DEF SleepInv
<1>3. QED
    BY <1>1, <1>2

(* A reader that leaves the lock free wakes everybody.                     *)
LEMMA ExitReadSleep ==
    ASSUME RInv, SleepInv, NEW t \in Threads, NEW l \in Locks,
           NEW h \in Holds, RrwExitRead(t, l, h), UNCHANGED rr_track_all
    PROVE  SleepInv'
<1>0. RrwTypeOK /\ RrwTypeOK' /\ SleepersAnnounced /\ WantedByWriter
    BY ExitReadStep DEF RInv, SleepInv
<1>1. /\ UNCHANGED <<rr_writer, rr_writer_wanted, call>>
      /\ \A m \in Locks : rr_cv'[m] \subseteq rr_cv[m]
      /\ \A m \in Locks : m # l => (WriteBlocked(m)' <=> WriteBlocked(m))
    BY <1>0 DEF RrwExitRead, RrwTypeOK, WriteBlocked
<1>2. ~WriteBlocked(l)' => rr_cv'[l] = {}
    BY <1>0 DEF RrwExitRead, RrwTypeOK, WriteBlocked, ExitWakes
<1>3. QED
    BY <1>0, <1>1, <1>2 DEF SleepInv, SleepersAnnounced, WantedByWriter

(* So does the writer.                                                     *)
LEMMA ExitWriteSleep ==
    ASSUME RInv, SleepInv, NEW t \in Threads, NEW l \in Locks,
           RrwExitWrite(t, l)
    PROVE  SleepInv'
<1>0. RrwTypeOK /\ SleepersAnnounced /\ WantedByWriter
    BY DEF RInv, SleepInv
<1>1. /\ UNCHANGED <<rr_writer_wanted, rr_anon_rcount, rr_linked_rcount, call>>
      /\ \A m \in Locks : rr_cv'[m] = IF m = l THEN {} ELSE rr_cv[m]
      /\ \A m \in Locks : m # l => rr_writer'[m] = rr_writer[m]
    BY <1>0 DEF RrwExitWrite, RrwTypeOK
<1>2. \A m \in Locks : m # l => (WriteBlocked(m)' <=> WriteBlocked(m))
    BY <1>1 DEF WriteBlocked
<1>3. QED
    BY <1>0, <1>1, <1>2 DEF SleepInv, SleepersAnnounced, WantedByWriter

(* Nobody sleeps in rrw_enter_read or rrw_enter_write without somebody     *)
(* there who will wake him.                                                *)
THEOREM SleepersSafe == RrwSpec => []SleepersAnnounced
<1>1. RrwInit => SleepInv
    BY DEF RrwInit, SleepInv, SleepersAnnounced, WantedByWriter
<1>2. RInv /\ SleepInv /\ [RrwNext]_rrVars => SleepInv'
    <2> SUFFICES ASSUME RInv, SleepInv, [RrwNext]_rrVars PROVE SleepInv'
        OBVIOUS
    <2>0. /\ RrwTypeOK /\ CallsFit
          /\ \A t \in Threads : call[t] = Idle =>
                call[t].op = "none" /\ \A m \in Locks : t \notin rr_cv[m]
        BY DEF RInv, CallsFit, Idle
    <2>1. ASSUME NEW t \in Threads, RrwReadWake(t) PROVE SleepInv'
        BY <2>0, <2>1, CallKinds, ReadLoopSleep DEF RrwReadWake, CallsFit
    <2>2. ASSUME NEW t \in Threads, RrwWriteWake(t) PROVE SleepInv'
        BY <2>0, <2>2, CallKinds, WriteLoopSleep DEF RrwWriteWake, CallsFit
    <2>3. ASSUME NEW t \in Threads, NEW l \in Locks, RrwEnterWrite(t, l)
          PROVE  SleepInv'
        BY <2>0, <2>3, WriteLoopSleep DEF RrwEnterWrite
    <2>4. ASSUME NEW t \in Threads, NEW l \in Locks, NEW h \in Holds,
                 NEW prio \in Prios, RrwEnterRead(t, l, h, prio)
          PROVE  SleepInv'
        BY <2>0, <2>4, ReadLoopSleep DEF RrwEnterRead
    <2>5. CASE UNCHANGED rrVars
        BY <2>5 DEF rrVars, SleepInv, SleepersAnnounced, WantedByWriter,
                    WriteBlocked
    <2>6. QED
        BY <2>1, <2>2, <2>3, <2>4, <2>5, ExitReadSleep, ExitWriteSleep
           DEF RrwNext, RrwStep, RrwWake
<1>3. SleepInv => SleepersAnnounced
    BY DEF SleepInv
<1>4. QED
    BY <1>1, <1>2, <1>3, RrwInvariance, PTL DEF RrwSpec
=============================================================================
