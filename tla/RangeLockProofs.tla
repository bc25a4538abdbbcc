-------------------------- MODULE RangeLockProofs --------------------------
(***************************************************************************)
(* Proofs about RangeLock for any threads, requests and file.  The         *)
(* argument is about the tree T as a picture of who holds what: Exact says *)
(* it for a set H of holders, the range R[t] of each and the set W of      *)
(* those that write.  Every step changes T and H together so that it stays *)
(* true; for a new reader that is what the splits, counts and gap proxies  *)
(* of rangelock_add_reader are for.                                        *)
(***************************************************************************)
EXTENDS RangeLock, FiniteSetTheorems, WellFoundedInduction, TLAPS

Ranges == [off : Nat, len : Nat]

Nodes == [off : Nat, len : Nat, type : {"reader", "writer"}, count : Nat,
          owner : Threads \cup {NULL},
          lr_write_wanted : BOOLEAN, lr_read_wanted : BOOLEAN,
          lr_write_cv : SUBSET Threads, lr_read_cv : SUBSET Threads]

Holders(n, H, R) == {u \in H : Overlaps(n, R[u])}

(* The holders have ranges that end by the last offset.                    *)
HeldFit(H, R) ==
    \A t \in H : R[t] \in Ranges /\ R[t].len > 0 /\ End(R[t]) <= UINT64_MAX

(* The nodes are disjoint, and none is empty or ends past the last offset. *)
Apart(T) ==
    /\ T \subseteq Nodes
    /\ \A n \in T : n.len > 0 /\ End(n) <= UINT64_MAX
    /\ \A m, n \in T : m # n => ~Overlaps(m, n)

(* Every held range is made up of whole nodes that count its holder.       *)
Counts(T, H, R) ==
    /\ \A n \in T : n.count = Cardinality(Holders(n, H, R))
    /\ \A t \in H : \A n \in T :
         Overlaps(n, R[t]) => R[t].off <= n.off /\ End(n) <= End(R[t])
    /\ \A t \in H : \A b \in R[t].off .. End(R[t]) - 1 :
         \E n \in T : n.off <= b /\ b < End(n)

(* A node with an owner is the whole range of that thread and nobody       *)
(* else's; it is a writer's exactly when its owner writes, and everyone    *)
(* that writes has one.                                                    *)
Owned(T, H, R, W) ==
    /\ \A n \in T : n.owner # NULL =>
         /\ Holders(n, H, R) = {n.owner}
         /\ n.off = R[n.owner].off /\ n.len = R[n.owner].len
    /\ \A n \in T : n.type = "writer" <=> n.owner # NULL /\ n.owner \in W
    /\ \A t \in H \cap W : \E n \in T : n.owner = t

Exact(T, H, R, W) ==
    /\ H \subseteq Threads /\ IsFiniteSet(H)
    /\ HeldFit(H, R) /\ Apart(T) /\ Counts(T, H, R) /\ Owned(T, H, R, W)

-----------------------------------------------------------------------------
(* Any set of naturals that is not empty has a least member.               *)
LEMMA LeastNat ==
    ASSUME NEW S, S \subseteq Nat, S # {}
    PROVE  \E x \in S : \A y \in S : x <= y
<1>1. PICK x \in S : \A y \in S : ~(<<y, x>> \in OpToRel(<, Nat))
    BY NatLessThanWellFounded, WFMin
<1>2. \A y \in S : ~(y < x)
    BY <1>1 DEF OpToRel
<1>3. QED
    BY <1>2

(* The search for the first node finds one if there is any.                *)
LEMMA FirstExists ==
    ASSUME NEW S, S \subseteq Nodes, First(S) = {}
    PROVE  S = {}
<1>1. SUFFICES ASSUME S # {} PROVE FALSE
    OBVIOUS
<1>2. {n.off : n \in S} \subseteq Nat /\ {n.off : n \in S} # {}
    BY <1>1 DEF Nodes
<1>3. PICK x \in {n.off : n \in S} : \A y \in {n.off : n \in S} : x <= y
    BY <1>2, LeastNat
<1>4. PICK n \in S : n.off = x
    OBVIOUS
<1>5. \A m \in S : n.off <= m.off
    BY <1>3, <1>4
<1>6. QED
    BY <1>5 DEF First

(* Ranges that share a byte overlap, and overlapping ones share one.       *)
LEMMA ShareByte ==
    ASSUME NEW r, NEW s, r.off \in Nat, r.len \in Nat, s.off \in Nat,
           s.len \in Nat
    PROVE  /\ \A b \in Nat : r.off <= b /\ b < End(r) /\ s.off <= b /\ b < End(s)
                => Overlaps(r, s)
           /\ Overlaps(r, s) /\ r.len > 0 /\ s.len > 0 =>
                \E b \in Nat : r.off <= b /\ b < End(r) /\ s.off <= b /\ b < End(s)
<1>1. \A b \in Nat : r.off <= b /\ b < End(r) /\ s.off <= b /\ b < End(s)
        => Overlaps(r, s)
    BY DEF Overlaps, End
<1>2. ASSUME Overlaps(r, s), r.len > 0, s.len > 0, r.off <= s.off
      PROVE  r.off <= s.off /\ s.off < End(r) /\ s.off <= s.off /\ s.off < End(s)
    BY <1>2 DEF Overlaps, End
<1>3. ASSUME Overlaps(r, s), r.len > 0, s.len > 0, s.off <= r.off
      PROVE  r.off <= r.off /\ r.off < End(r) /\ s.off <= r.off /\ r.off < End(s)
    BY <1>3 DEF Overlaps, End
<1>4. QED
    BY <1>1, <1>2, <1>3

(* A holder whose range overlaps some range has a node that overlaps it.   *)
LEMMA HolderSeen ==
    ASSUME NEW T, NEW H, NEW R, NEW W, Exact(T, H, R, W),
           NEW u \in H, NEW r, r.off \in Nat, r.len \in Nat \ {0},
           Overlaps(r, R[u])
    PROVE  \E n \in T : Overlaps(n, r) /\ Overlaps(n, R[u])
<1>1. R[u].off \in Nat /\ R[u].len \in Nat \ {0}
    BY DEF Exact, HeldFit, Ranges
<1>2. PICK b \in Nat : /\ r.off <= b /\ b < End(r)
                       /\ R[u].off <= b /\ b < End(R[u])
    BY <1>1, ShareByte
<1>3. b \in R[u].off .. End(R[u]) - 1
    BY <1>1, <1>2 DEF End
<1>4. PICK n \in T : n.off <= b /\ b < End(n)
    BY <1>3 DEF Exact, Counts
<1>5. n.off \in Nat /\ n.len \in Nat
    BY DEF Exact, Apart, Nodes
<1>6. QED
    BY <1>1, <1>2, <1>4, <1>5, ShareByte

(* Only the ranges and kinds of the holders matter.                        *)
LEMMA Agree ==
    ASSUME NEW T, NEW H, NEW R, NEW W, NEW R2, NEW W2, Exact(T, H, R, W),
           \A u \in H : R2[u] = R[u] /\ (u \in W2 <=> u \in W)
    PROVE  Exact(T, H, R2, W2)
<1>1. \A n : Holders(n, H, R2) = Holders(n, H, R)
    BY DEF Holders
<1>2. HeldFit(H, R2)
    BY DEF Exact, HeldFit
<1>3. Counts(T, H, R2)
    BY <1>1 DEF Exact, Counts
<1>4. \A n \in T : n.owner # NULL => n.owner \in H
    BY DEF Exact, Owned, Holders
<1>5. Owned(T, H, R2, W2)
    BY <1>1, <1>4 DEF Exact, Owned
<1>6. QED
    BY <1>2, <1>3, <1>5 DEF Exact

-----------------------------------------------------------------------------
(* Nodes that differ only in who sleeps on them.                           *)
SameNode(m, n) ==
    /\ m.off = n.off /\ m.len = n.len /\ m.type = n.type
    /\ m.count = n.count /\ m.owner = n.owner

(* Flags and sleepers of a node do not matter.                             *)
LEMMA Relabel ==
    ASSUME NEW T, NEW H, NEW R, NEW W, Exact(T, H, R, W),
           NEW n \in T, NEW n2 \in Nodes, SameNode(n2, n)
    PROVE  Exact((T \ {n}) \cup {n2}, H, R, W)
<1> DEFINE T2 == (T \ {n}) \cup {n2}
<1>0. \A k : SameNode(k, k)
    BY DEF SameNode
<1>1. \A m \in T2 :
        \E k \in T : SameNode(m, k) /\ (m = k \/ (m = n2 /\ k = n))
    BY <1>0
<1>2. \A k \in T : \E m \in T2 : SameNode(m, k)
    BY <1>0
<1>3. \A m, k : SameNode(m, k) => Holders(m, H, R) = Holders(k, H, R)
    BY DEF SameNode, Holders, Overlaps, End
<1>4. \A m, k, r : SameNode(m, k) =>
        End(m) = End(k) /\ (Overlaps(m, r) <=> Overlaps(k, r))
        /\ (Overlaps(r, m) <=> Overlaps(r, k))
    BY Zenon DEF SameNode, Overlaps, End
<1> HIDE DEF T2
<1>5. Apart(T2)
    <2>1. T2 \subseteq Nodes
        BY DEF T2, Exact, Apart
    <2>2. \A m \in T2 : m.len > 0 /\ End(m) <= UINT64_MAX
        BY <1>1, <1>4 DEF Exact, Apart, SameNode
    <2>3. ASSUME NEW m1 \in T2, NEW m2 \in T2, m1 # m2
          PROVE  ~Overlaps(m1, m2)
        <3>1. PICK k1 \in T : SameNode(m1, k1) /\ (m1 = k1 \/ (m1 = n2 /\ k1 = n))
            BY <1>1
        <3>2. PICK k2 \in T : SameNode(m2, k2) /\ (m2 = k2 \/ (m2 = n2 /\ k2 = n))
            BY <1>1
        <3>3. CASE k1 # k2
            <4>1. ~Overlaps(k1, k2)
                BY <3>3 DEF Exact, Apart
            <4>2. QED
                BY <4>1, <3>1, <3>2, <1>4
        <3>4. CASE k1 = k2
            <4>1. k1 = n /\ (m1 = n \/ m2 = n)
                BY <3>1, <3>2, <3>4, <2>3
            <4>2. n \in T2
                BY <4>1
            <4>3. n = n2
                BY <4>2 DEF T2
            <4>4. QED
                BY <4>1, <4>3, <3>1, <3>2, <2>3, <3>4
        <3>5. QED
            BY <3>3, <3>4
    <2>4. QED
        BY <2>1, <2>2, <2>3 DEF Apart
<1>6. Counts(T2, H, R)
    <2>1. \A m \in T2 : m.count = Cardinality(Holders(m, H, R))
        BY <1>1, <1>3 DEF Exact, Counts, SameNode
    <2>2. \A t \in H : \A m \in T2 :
            Overlaps(m, R[t]) => R[t].off <= m.off /\ End(m) <= End(R[t])
        BY <1>1, <1>4 DEF Exact, Counts, SameNode
    <2>3. \A t \in H : \A b \in R[t].off .. End(R[t]) - 1 :
            \E m \in T2 : m.off <= b /\ b < End(m)
        BY <1>2, <1>4 DEF Exact, Counts, SameNode
    <2>4. QED
        BY <2>1, <2>2, <2>3 DEF Counts
<1>7. Owned(T2, H, R, W)
    BY <1>1, <1>2, <1>3 DEF Exact, Owned, SameNode
<1>8. QED
    BY <1>5, <1>6, <1>7 DEF Exact, T2

(* A new holder that no holder overlaps, with a node of its own.           *)
LEMMA AddOwn ==
    ASSUME NEW T, NEW H, NEW R, NEW W, Exact(T, H, R, W),
           NEW t \in Threads, t \notin H, R[t] \in Ranges,
           R[t].len > 0, End(R[t]) <= UINT64_MAX,
           NEW n \in Nodes, n.off = R[t].off, n.len = R[t].len, n.count = 1,
           n.owner = t, n.type = "writer" <=> t \in W,
           \A m \in T : ~Overlaps(m, n)
    PROVE  Exact(T \cup {n}, H \cup {t}, R, W)
<1>1. n.off \in Nat /\ n.len \in Nat \ {0} /\ t # NULL
    BY RangeAssumption DEF Nodes, Ranges
<1>2. \A u \in H : ~Overlaps(n, R[u])
    BY <1>1, HolderSeen
<1>3. /\ \A r : Overlaps(r, R[t]) <=> Overlaps(r, n)
      /\ \A r : Overlaps(r, n) <=> Overlaps(n, r)
      /\ End(n) = End(R[t])
    BY DEF Overlaps, End
<1>4. Overlaps(n, n)
    BY <1>1 DEF Overlaps, End
<1>5. Holders(n, H \cup {t}, R) = {t}
    BY <1>2, <1>3, <1>4 DEF Holders
<1>6. \A m \in T : Holders(m, H \cup {t}, R) = Holders(m, H, R)
    BY <1>3 DEF Holders
<1>7. HeldFit(H \cup {t}, R)
    BY DEF Exact, HeldFit
<1>8. Apart(T \cup {n})
    BY <1>1, <1>3 DEF Exact, Apart
<1>9. Counts(T \cup {n}, H \cup {t}, R)
    <2>1. \A m \in T \cup {n} : m.count = Cardinality(Holders(m, H \cup {t}, R))
        BY <1>5, <1>6, FS_Singleton DEF Exact, Counts
    <2>2. \A u \in H \cup {t} : \A m \in T \cup {n} :
            Overlaps(m, R[u]) => R[u].off <= m.off /\ End(m) <= End(R[u])
        BY <1>1, <1>2, <1>3 DEF Exact, Counts, End
    <2>3. \A u \in H \cup {t} : \A b \in R[u].off .. End(R[u]) - 1 :
            \E m \in T \cup {n} : m.off <= b /\ b < End(m)
        <3>1. \A u \in H : \A b \in R[u].off .. End(R[u]) - 1 :
                \E m \in T \cup {n} : m.off <= b /\ b < End(m)
            BY DEF Exact, Counts
        <3>2. \A b \in R[t].off .. End(R[t]) - 1 : n.off <= b /\ b < End(n)
            BY <1>1 DEF End
        <3>3. QED
            BY <3>1, <3>2
    <2>4. QED
        BY <2>1, <2>2, <2>3 DEF Counts
<1>10. Owned(T \cup {n}, H \cup {t}, R, W)
    BY <1>1, <1>5, <1>6 DEF Exact, Owned
<1>11. IsFiniteSet(H \cup {t})
    BY FS_AddElement DEF Exact
<1>12. QED
    BY <1>7, <1>8, <1>9, <1>10, <1>11 DEF Exact

(* A node with an owner leaves the tree together with its owner.           *)
LEMMA DropOwn ==
    ASSUME NEW T, NEW H, NEW R, NEW W, Exact(T, H, R, W),
           NEW n \in T, n.owner # NULL
    PROVE  Exact(T \ {n}, H \ {n.owner}, R, W)
<1> DEFINE t == n.owner
<1>1. /\ t \in H /\ Holders(n, H, R) = {t}
      /\ n.off = R[t].off /\ n.len = R[t].len
    BY DEF Exact, Owned, Holders
<1>2. \A m \in T \ {n} : ~Overlaps(m, R[t])
    BY <1>1 DEF Exact, Apart, Overlaps, End
<1>3. \A m \in T \ {n} : Holders(m, H \ {t}, R) = Holders(m, H, R)
    BY <1>2 DEF Holders
<1>4. \A u \in H \ {t} : ~Overlaps(n, R[u])
    BY <1>1 DEF Holders
<1>5. Counts(T \ {n}, H \ {t}, R)
    <2>1. ASSUME NEW u \in H \ {t}, NEW b \in R[u].off .. End(R[u]) - 1
          PROVE  \E m \in T \ {n} : m.off <= b /\ b < End(m)
        <3>1. PICK m \in T : m.off <= b /\ b < End(m)
            BY <2>1 DEF Exact, Counts
        <3>2. /\ m.off \in Nat /\ m.len \in Nat
              /\ R[u].off \in Nat /\ R[u].len \in Nat
            BY DEF Exact, Apart, Nodes, HeldFit, Ranges
        <3>3. b \in Nat /\ R[u].off <= b /\ b < End(R[u])
            BY <3>2 DEF End
        <3>4. Overlaps(m, R[u])
            BY <3>1, <3>2, <3>3, ShareByte
        <3>5. QED
            BY <3>1, <3>4, <1>4
    <2>2. QED
        BY <2>1, <1>3 DEF Exact, Counts
<1>6. Owned(T \ {n}, H \ {t}, R, W)
    BY <1>3 DEF Exact, Owned
<1>7. IsFiniteSet(H \ {t})
    BY FS_RemoveElement DEF Exact
<1>8. QED
    BY <1>5, <1>6, <1>7 DEF Exact, HeldFit, Apart

(* What rangelock_exit_reader leaves of the tree: the nodes of t count one *)
(* holder less, and the ones that only t held are gone.                    *)
Without(T, S) ==
    (T \ S) \cup {[n EXCEPT !.count = @ - 1] : n \in {m \in S : m.count # 1}}

LEMMA DropReader ==
    ASSUME NEW T, NEW H, NEW R, NEW W, Exact(T, H, R, W), NEW t \in H, t \notin W
    PROVE  Exact(Without(T, {n \in T : Overlaps(n, R[t])}), H \ {t}, R, W)
<1> DEFINE S == {n \in T : Overlaps(n, R[t])}
           T2 == Without(T, S)
<1>1. \A n \in T : /\ n \in Nodes /\ n.off \in Nat /\ n.len \in Nat \ {0}
                   /\ n.count \in Nat
    BY DEF Exact, Apart, Nodes
<1> HIDE DEF T2, S
<1>0. S \subseteq T /\ \A n \in T : n \in S <=> Overlaps(n, R[t])
    BY DEF S
<1>2. ASSUME NEW n \in S
      PROVE  /\ IsFiniteSet(Holders(n, H, R)) /\ t \in Holders(n, H, R)
             /\ Holders(n, H \ {t}, R) = Holders(n, H, R) \ {t}
             /\ Cardinality(Holders(n, H \ {t}, R)) = n.count - 1
    <2>1. IsFiniteSet(Holders(n, H, R))
        BY FS_Subset DEF Holders, Exact
    <2>2. t \in Holders(n, H, R) /\ Holders(n, H \ {t}, R) = Holders(n, H, R) \ {t}
        BY <1>0 DEF Holders
    <2>3. n.count = Cardinality(Holders(n, H, R))
        BY <1>0 DEF Exact, Counts
    <2>4. QED
        BY <2>1, <2>2, <2>3, FS_RemoveElement
<1>3. \A n \in T \ S : Holders(n, H \ {t}, R) = Holders(n, H, R)
    BY <1>0 DEF Holders
<1>4. ASSUME NEW n \in S, n.count # 1
      PROVE  /\ n.count - 1 \in Nat /\ n.owner = NULL /\ n.type = "reader"
             /\ [n EXCEPT !.count = @ - 1] \in Nodes
    <2>1. n.owner = NULL
        <3>1. n.owner # NULL => Holders(n, H, R) = {n.owner}
            BY <1>0 DEF Exact, Owned
        <3>2. n.count = Cardinality(Holders(n, H, R))
            BY <1>0 DEF Exact, Counts
        <3>3. Cardinality({n.owner}) = 1
            BY FS_Singleton
        <3>4. QED
            BY <3>1, <3>2, <3>3, <1>4
    <2>2. n.type = "reader"
        BY <2>1, <1>1, <1>0 DEF Exact, Owned, Nodes
    <2>3. n.count - 1 \in Nat
        BY <1>2, FS_CardinalityType, FS_RemoveElement
    <2>4. QED
        BY <2>1, <2>2, <2>3, <1>1, <1>0 DEF Nodes
<1>5. ASSUME NEW m \in T2
      PROVE  \/ m \in T \ S
             \/ \E n \in S : n.count # 1 /\ m = [n EXCEPT !.count = @ - 1]
    BY DEF Without, T2
<1>6. ASSUME NEW n \in S
      PROVE  /\ [n EXCEPT !.count = @ - 1].off = n.off
             /\ [n EXCEPT !.count = @ - 1].len = n.len
             /\ [n EXCEPT !.count = @ - 1].type = n.type
             /\ [n EXCEPT !.count = @ - 1].owner = n.owner
             /\ [n EXCEPT !.count = @ - 1].count = n.count - 1
    BY <1>1, <1>0 DEF Nodes
<1>7. \A n \in S : n.count = 1 => \A u \in H \ {t} : ~Overlaps(n, R[u])
    <2> SUFFICES ASSUME NEW n \in S, n.count = 1, NEW u \in H \ {t},
                        Overlaps(n, R[u])
                 PROVE  FALSE
        OBVIOUS
    <2>1. /\ Cardinality(Holders(n, H \ {t}, R)) = 0
          /\ IsFiniteSet(Holders(n, H \ {t}, R))
        <3>1. /\ Cardinality(Holders(n, H \ {t}, R)) = n.count - 1
              /\ Holders(n, H \ {t}, R) = Holders(n, H, R) \ {t}
              /\ IsFiniteSet(Holders(n, H, R))
            BY <1>2
        <3>2. IsFiniteSet(Holders(n, H, R) \ {t})
            BY <3>1, FS_RemoveElement
        <3>3. QED
            BY <3>1, <3>2
    <2>2. Holders(n, H \ {t}, R) = {}
        BY <2>1, FS_EmptySet
    <2>3. QED
        BY <2>2 DEF Holders
<1>9. \A m \in T2 : \E n \in T : m.off = n.off /\ m.len = n.len
                                 /\ (m = n \/ m = [n EXCEPT !.count = @ - 1])
    <2> SUFFICES ASSUME NEW m \in T2
                 PROVE  \E n \in T : /\ m.off = n.off /\ m.len = n.len
                                     /\ m = n \/ m = [n EXCEPT !.count = @ - 1]
        OBVIOUS
    <2>1. CASE m \in T \ S
        BY <2>1
    <2>2. ASSUME NEW n \in S, m = [n EXCEPT !.count = @ - 1]
          PROVE  m.off = n.off /\ m.len = n.len /\ n \in T
        BY <2>2, <1>6, <1>0
    <2>3. QED
        BY <2>1, <2>2, <1>5
<1>10. Apart(T2)
    <2>1. T2 \subseteq Nodes
        BY <1>5, <1>4, <1>1, <1>0
    <2>2. \A m \in T2 : m.len > 0 /\ End(m) <= UINT64_MAX
        BY <1>9 DEF Exact, Apart, End
    <2>3. ASSUME NEW m1 \in T2, NEW m2 \in T2, m1 # m2
          PROVE  ~Overlaps(m1, m2)
        <3>1. PICK n1 \in T : /\ m1.off = n1.off /\ m1.len = n1.len
                              /\ IF n1 \in S THEN m1 = [n1 EXCEPT !.count = @ - 1]
                                             ELSE m1 = n1
            BY <1>5, <1>6, <1>0
        <3>2. PICK n2 \in T : /\ m2.off = n2.off /\ m2.len = n2.len
                              /\ IF n2 \in S THEN m2 = [n2 EXCEPT !.count = @ - 1]
                                             ELSE m2 = n2
            BY <1>5, <1>6, <1>0
        <3>3. n1 # n2
            BY <3>1, <3>2, <2>3
        <3>4. ~Overlaps(n1, n2)
            BY <3>3 DEF Exact, Apart
        <3>5. QED
            BY <3>1, <3>2, <3>4 DEF Overlaps, End
    <2>4. QED
        BY <2>1, <2>2, <2>3 DEF Apart
<1>11. Counts(T2, H \ {t}, R)
    <2>1. ASSUME NEW m \in T2
          PROVE  m.count = Cardinality(Holders(m, H \ {t}, R))
        <3>1. CASE m \in T \ S
            BY <3>1, <1>3 DEF Exact, Counts
        <3>2. ASSUME NEW n \in S, n.count # 1, m = [n EXCEPT !.count = @ - 1]
              PROVE  m.count = Cardinality(Holders(m, H \ {t}, R))
            <4>1. Holders(m, H \ {t}, R) = Holders(n, H \ {t}, R)
                BY <3>2, <1>6 DEF Holders, Overlaps, End
            <4>2. QED
                BY <4>1, <3>2, <1>6, <1>2
        <3>3. QED
            BY <3>1, <3>2, <1>5
    <2>2. \A u \in H \ {t} : \A m \in T2 :
            Overlaps(m, R[u]) => R[u].off <= m.off /\ End(m) <= End(R[u])
        BY <1>9 DEF Exact, Counts, Overlaps, End
    <2>3. ASSUME NEW u \in H \ {t}, NEW b \in R[u].off .. End(R[u]) - 1
          PROVE  \E m \in T2 : m.off <= b /\ b < End(m)
        <3>1. PICK n \in T : n.off <= b /\ b < End(n)
            BY <2>3 DEF Exact, Counts
        <3>2. CASE n \notin S
            BY <3>1, <3>2 DEF T2, Without
        <3>3. CASE n \in S /\ n.count # 1
            <4>1. [n EXCEPT !.count = @ - 1] \in T2
                BY <3>3 DEF T2, Without
            <4>2. QED
                BY <4>1, <3>1, <3>3, <1>6 DEF End
        <3>4. CASE n \in S /\ n.count = 1
            <4>1. R[u].off \in Nat /\ R[u].len \in Nat
                BY DEF Exact, HeldFit, Ranges
            <4>2. b \in Nat /\ R[u].off <= b /\ b < End(R[u])
                BY <4>1 DEF End
            <4>3. Overlaps(n, R[u])
                BY <1>1, <3>1, <4>1, <4>2, ShareByte
            <4>4. QED
                BY <4>3, <3>4, <1>7
        <3>5. QED
            BY <3>2, <3>3, <3>4
    <2>4. QED
        BY <2>1, <2>2, <2>3 DEF Counts
<1>12. Owned(T2, H \ {t}, R, W)
    <2>1. \A m \in T2 : m.owner # NULL => m \in T \ S
        BY <1>4, <1>5, <1>6
    <2>2. \A m \in T2 : m.owner # NULL =>
            /\ Holders(m, H \ {t}, R) = {m.owner}
            /\ m.off = R[m.owner].off /\ m.len = R[m.owner].len
        BY <2>1, <1>3 DEF Exact, Owned
    <2>3. \A m \in T2 : m.type = "writer" <=> (m.owner # NULL /\ m.owner \in W)
        <3>1. ASSUME NEW m \in T2, m \notin T \ S
              PROVE  m.type = "reader" /\ m.owner = NULL
            BY <3>1, <1>4, <1>5, <1>6
        <3>2. QED
            BY <3>1 DEF Exact, Owned
    <2>4. ASSUME NEW u \in (H \ {t}) \cap W
          PROVE  \E m \in T2 : m.owner = u
        <3>1. PICK n \in T : n.owner = u
            BY DEF Exact, Owned
        <3>2. u # NULL
            BY RangeAssumption DEF Exact
        <3>3. n \notin S
            BY <3>1, <3>2, <1>2, <1>0 DEF Exact, Owned
        <3>4. QED
            BY <3>1, <3>3 DEF T2, Without
    <2>5. QED
        BY <2>2, <2>3, <2>4 DEF Owned
<1>13. IsFiniteSet(H \ {t})
    BY FS_RemoveElement DEF Exact
<1>14. HeldFit(H \ {t}, R) /\ H \ {t} \subseteq Threads
    BY DEF Exact, HeldFit
<1>15. QED
    BY <1>10, <1>11, <1>12, <1>13, <1>14 DEF Exact, T2, S

(* Two holders of overlapping ranges are both readers.                     *)
LEMMA WriterAlone ==
    ASSUME NEW T, NEW H, NEW R, NEW W, Exact(T, H, R, W),
           NEW t \in H, NEW u \in H, t # u, t \in W
    PROVE  ~Overlaps(R[t], R[u])
<1>1. PICK n \in T : n.owner = t
    BY DEF Exact, Owned
<1>2. t # NULL
    BY RangeAssumption DEF Exact
<1>3. Holders(n, H, R) = {t} /\ n.off = R[t].off /\ n.len = R[t].len
    BY <1>1, <1>2 DEF Exact, Owned
<1>4. ~Overlaps(n, R[u])
    BY <1>3 DEF Holders
<1>5. QED
    BY <1>3, <1>4 DEF Overlaps, End

(* A range of the greatest length overlaps every other.                    *)
LEMMA WholeOverlaps ==
    ASSUME NEW H, NEW R, HeldFit(H, R), NEW t \in H, NEW u \in H,
           R[t].len = UINT64_MAX
    PROVE  Overlaps(R[t], R[u]) /\ Overlaps(R[u], R[t]) /\ R[t].off = 0
<1>1. UINT64_MAX \in Nat
    BY RangeAssumption
<1>2. /\ R[t].off \in Nat /\ R[t].len \in Nat /\ R[u].off \in Nat
      /\ R[u].len \in Nat /\ R[u].len > 0 /\ R[t].len > 0
      /\ R[t].off + R[t].len <= UINT64_MAX /\ R[u].off + R[u].len <= UINT64_MAX
    BY DEF HeldFit, Ranges, End
<1>3. QED
    BY <1>1, <1>2 DEF Overlaps, End

(* A writer that has the whole file is alone in the tree.                  *)
LEMMA WholeAlone ==
    ASSUME NEW T, NEW H, NEW R, NEW W, Exact(T, H, R, W),
           NEW t \in H, t \in W, R[t].len = UINT64_MAX
    PROVE  H = {t} /\ \E n \in T : n.owner = t /\ T = {n}
<1>1. \A u \in H : Overlaps(R[t], R[u])
    BY WholeOverlaps DEF Exact
<1>2. H = {t}
    BY <1>1, WriterAlone
<1>3. PICK n \in T : n.owner = t
    BY DEF Exact, Owned
<1>4. t # NULL
    BY RangeAssumption DEF Exact
<1>5. n.off = R[t].off /\ n.len = R[t].len /\ R[t].off = 0
    BY <1>3, <1>4, WholeOverlaps DEF Exact, Owned
<1>6. ASSUME NEW m \in T PROVE m = n
    <2>1. m.off \in Nat /\ m.len \in Nat \ {0} /\ m.off + m.len <= UINT64_MAX
        BY DEF Exact, Apart, Nodes, End
    <2>2. UINT64_MAX \in Nat
        BY RangeAssumption
    <2>3. Overlaps(m, n)
        BY <1>5, <2>1, <2>2 DEF Overlaps, End
    <2>4. QED
        BY <2>3 DEF Exact, Apart
<1>7. QED
    BY <1>2, <1>3, <1>6

(* The empty tree fits when nobody holds anything.                         *)
LEMMA EmptyExact ==
    ASSUME NEW R, NEW W
    PROVE  Exact({}, {}, R, W)
BY FS_EmptySet DEF Exact, HeldFit, Apart, Counts, Owned

-----------------------------------------------------------------------------
(* A reader's node that is cut in two.                                     *)
LEMMA SplitParts ==
    ASSUME NEW n \in Nodes, n.type = "reader", n.owner # NULL => n.count = 1,
           NEW off \in Nat, n.off < off, off < End(n)
    PROVE  /\ \A m \in Split(n, off) :
                /\ m \in Nodes /\ m.type = "reader" /\ m.owner = NULL
                /\ m.count = n.count /\ m.len > 0
                /\ \/ m.off = n.off /\ End(m) = off
                   \/ m.off = off /\ End(m) = End(n)
           /\ \A m1, m2 \in Split(n, off) : m1.off = m2.off => m1 = m2
           /\ \E m \in Split(n, off) : m.off = n.off /\ End(m) = off
           /\ \E m \in Split(n, off) : m.off = off /\ End(m) = End(n)
<1> DEFINE p == Proxify(n)
           f == [p EXCEPT !.len = off - n.off]
           b == Proxy(off, End(n) - off, n.count)
<1>1. n.off \in Nat /\ n.len \in Nat /\ n.count \in Nat /\ End(n) = n.off + n.len
    BY DEF Nodes, End
<1>2. p \in Nodes /\ p.off = n.off /\ p.type = "reader" /\ p.owner = NULL
      /\ p.count = n.count
    BY <1>1 DEF Proxify, Proxy, Node, Nodes
<1>3. off - n.off \in Nat /\ End(n) - off \in Nat
      /\ off - n.off > 0 /\ End(n) - off > 0
    BY <1>1
<1>4. f \in Nodes /\ f.off = n.off /\ f.len = off - n.off /\ f.type = "reader"
      /\ f.owner = NULL /\ f.count = n.count
    BY <1>2, <1>3 DEF Nodes
<1>5. b \in Nodes /\ b.off = off /\ b.len = End(n) - off /\ b.type = "reader"
      /\ b.owner = NULL /\ b.count = n.count
    BY <1>1, <1>3 DEF Proxy, Node, Nodes
<1>6. Split(n, off) = {f, b}
    BY DEF Split
<1> HIDE DEF f, b
<1>7. End(f) = off /\ End(b) = End(n)
    BY <1>1, <1>3, <1>4, <1>5 DEF End
<1>8. QED
    BY <1>1, <1>3, <1>4, <1>5, <1>6, <1>7

(* One that a new reader, which ends at end, counts once more.             *)
LEMMA CountedParts ==
    ASSUME NEW n \in Nodes, n.type = "reader", n.owner # NULL => n.count = 1,
           n.len > 0, NEW end \in Nat, n.off < end
    PROVE  /\ \A m \in Counted(n, end) :
                /\ m \in Nodes /\ m.type = "reader" /\ m.owner = NULL
                /\ m.len > 0
                /\ \/ /\ m.off = n.off /\ m.count = n.count + 1
                      /\ End(m) = IF end < End(n) THEN end ELSE End(n)
                   \/ /\ end < End(n) /\ m.off = end /\ m.count = n.count
                      /\ End(m) = End(n)
           /\ \A m1, m2 \in Counted(n, end) : m1.off = m2.off => m1 = m2
           /\ \E m \in Counted(n, end) :
                m.off = n.off /\ End(m) = IF end < End(n) THEN end ELSE End(n)
           /\ end < End(n) =>
                \E m \in Counted(n, end) : m.off = end /\ End(m) = End(n)
<1>1. n.off \in Nat /\ n.len \in Nat /\ n.count \in Nat /\ End(n) = n.off + n.len
    BY DEF Nodes, End
<1> DEFINE Bump(m) == [m EXCEPT !.count = @ + 1]
<1>2. ASSUME NEW m \in Nodes
      PROVE  /\ Bump(m) \in Nodes /\ Bump(m).off = m.off /\ Bump(m).len = m.len
             /\ Bump(m).type = m.type /\ Bump(m).owner = m.owner
             /\ Bump(m).count = m.count + 1 /\ End(Bump(m)) = End(m)
    <2>1. Bump(m) \in Nodes /\ Bump(m).off = m.off /\ Bump(m).len = m.len
          /\ Bump(m).type = m.type /\ Bump(m).owner = m.owner
          /\ Bump(m).count = m.count + 1
        BY DEF Nodes
    <2>2. QED
        BY <2>1 DEF End
<1> HIDE DEF Bump
<1>3. CASE end < End(n)
    <2>1. Counted(n, end) =
            {IF m.off = n.off THEN Bump(m) ELSE m : m \in Split(n, end)}
        BY <1>3 DEF Counted, Bump
    <2>2. PICK f \in Split(n, end) : f.off = n.off /\ End(f) = end
        BY <1>3, SplitParts
    <2>3. PICK b \in Split(n, end) : b.off = end /\ End(b) = End(n)
        BY <1>3, SplitParts
    <2>4. Split(n, end) = {f, b} /\ b.off # n.off
        <3>1. \A m \in Split(n, end) : m.off = n.off \/ m.off = end
            BY <1>3, SplitParts
        <3>2. \A m1, m2 \in Split(n, end) : m1.off = m2.off => m1 = m2
            BY <1>3, SplitParts
        <3>3. QED
            BY <3>1, <3>2, <2>2, <2>3, <1>1
    <2>5. Counted(n, end) = {Bump(f), b}
        BY <2>1, <2>2, <2>4
    <2>6. /\ f \in Nodes /\ f.type = "reader" /\ f.owner = NULL
          /\ f.count = n.count /\ f.len > 0
          /\ b \in Nodes /\ b.type = "reader" /\ b.owner = NULL
          /\ b.count = n.count /\ b.len > 0
        BY <1>3, SplitParts
    <2>7. QED
        BY <1>1, <1>2, <1>3, <2>2, <2>3, <2>4, <2>5, <2>6
<1>4. CASE ~(end < End(n))
    <2> DEFINE p == Proxify(n)
    <2>1. /\ p \in Nodes /\ p.off = n.off /\ p.len = n.len /\ p.type = "reader"
          /\ p.owner = NULL /\ p.count = n.count
        BY <1>1 DEF Proxify, Proxy, Node, Nodes
    <2>2. Counted(n, end) = {IF m.off = n.off THEN Bump(m) ELSE m : m \in {p}}
        BY <1>4 DEF Counted, Bump
    <2> HIDE DEF p
    <2>3. Counted(n, end) = {Bump(p)} /\ End(p) = End(n)
        BY <2>1, <2>2 DEF End
    <2>4. QED
        BY <1>1, <1>2, <1>4, <2>1, <2>3
<1>5. QED
    BY <1>3, <1>4

(* Disjoint parts of disjoint nodes are disjoint.                          *)
LEMMA PartsApart ==
    ASSUME NEW T, NEW P, Apart(T),
           \A n \in T : \A m \in P[n] :
             m \in Nodes /\ m.len > 0 /\ n.off <= m.off /\ End(m) <= End(n),
           \A n \in T : \A m1, m2 \in P[n] : m1 # m2 => ~Overlaps(m1, m2)
    PROVE  Apart(UNION {P[n] : n \in T})
<1> DEFINE T2 == UNION {P[n] : n \in T}
<1>0. UINT64_MAX \in Nat
    BY RangeAssumption
<1>1. \A n \in Nodes : n.off \in Nat /\ n.len \in Nat /\ End(n) = n.off + n.len
    BY DEF Nodes, End
<1>2. T \subseteq Nodes /\ T2 \subseteq Nodes
    BY DEF Apart
<1>3. ASSUME NEW m \in T2 PROVE m.len > 0 /\ End(m) <= UINT64_MAX
    <2>1. PICK n \in T : m \in P[n]
        OBVIOUS
    <2>2. m.len > 0 /\ End(m) <= End(n) /\ End(n) <= UINT64_MAX
        BY <2>1 DEF Apart
    <2>3. QED
        BY <2>2, <1>0, <1>1, <1>2
<1>4. ASSUME NEW m1 \in T2, NEW m2 \in T2, m1 # m2
      PROVE  ~Overlaps(m1, m2)
    <2>1. PICK n1 \in T : m1 \in P[n1]
        OBVIOUS
    <2>2. PICK n2 \in T : m2 \in P[n2]
        OBVIOUS
    <2>3. CASE n1 = n2
        BY <2>1, <2>2, <2>3, <1>4
    <2>4. CASE n1 # n2
        <3>1. ~Overlaps(n1, n2)
            BY <2>4 DEF Apart
        <3>2. /\ n1.off <= m1.off /\ End(m1) <= End(n1)
              /\ n2.off <= m2.off /\ End(m2) <= End(n2)
            BY <2>1, <2>2
        <3>3. /\ n1.off \in Nat /\ End(n1) \in Nat /\ n2.off \in Nat
              /\ End(n2) \in Nat /\ m1.off \in Nat /\ End(m1) \in Nat
              /\ m2.off \in Nat /\ End(m2) \in Nat
            BY <1>1, <1>2
        <3>4. QED
            BY <3>1, <3>2, <3>3 DEF Overlaps
    <2>5. QED
        BY <2>3, <2>4
<1>5. QED
    BY <1>2, <1>3, <1>4 DEF Apart

(* What a reader that may enter meets in the tree: readers, and a handle   *)
(* that nobody else holds.                                                 *)
ReadersAt(T, r) ==
    \A n \in T : Overlaps(n, r) =>
        n.type = "reader" /\ (n.owner # NULL => n.count = 1)

(* The first step of rangelock_add_reader: no node goes across the start   *)
(* of the new range.                                                       *)
Prev(T, r) == {n \in T : n.off < r.off /\ r.off < End(n)}

Cut(T, r) == (T \ Prev(T, r)) \cup UNION {Split(n, r.off) : n \in Prev(T, r)}

(* m is n, or a proxy for a part of it with the same count.                *)
PartOf(m, n) ==
    /\ n.off <= m.off /\ End(m) <= End(n) /\ m.count = n.count
    /\ m = n \/ (m.type = "reader" /\ m.owner = NULL)

LEMMA CutParts ==
    ASSUME NEW T, Apart(T), NEW r \in Ranges, r.len > 0, ReadersAt(T, r)
    PROVE  /\ Apart(Cut(T, r)) /\ ReadersAt(Cut(T, r), r)
           /\ \A m \in Cut(T, r) : \E n \in T : PartOf(m, n)
           /\ \A m \in Cut(T, r) : ~(m.off < r.off /\ r.off < End(m))
           /\ \A n \in T : \A b \in Nat : n.off <= b /\ b < End(n) =>
                \E m \in Cut(T, r) : m.off <= b /\ b < End(m)
           /\ \A n \in T : ~Overlaps(n, r) => n \in Cut(T, r)
<1> DEFINE P == [n \in T |-> IF n \in Prev(T, r) THEN Split(n, r.off) ELSE {n}]
           C == Cut(T, r)
<1>1. r.off \in Nat /\ r.len \in Nat /\ End(r) = r.off + r.len
    BY DEF Ranges, End
<1>2. \A n \in Nodes : n.off \in Nat /\ n.len \in Nat /\ End(n) = n.off + n.len
    BY DEF Nodes, End
<1>3. C = UNION {P[n] : n \in T}
    BY DEF Cut, Prev
<1>4. ASSUME NEW n \in Prev(T, r)
      PROVE  /\ n \in T /\ n \in Nodes /\ n.off < r.off /\ r.off < End(n)
             /\ n.type = "reader" /\ (n.owner # NULL => n.count = 1)
             /\ Overlaps(n, r)
    <2>1. n \in T /\ n \in Nodes /\ n.off < r.off /\ r.off < End(n)
        BY DEF Prev, Apart
    <2>2. Overlaps(n, r)
        BY <2>1, <1>1, <1>2 DEF Overlaps
    <2>3. QED
        BY <2>1, <2>2 DEF ReadersAt
<1>5. ASSUME NEW n \in Prev(T, r)
      PROVE  /\ \A m \in P[n] :
                  /\ m \in Nodes /\ m.type = "reader" /\ m.owner = NULL
                  /\ m.count = n.count /\ m.len > 0
                  /\ \/ m.off = n.off /\ End(m) = r.off
                     \/ m.off = r.off /\ End(m) = End(n)
             /\ \A m1, m2 \in P[n] : m1.off = m2.off => m1 = m2
             /\ \E m \in P[n] : m.off = n.off /\ End(m) = r.off
             /\ \E m \in P[n] : m.off = r.off /\ End(m) = End(n)
    <2>1. P[n] = Split(n, r.off)
        BY <1>4
    <2>2. QED
        BY <2>1, <1>1, <1>4, SplitParts
<1>6. \A n \in T : n \notin Prev(T, r) => P[n] = {n}
    OBVIOUS
<1> HIDE DEF P, C
<1>7. ASSUME NEW n \in T, NEW m \in P[n]
      PROVE  m \in Nodes /\ m.len > 0 /\ PartOf(m, n)
             /\ ~(m.off < r.off /\ r.off < End(m))
    <2>1. CASE n \in Prev(T, r)
        <3>1. n \in Nodes /\ n.off < r.off /\ r.off < End(n)
            BY <2>1, <1>4
        <3>2. /\ m \in Nodes /\ m.type = "reader" /\ m.owner = NULL
              /\ m.count = n.count /\ m.len > 0
              /\ \/ m.off = n.off /\ End(m) = r.off
                 \/ m.off = r.off /\ End(m) = End(n)
            BY <2>1, <1>5
        <3>3. QED
            BY <3>1, <3>2, <1>1, <1>2 DEF PartOf
    <2>2. CASE n \notin Prev(T, r)
        <3>1. m = n
            BY <2>2, <1>6
        <3>2. QED
            BY <3>1, <2>2, <1>2 DEF PartOf, Prev, Apart
    <2>3. QED
        BY <2>1, <2>2
<1>8. ASSUME NEW n \in T, NEW m1 \in P[n], NEW m2 \in P[n], m1 # m2
      PROVE  ~Overlaps(m1, m2)
    <2>1. n \in Prev(T, r)
        BY <1>6, <1>8
    <2>2. \/ End(m1) = r.off /\ m2.off = r.off
          \/ End(m2) = r.off /\ m1.off = r.off
        BY <2>1, <1>5, <1>8
    <2>3. QED
        BY <2>2, <1>1 DEF Overlaps
<1>9. Apart(C)
    BY <1>3, <1>7, <1>8, PartsApart DEF PartOf
<1>10. \A m \in C : \E n \in T : m \in P[n]
    BY <1>3
<1>11. ReadersAt(C, r)
    <2> SUFFICES ASSUME NEW m \in C, Overlaps(m, r)
                 PROVE  m.type = "reader" /\ (m.owner # NULL => m.count = 1)
        BY DEF ReadersAt
    <2>1. PICK n \in T : m \in P[n]
        BY <1>10
    <2>2. CASE m = n
        BY <2>2 DEF ReadersAt
    <2>3. CASE m # n
        BY <2>1, <2>3, <1>7 DEF PartOf
    <2>4. QED
        BY <2>2, <2>3
<1>12. ASSUME NEW n \in T, NEW b \in Nat, n.off <= b, b < End(n)
       PROVE  \E m \in C : m.off <= b /\ b < End(m)
    <2>1. CASE n \in Prev(T, r)
        <3>1. PICK f \in P[n] : f.off = n.off /\ End(f) = r.off
            BY <2>1, <1>5
        <3>2. PICK g \in P[n] : g.off = r.off /\ End(g) = End(n)
            BY <2>1, <1>5
        <3>3. f \in C /\ g \in C
            BY <1>3
        <3>4. QED
            BY <3>1, <3>2, <3>3, <1>1, <1>12
    <2>2. CASE n \notin Prev(T, r)
        BY <2>2, <1>3, <1>6, <1>12
    <2>3. QED
        BY <2>1, <2>2
<1>13. \A n \in T : ~Overlaps(n, r) => n \in C
    BY <1>4 DEF C, Cut
<1>14. QED
    BY <1>7, <1>9, <1>10, <1>11, <1>12, <1>13 DEF C

(* The proxies for the gaps fill what the nodes leave of the new range.    *)
LEMMA GapParts ==
    ASSUME NEW over, over \subseteq Nodes, NEW r \in Ranges, r.len > 0,
           \A n \in over : n.len > 0 /\ Overlaps(n, r) /\ r.off <= n.off
    PROVE  /\ \A m \in Gaps(over, r) :
                /\ m \in Nodes /\ m.type = "reader" /\ m.owner = NULL
                /\ m.count = 1 /\ m.len > 0
                /\ r.off <= m.off /\ End(m) <= End(r)
                /\ \A n \in over : ~Overlaps(n, m)
           /\ \A m1, m2 \in Gaps(over, r) : m1 # m2 => ~Overlaps(m1, m2)
           /\ \A b \in Nat : r.off <= b /\ b < End(r) =>
                \E m \in over \cup Gaps(over, r) : m.off <= b /\ b < End(m)
<1> DEFINE starts == {r.off} \cup {End(n) : n \in over}
           ends == {End(r)} \cup {n.off : n \in over}
           Free(a, b) == \A n \in over : ~Overlaps(n, [off |-> a, len |-> b - a])
           G == Gaps(over, r)
<1>1. r.off \in Nat /\ r.len \in Nat /\ End(r) = r.off + r.len /\ End(r) \in Nat
    BY DEF Ranges, End
<1>2. \A n \in over : /\ n.off \in Nat /\ n.len \in Nat /\ n.len > 0
                      /\ End(n) = n.off + n.len /\ End(n) \in Nat
                      /\ r.off <= n.off /\ n.off < End(r) /\ n.off < End(n)
    BY <1>1 DEF Nodes, End, Overlaps
<1>3. \A a \in starts : a \in Nat /\ r.off <= a
    BY <1>1, <1>2
<1>4. \A e \in ends : e \in Nat /\ e <= End(r)
    BY <1>1, <1>2
<1>5. \A m : m \in G <=> \E a \in starts : \E e \in ends :
                            a < e /\ Free(a, e) /\ m = Proxy(a, e - a, 1)
    <2>1. G = UNION {{Proxy(a, e - a, 1) : e \in {x \in ends : a < x /\ Free(a, x)}} :
                       a \in starts}
        BY DEF Gaps
    <2> HIDE DEF starts, ends, Free, G
    <2>2. QED
        BY <2>1
<1>6. ASSUME NEW a \in Nat, NEW e \in Nat, a < e
      PROVE  /\ Proxy(a, e - a, 1) \in Nodes /\ Proxy(a, e - a, 1).off = a
             /\ Proxy(a, e - a, 1).type = "reader"
             /\ Proxy(a, e - a, 1).owner = NULL
             /\ Proxy(a, e - a, 1).count = 1 /\ Proxy(a, e - a, 1).len > 0
             /\ End(Proxy(a, e - a, 1)) = e
    <2>1. e - a \in Nat /\ e - a > 0
        BY <1>6
    <2>2. QED
        BY <2>1, <1>6 DEF Proxy, Node, Nodes, End
<1>7. ASSUME NEW a \in Nat, NEW e \in Nat, a < e
      PROVE  Free(a, e) <=> \A n \in over : n.off >= e \/ End(n) <= a
    <2>1. [off |-> a, len |-> e - a].off = a /\ End([off |-> a, len |-> e - a]) = e
        BY <1>7 DEF End
    <2>2. QED
        BY <2>1, <1>2, <1>7 DEF Overlaps
<1> HIDE DEF G, Free
<1>8. ASSUME NEW m \in G
      PROVE  \E a \in starts : \E e \in ends :
               a < e /\ Free(a, e) /\ m = Proxy(a, e - a, 1)
    BY <1>5
<1>9. ASSUME NEW m \in G
      PROVE  /\ m \in Nodes /\ m.type = "reader" /\ m.owner = NULL
             /\ m.count = 1 /\ m.len > 0 /\ m.off \in starts /\ End(m) \in ends
             /\ m.off < End(m)
             /\ \A n \in over : n.off >= End(m) \/ End(n) <= m.off
             /\ m = Proxy(m.off, End(m) - m.off, 1)
    <2>1. PICK a \in starts, e \in ends :
               a < e /\ Free(a, e) /\ m = Proxy(a, e - a, 1)
        BY <1>8
    <2>2. a \in Nat /\ e \in Nat
        BY <1>3, <1>4
    <2>3. QED
        BY <2>1, <2>2, <1>6, <1>7
<1> HIDE DEF starts, ends
<1>10. ASSUME NEW m \in G
       PROVE  /\ r.off <= m.off /\ End(m) <= End(r)
              /\ \A n \in over : ~Overlaps(n, m)
    <2>1. /\ m.off \in Nat /\ End(m) \in Nat
          /\ r.off <= m.off /\ End(m) <= End(r)
        BY <1>9, <1>3, <1>4
    <2>2. QED
        BY <2>1, <1>9, <1>2 DEF Overlaps
<1>11. ASSUME NEW m1 \in G, NEW m2 \in G, m1 # m2
       PROVE  ~Overlaps(m1, m2)
    <2>1. /\ m1.off \in Nat /\ End(m1) \in Nat /\ m2.off \in Nat
          /\ End(m2) \in Nat /\ r.off <= m1.off /\ r.off <= m2.off
          /\ End(m1) <= End(r) /\ End(m2) <= End(r)
        BY <1>9, <1>3, <1>4
    <2>2. m1.off # m2.off \/ End(m1) # End(m2)
        BY <1>9, <1>11
    <2>3. ASSUME NEW x \in G, NEW y \in G, x.off < y.off,
                 x.off \in Nat, y.off \in Nat, r.off <= x.off,
                 End(x) \in Nat
          PROVE  ~(y.off < End(x))
        <3>1. PICK n \in over : y.off = End(n)
            BY <2>3, <1>1, <1>9 DEF starts
        <3>2. n.off >= End(x) \/ End(n) <= x.off
            BY <1>9
        <3>3. QED
            BY <3>1, <3>2, <2>3, <1>2
    <2>4. ASSUME NEW x \in G, NEW y \in G, x.off = y.off, End(x) < End(y),
                 End(x) \in Nat, End(y) \in Nat, End(y) <= End(r),
                 x.off \in Nat
          PROVE  FALSE
        <3>1. PICK n \in over : End(x) = n.off
            BY <2>4, <1>1, <1>9 DEF ends
        <3>2. n.off >= End(y) \/ End(n) <= y.off
            BY <1>9
        <3>3. x.off < End(x)
            BY <1>9
        <3>4. QED
            BY <3>1, <3>2, <3>3, <2>4, <1>2
    <2>5. CASE m1.off < m2.off
        BY <2>5, <2>1, <2>3 DEF Overlaps
    <2>6. CASE m2.off < m1.off
        BY <2>6, <2>1, <2>3 DEF Overlaps
    <2>7. CASE m1.off = m2.off
        BY <2>7, <2>1, <2>2, <2>4
    <2>8. QED
        BY <2>1, <2>5, <2>6, <2>7
<1>12. ASSUME NEW b \in Nat, r.off <= b, b < End(r),
              ~\E n \in over : n.off <= b /\ b < End(n)
       PROVE  \E m \in G : m.off <= b /\ b < End(m)
    <2> DEFINE A == {b - a : a \in {x \in starts : x <= b}}
               B == {x \in ends : b < x}
    <2>1. A \subseteq Nat /\ A # {}
        <3>1. r.off \in {x \in starts : x <= b}
            BY <1>12 DEF starts
        <3>2. \A a \in {x \in starts : x <= b} : b - a \in Nat
            BY <1>3
        <3>3. QED
            BY <3>1, <3>2
    <2>2. B \subseteq Nat /\ B # {}
        BY <1>12, <1>4 DEF ends
    <2>3. PICK z \in A : \A y \in A : z <= y
        <3> HIDE DEF A
        <3> QED BY <2>1, LeastNat
    <2>4. PICK a \in {x \in starts : x <= b} : z = b - a
        OBVIOUS
    <2>5. PICK e \in B : \A y \in B : e <= y
        <3> HIDE DEF B
        <3> QED BY <2>2, LeastNat
    <2>6. /\ a \in Nat /\ a \in starts /\ a <= b
          /\ e \in Nat /\ e \in ends /\ b < e
        BY <1>3, <1>4, <2>4
    <2>7. \A x \in starts : x <= b => x <= a
        <3>1. ASSUME NEW x \in starts, x <= b PROVE x <= a
            <4>1. b - x \in A
                BY <3>1
            <4>2. b - a <= b - x
                BY <4>1, <2>3, <2>4
            <4>3. QED
                BY <4>2, <2>6, <1>3
        <3>2. QED
            BY <3>1
    <2>8. ASSUME NEW n \in over PROVE n.off >= e \/ End(n) <= a
        <3>1. CASE n.off <= b
            <4>1. End(n) <= b
                BY <3>1, <1>12, <1>2
            <4>2. End(n) \in starts
                BY DEF starts
            <4>3. QED
                BY <4>1, <4>2, <2>7
        <3>2. CASE ~(n.off <= b)
            <4>1. n.off \in ends
                BY DEF ends
            <4>2. n.off \in B
                BY <3>2, <4>1, <1>2
            <4>3. QED
                BY <4>2, <2>5, <2>6, <1>2
        <3>3. QED
            BY <3>1, <3>2
    <2>9. a < e /\ Free(a, e)
        BY <2>6, <2>8, <1>7
    <2>10. Proxy(a, e - a, 1) \in G
        BY <2>6, <2>9, <1>5
    <2>11. QED
        BY <2>6, <2>9, <2>10, <1>6
<1>13. QED
    BY <1>9, <1>10, <1>11, <1>12 DEF G

-----------------------------------------------------------------------------
Over(T, r) == {n \in Cut(T, r) : Overlaps(n, r)}

(* The rest of rangelock_add_reader when the new range overlaps a node.    *)
Grown(T, r) ==
    (Cut(T, r) \ Over(T, r)) \cup Gaps(Over(T, r), r)
    \cup UNION {Counted(n, End(r)) : n \in Over(T, r)}

(* Where a node of the new tree comes from: a node outside of the new      *)
(* range or a part of one, a part inside it that now counts one more, or a *)
(* gap.                                                                    *)
Outside(m, n, r) == PartOf(m, n) /\ ~Overlaps(m, r)

Inside(m, n, r) ==
    /\ n.off <= m.off /\ End(m) <= End(n) /\ r.off <= m.off /\ End(m) <= End(r)
    /\ m.count = n.count + 1 /\ m.type = "reader" /\ m.owner = NULL

Gap(m, T, r) ==
    /\ \A n \in T : ~Overlaps(m, n)
    /\ r.off <= m.off /\ End(m) <= End(r)
    /\ m.count = 1 /\ m.type = "reader" /\ m.owner = NULL

(* A node that is counted once more, and what is left of it behind the new *)
(* range.                                                                  *)
LEMMA CountedFrom ==
    ASSUME NEW n \in Nodes, n.type = "reader", n.owner # NULL => n.count = 1,
           n.len > 0, NEW r \in Ranges, r.len > 0, r.off <= n.off, Overlaps(n, r)
    PROVE  /\ \A m \in Counted(n, End(r)) :
                /\ m \in Nodes /\ m.len > 0
                /\ Outside(m, n, r) \/ Inside(m, n, r)
           /\ \A m1, m2 \in Counted(n, End(r)) : m1 # m2 => ~Overlaps(m1, m2)
           /\ \A b \in Nat : n.off <= b /\ b < End(n) =>
                \E m \in Counted(n, End(r)) : m.off <= b /\ b < End(m)
<1>1. r.off \in Nat /\ r.len \in Nat /\ End(r) = r.off + r.len /\ End(r) \in Nat
    BY DEF Ranges, End
<1>2. \A k \in Nodes : k.off \in Nat /\ k.len \in Nat /\ End(k) = k.off + k.len
                       /\ End(k) \in Nat
    BY DEF Nodes, End
<1>3. n.off < End(r)
    BY DEF Overlaps
<1>4. ASSUME NEW m \in Counted(n, End(r))
      PROVE  /\ m \in Nodes /\ m.type = "reader" /\ m.owner = NULL
             /\ m.len > 0
             /\ \/ /\ m.off = n.off /\ m.count = n.count + 1
                   /\ End(m) = IF End(r) < End(n) THEN End(r) ELSE End(n)
                \/ /\ End(r) < End(n) /\ m.off = End(r) /\ m.count = n.count
                   /\ End(m) = End(n)
    BY <1>1, <1>3, CountedParts
<1>5. ASSUME NEW m \in Counted(n, End(r))
      PROVE  Outside(m, n, r) \/ Inside(m, n, r)
    <2>1. CASE /\ m.off = n.off /\ m.count = n.count + 1
               /\ End(m) = IF End(r) < End(n) THEN End(r) ELSE End(n)
        BY <2>1, <1>1, <1>2, <1>3, <1>4 DEF Inside
    <2>2. CASE /\ End(r) < End(n) /\ m.off = End(r) /\ m.count = n.count
               /\ End(m) = End(n)
        BY <2>2, <1>1, <1>2, <1>3, <1>4 DEF Outside, PartOf, Overlaps
    <2>3. QED
        BY <2>1, <2>2, <1>4
<1>6. ASSUME NEW m1 \in Counted(n, End(r)), NEW m2 \in Counted(n, End(r)),
             m1 # m2
      PROVE  ~Overlaps(m1, m2)
    <2>1. m1.off # m2.off
        BY <1>1, <1>3, <1>6, CountedParts
    <2>2. \/ End(m1) = End(r) /\ m2.off = End(r)
          \/ End(m2) = End(r) /\ m1.off = End(r)
        BY <2>1, <1>4
    <2>3. QED
        BY <2>2, <1>1 DEF Overlaps
<1>7. ASSUME NEW b \in Nat, n.off <= b, b < End(n)
      PROVE  \E m \in Counted(n, End(r)) : m.off <= b /\ b < End(m)
    <2>1. \E m \in Counted(n, End(r)) :
            m.off = n.off /\ End(m) = IF End(r) < End(n) THEN End(r) ELSE End(n)
        BY <1>1, <1>3, CountedParts
    <2>2. End(r) < End(n) =>
            \E m \in Counted(n, End(r)) : m.off = End(r) /\ End(m) = End(n)
        BY <1>1, <1>3, CountedParts
    <2>3. CASE b < End(r) \/ ~(End(r) < End(n))
        BY <2>1, <2>3, <1>1, <1>2, <1>7
    <2>4. CASE ~(b < End(r)) /\ End(r) < End(n)
        BY <2>2, <2>4, <1>1, <1>2, <1>7
    <2>5. QED
        BY <2>3, <2>4
<1>8. QED
    BY <1>4, <1>5, <1>6, <1>7

LEMMA GrownParts ==
    ASSUME NEW T, Apart(T), NEW r \in Ranges, r.len > 0, ReadersAt(T, r),
           End(r) <= UINT64_MAX
    PROVE  /\ Apart(Grown(T, r))
           /\ \A m \in Grown(T, r) :
                \/ \E n \in T : Outside(m, n, r) \/ Inside(m, n, r)
                \/ Gap(m, T, r)
           /\ \A n \in T : \A b \in Nat : n.off <= b /\ b < End(n) =>
                \E m \in Grown(T, r) : m.off <= b /\ b < End(m)
           /\ \A b \in Nat : r.off <= b /\ b < End(r) =>
                \E m \in Grown(T, r) : m.off <= b /\ b < End(m)
           /\ \A n \in T : ~Overlaps(n, r) => n \in Grown(T, r)
<1> DEFINE C == Cut(T, r)
           O == Over(T, r)
           P == [n \in C |-> IF n \in O THEN Counted(n, End(r)) ELSE {n}]
           U == UNION {P[n] : n \in C}
           G == Gaps(O, r)
<1>1. r.off \in Nat /\ r.len \in Nat /\ End(r) = r.off + r.len /\ End(r) \in Nat
    BY DEF Ranges, End
<1>2. \A n \in Nodes : n.off \in Nat /\ n.len \in Nat /\ End(n) = n.off + n.len
                       /\ End(n) \in Nat
    BY DEF Nodes, End
<1>3. Apart(C) /\ ReadersAt(C, r)
    BY CutParts
<1>4. \A m \in C : \E n \in T : PartOf(m, n)
    BY CutParts
<1>5. \A m \in C : ~(m.off < r.off /\ r.off < End(m))
    BY CutParts
<1>6. \A n \in T : \A b \in Nat : n.off <= b /\ b < End(n) =>
        \E m \in C : m.off <= b /\ b < End(m)
    BY CutParts
<1>7. \A n \in T : ~Overlaps(n, r) => n \in C
    BY CutParts
<1>8. Grown(T, r) = U \cup G
    <2>1. O \subseteq C
        BY DEF Over
    <2>2. \A m : m \in Grown(T, r) <=>
            m \in C \ O \/ (\E n \in O : m \in Counted(n, End(r))) \/ m \in G
        BY DEF Grown
    <2>3. \A n \in O : P[n] = Counted(n, End(r))
        BY <2>1
    <2>4. \A n \in C \ O : P[n] = {n}
        OBVIOUS
    <2>5. \A m : m \in U <=> \E n \in C : m \in P[n]
        OBVIOUS
    <2> HIDE DEF C, O, G, P, U
    <2>6. \A m : m \in U <=>
            m \in C \ O \/ (\E n \in O : m \in Counted(n, End(r)))
        BY <2>1, <2>3, <2>4, <2>5
    <2>7. QED
        BY <2>2, <2>6
<1>9. \A n \in C : n \in O <=> Overlaps(n, r)
    BY DEF Over
<1>10. O \subseteq C
    BY DEF Over
<1>11. /\ \A n \in O : P[n] = Counted(n, End(r))
       /\ \A n \in C : n \notin O => P[n] = {n}
    BY <1>10
<1> HIDE DEF C, O, P, U, G
<1>12. T \subseteq Nodes /\ C \subseteq Nodes
    BY <1>3 DEF Apart
<1>13. ASSUME NEW n \in O
       PROVE  /\ n \in Nodes /\ n.type = "reader" /\ n.len > 0
              /\ (n.owner # NULL => n.count = 1)
              /\ Overlaps(n, r) /\ r.off <= n.off
    <2>1. n \in C /\ n \in Nodes /\ Overlaps(n, r)
        BY <1>9, <1>10, <1>12
    <2>2. r.off <= n.off
        BY <2>1, <1>1, <1>2, <1>5 DEF Overlaps
    <2>3. QED
        BY <2>1, <2>2, <1>3 DEF Apart, ReadersAt
<1>14. ASSUME NEW n \in C, NEW m \in P[n]
       PROVE  /\ m \in Nodes /\ m.len > 0 /\ n.off <= m.off /\ End(m) <= End(n)
              /\ Outside(m, n, r) \/ Inside(m, n, r)
    <2>1. CASE n \in O
        <3>1. m \in Nodes /\ m.len > 0 /\ (Outside(m, n, r) \/ Inside(m, n, r))
            BY <2>1, <1>11, <1>13, CountedFrom
        <3>2. QED
            BY <3>1 DEF Outside, Inside, PartOf
    <2>2. CASE n \notin O
        <3>1. m = n /\ ~Overlaps(n, r)
            BY <2>2, <1>9, <1>11
        <3>2. QED
            BY <3>1, <1>2, <1>3, <1>12 DEF Outside, PartOf, Apart
    <2>3. QED
        BY <2>1, <2>2
<1>15. ASSUME NEW n \in C, NEW m1 \in P[n], NEW m2 \in P[n], m1 # m2
       PROVE  ~Overlaps(m1, m2)
    <2>1. n \in O
        BY <1>11, <1>15
    <2>2. QED
        BY <2>1, <1>11, <1>13, <1>15, CountedFrom
<1>16. ASSUME NEW n \in C, NEW b \in Nat, n.off <= b, b < End(n)
       PROVE  \E m \in U : m.off <= b /\ b < End(m)
    <2>1. P[n] \subseteq U
        BY DEF U
    <2>2. CASE n \in O
        BY <2>1, <2>2, <1>11, <1>13, <1>16, CountedFrom
    <2>3. CASE n \notin O
        BY <2>1, <2>3, <1>11, <1>16
    <2>4. QED
        BY <2>2, <2>3
<1>17. Apart(U)
    BY <1>3, <1>14, <1>15, PartsApart DEF U
<1>18. O \subseteq Nodes
    BY <1>13
<1>19. ASSUME NEW g \in G
       PROVE  /\ g \in Nodes /\ g.type = "reader" /\ g.owner = NULL
              /\ g.count = 1 /\ g.len > 0
              /\ r.off <= g.off /\ End(g) <= End(r)
              /\ \A n \in O : ~Overlaps(n, g)
    BY <1>13, <1>18, GapParts DEF G
<1>20. \A g1, g2 \in G : g1 # g2 => ~Overlaps(g1, g2)
    BY <1>13, <1>18, GapParts DEF G
<1>21. \A b \in Nat : r.off <= b /\ b < End(r) =>
         \E m \in O \cup G : m.off <= b /\ b < End(m)
    BY <1>13, <1>18, GapParts DEF G
<1>22. ASSUME NEW n \in C, NEW g \in G PROVE ~Overlaps(n, g)
    <2>1. CASE n \in O
        BY <2>1, <1>19
    <2>2. CASE n \notin O
        <3>1. ~Overlaps(n, r)
            BY <2>2, <1>9
        <3>2. QED
            BY <3>1, <1>1, <1>2, <1>12, <1>19 DEF Overlaps
    <2>3. QED
        BY <2>1, <2>2
<1>23. ASSUME NEW m \in U
       PROVE  \E n \in C : m \in P[n]
    BY DEF U
<1>24. ASSUME NEW m \in U, NEW g \in G
       PROVE  ~Overlaps(m, g) /\ ~Overlaps(g, m)
    <2>1. PICK n \in C : m \in P[n]
        BY <1>23
    <2>2. m \in Nodes /\ g \in Nodes /\ n \in Nodes
          /\ n.off <= m.off /\ End(m) <= End(n)
        BY <2>1, <1>12, <1>14, <1>19
    <2>3. ~Overlaps(n, g)
        BY <1>22
    <2>4. QED
        BY <2>2, <2>3, <1>2 DEF Overlaps
<1>25. Apart(Grown(T, r))
    <2>1. U \cup G \subseteq Nodes
        BY <1>17, <1>19 DEF Apart
    <2>2. UINT64_MAX \in Nat
        BY RangeAssumption
    <2>3. \A m \in U \cup G : m.len > 0 /\ End(m) <= UINT64_MAX
        BY <1>1, <1>2, <1>17, <1>19, <2>2 DEF Apart
    <2>4. \A m1, m2 \in U \cup G : m1 # m2 => ~Overlaps(m1, m2)
        BY <1>17, <1>20, <1>24 DEF Apart
    <2>5. QED
        BY <2>1, <2>3, <2>4, <1>8 DEF Apart
<1>26. ASSUME NEW m \in U
       PROVE  \E n \in T : Outside(m, n, r) \/ Inside(m, n, r)
    <2>1. PICK k \in C : m \in P[k]
        BY <1>23
    <2>2. PICK n \in T : PartOf(k, n)
        BY <1>4
    <2>3. /\ m \in Nodes /\ k \in Nodes /\ n \in Nodes
          /\ Outside(m, k, r) \/ Inside(m, k, r)
        BY <2>1, <1>12, <1>14
    <2>4. QED
        BY <2>2, <2>3, <1>2 DEF Outside, Inside, PartOf
<1>27. ASSUME NEW g \in G PROVE Gap(g, T, r)
    <2>1. ASSUME NEW n \in T, Overlaps(g, n) PROVE FALSE
        <3>1. /\ g.off \in Nat /\ g.len \in Nat /\ g.len > 0
              /\ n.off \in Nat /\ n.len \in Nat /\ n.len > 0
            BY <1>2, <1>12, <1>19 DEF Apart
        <3>2. PICK b \in Nat : /\ g.off <= b /\ b < End(g)
                               /\ n.off <= b /\ b < End(n)
            BY <2>1, <3>1, ShareByte
        <3>3. PICK k \in C : k.off <= b /\ b < End(k)
            BY <3>2, <1>6
        <3>4. k.off \in Nat /\ k.len \in Nat
            BY <1>2, <1>12
        <3>5. Overlaps(k, g)
            BY <3>1, <3>2, <3>3, <3>4, ShareByte
        <3>6. QED
            BY <3>5, <1>22
    <2>2. QED
        BY <2>1, <1>19 DEF Gap
<1>28. ASSUME NEW b \in Nat, r.off <= b, b < End(r)
       PROVE  \E m \in U \cup G : m.off <= b /\ b < End(m)
    <2>1. PICK m \in O \cup G : m.off <= b /\ b < End(m)
        BY <1>21, <1>28
    <2>2. QED
        BY <2>1, <1>10, <1>16
<1>29. ASSUME NEW n \in T, ~Overlaps(n, r) PROVE n \in U
    <2>1. n \in C /\ n \notin O
        BY <1>7, <1>9, <1>29
    <2>2. QED
        BY <2>1, <1>11 DEF U
<1>30. ASSUME NEW n \in T, NEW b \in Nat, n.off <= b, b < End(n)
       PROVE  \E m \in U : m.off <= b /\ b < End(m)
    BY <1>6, <1>16, <1>30
<1>31. QED
    BY <1>8, <1>25, <1>26, <1>27, <1>28, <1>29, <1>30

(* A part of a node is held by those who hold the node.                    *)
LEMMA PartHolders ==
    ASSUME NEW T, NEW H, NEW R, NEW W, Exact(T, H, R, W), NEW n \in T,
           NEW m \in Nodes, m.len > 0, n.off <= m.off, End(m) <= End(n)
    PROVE  /\ Holders(m, H, R) = Holders(n, H, R)
           /\ \A u \in H : Overlaps(m, R[u]) =>
                R[u].off <= m.off /\ End(m) <= End(R[u])
<1>1. /\ n.off \in Nat /\ n.len \in Nat /\ End(n) \in Nat
      /\ m.off \in Nat /\ End(m) \in Nat /\ m.off < End(m)
    BY DEF Exact, Apart, Nodes, End
<1>2. ASSUME NEW u \in H
      PROVE  /\ Overlaps(m, R[u]) <=> Overlaps(n, R[u])
             /\ Overlaps(m, R[u]) => R[u].off <= m.off /\ End(m) <= End(R[u])
    <2>1. R[u].off \in Nat /\ R[u].len \in Nat /\ End(R[u]) \in Nat
        BY DEF Exact, HeldFit, Ranges, End
    <2>2. Overlaps(m, R[u]) => Overlaps(n, R[u])
        BY <1>1, <2>1 DEF Overlaps
    <2>3. Overlaps(n, R[u]) => R[u].off <= n.off /\ End(n) <= End(R[u])
        BY DEF Exact, Counts
    <2>4. QED
        BY <1>1, <2>1, <2>2, <2>3 DEF Overlaps
<1>3. QED
    BY <1>2 DEF Holders

(* The tree of rangelock_add_reader says exactly who holds what.           *)
LEMMA GrownExact ==
    ASSUME NEW T, NEW H, NEW R, NEW W, Exact(T, H, R, W),
           NEW t \in Threads, t \notin H, t \notin W, R[t] \in Ranges,
           R[t].len > 0, End(R[t]) <= UINT64_MAX, ReadersAt(T, R[t])
    PROVE  Exact(Grown(T, R[t]), H \cup {t}, R, W)
<1> DEFINE r == R[t]
           A == Grown(T, r)
           H2 == H \cup {t}
<1>1. /\ r.off \in Nat /\ r.len \in Nat \ {0} /\ End(r) \in Nat
      /\ r.off < End(r) /\ End(r) = r.off + r.len
    BY DEF Ranges, End
<1>2. Apart(T) /\ T \subseteq Nodes /\ IsFiniteSet(H) /\ t # NULL
    BY RangeAssumption DEF Exact, Apart
<1>3. Apart(A)
    BY <1>2, GrownParts
<1>4. ASSUME NEW m \in A
      PROVE  \/ \E n \in T : Outside(m, n, r) \/ Inside(m, n, r)
             \/ Gap(m, T, r)
    BY <1>2, GrownParts
<1>5. ASSUME NEW n \in T, NEW b \in Nat, n.off <= b, b < End(n)
      PROVE  \E m \in A : m.off <= b /\ b < End(m)
    BY <1>2, <1>5, GrownParts
<1>6. ASSUME NEW b \in Nat, r.off <= b, b < End(r)
      PROVE  \E m \in A : m.off <= b /\ b < End(m)
    BY <1>2, <1>6, GrownParts
<1>7. ASSUME NEW n \in T, ~Overlaps(n, r) PROVE n \in A
    BY <1>2, <1>7, GrownParts
<1> HIDE DEF A, r
<1>8. ASSUME NEW m \in A
      PROVE  /\ m \in Nodes /\ m.off \in Nat /\ m.len \in Nat \ {0}
             /\ End(m) \in Nat /\ m.off < End(m)
    BY <1>3 DEF Apart, Nodes, End
<1>9. \A m : Holders(m, H2, R) =
               Holders(m, H, R) \cup (IF Overlaps(m, r) THEN {t} ELSE {})
    BY DEF Holders, r
<1>10. ASSUME NEW m \in A, NEW n \in T, Outside(m, n, r)
       PROVE  /\ Holders(m, H2, R) = Holders(n, H, R) /\ m.count = n.count
              /\ \A u \in H2 : Overlaps(m, R[u]) =>
                   R[u].off <= m.off /\ End(m) <= End(R[u])
    <2>1. n.off <= m.off /\ End(m) <= End(n) /\ ~Overlaps(m, r)
          /\ m.count = n.count
        BY <1>10 DEF Outside, PartOf
    <2>2. /\ Holders(m, H, R) = Holders(n, H, R)
          /\ \A u \in H : Overlaps(m, R[u]) =>
               R[u].off <= m.off /\ End(m) <= End(R[u])
        BY <2>1, <1>8, PartHolders
    <2>3. QED
        BY <2>1, <2>2, <1>9 DEF r
<1>11. ASSUME NEW m \in A, NEW n \in T, Inside(m, n, r)
       PROVE  /\ Holders(m, H2, R) = Holders(n, H, R) \cup {t}
              /\ m.count = n.count + 1 /\ m.owner = NULL /\ m.type = "reader"
              /\ \A u \in H2 : Overlaps(m, R[u]) =>
                   R[u].off <= m.off /\ End(m) <= End(R[u])
    <2>1. /\ n.off <= m.off /\ End(m) <= End(n) /\ r.off <= m.off
          /\ End(m) <= End(r) /\ m.count = n.count + 1 /\ m.owner = NULL
          /\ m.type = "reader"
        BY <1>11 DEF Inside
    <2>2. /\ Holders(m, H, R) = Holders(n, H, R)
          /\ \A u \in H : Overlaps(m, R[u]) =>
               R[u].off <= m.off /\ End(m) <= End(R[u])
        BY <2>1, <1>8, PartHolders
    <2>3. Overlaps(m, r)
        BY <2>1, <1>1, <1>8 DEF Overlaps
    <2>4. QED
        BY <2>1, <2>2, <2>3, <1>9 DEF r
<1>12. ASSUME NEW m \in A, Gap(m, T, r)
       PROVE  /\ Holders(m, H2, R) = {t}
              /\ m.count = 1 /\ m.owner = NULL /\ m.type = "reader"
              /\ \A u \in H2 : Overlaps(m, R[u]) =>
                   R[u].off <= m.off /\ End(m) <= End(R[u])
    <2>1. /\ \A n \in T : ~Overlaps(m, n)
          /\ r.off <= m.off /\ End(m) <= End(r)
          /\ m.count = 1 /\ m.owner = NULL /\ m.type = "reader"
        BY <1>12 DEF Gap
    <2>2. ASSUME NEW u \in H, Overlaps(m, R[u]) PROVE FALSE
        <3>1. PICK n \in T : Overlaps(n, m)
            BY <2>2, <1>8, HolderSeen
        <3>2. QED
            BY <3>1, <2>1 DEF Overlaps
    <2>3. Overlaps(m, r)
        BY <2>1, <1>1, <1>8 DEF Overlaps
    <2>4. Holders(m, H, R) = {}
        BY <2>2 DEF Holders
    <2>5. QED
        BY <2>1, <2>2, <2>3, <2>4, <1>9 DEF r
<1>13. Counts(A, H2, R)
    <2>1. ASSUME NEW m \in A
          PROVE  m.count = Cardinality(Holders(m, H2, R))
        <3>1. \A n \in T : /\ n.count = Cardinality(Holders(n, H, R))
                           /\ IsFiniteSet(Holders(n, H, R))
                           /\ t \notin Holders(n, H, R)
            <4>1. \A n : Holders(n, H, R) \subseteq H
                BY DEF Holders
            <4>2. \A n : IsFiniteSet(Holders(n, H, R))
                BY <4>1, <1>2, FS_Subset
            <4>3. QED
                BY <4>1, <4>2 DEF Exact, Counts
        <3>2. ASSUME NEW n \in T, Outside(m, n, r)
              PROVE  m.count = Cardinality(Holders(m, H2, R))
            BY <3>1, <3>2, <1>10
        <3>3. ASSUME NEW n \in T, Inside(m, n, r)
              PROVE  m.count = Cardinality(Holders(m, H2, R))
            <4>1. Cardinality(Holders(n, H, R) \cup {t}) = n.count + 1
                BY <3>1, FS_AddElement
            <4>2. QED
                BY <4>1, <3>3, <1>11
        <3>4. CASE Gap(m, T, r)
            BY <3>4, <1>12, FS_Singleton
        <3>5. QED
            BY <3>2, <3>3, <3>4, <1>4
    <2>2. \A u \in H2 : \A m \in A :
            Overlaps(m, R[u]) => R[u].off <= m.off /\ End(m) <= End(R[u])
        BY <1>4, <1>10, <1>11, <1>12
    <2>3. ASSUME NEW u \in H2, NEW b \in R[u].off .. End(R[u]) - 1
          PROVE  \E m \in A : m.off <= b /\ b < End(m)
        <3>1. R[u].off \in Nat /\ R[u].len \in Nat
            BY <1>1 DEF r, Exact, HeldFit, Ranges
        <3>2. b \in Nat /\ R[u].off <= b /\ b < End(R[u])
            BY <3>1 DEF End
        <3>3. CASE u = t
            BY <3>2, <3>3, <1>6 DEF r
        <3>4. CASE u \in H
            <4>1. PICK n \in T : n.off <= b /\ b < End(n)
                BY <3>4 DEF Exact, Counts
            <4>2. QED
                BY <3>2, <4>1, <1>5
        <3>5. QED
            BY <3>3, <3>4
    <2>4. QED
        BY <2>1, <2>2, <2>3 DEF Counts
<1>14. Owned(A, H2, R, W)
    <2>1. ASSUME NEW m \in A, m.owner # NULL \/ m.type # "reader"
          PROVE  m \in T /\ ~Overlaps(m, r)
        <3>1. PICK n \in T : Outside(m, n, r)
            BY <2>1, <1>4, <1>11, <1>12
        <3>2. QED
            BY <2>1, <3>1 DEF Outside, PartOf
    <2>2. ASSUME NEW m \in A, m.owner # NULL
          PROVE  /\ Holders(m, H2, R) = {m.owner}
                 /\ m.off = R[m.owner].off /\ m.len = R[m.owner].len
        BY <2>1, <2>2, <1>9 DEF Exact, Owned
    <2>3. ASSUME NEW m \in A
          PROVE  m.type = "writer" <=> (m.owner # NULL /\ m.owner \in W)
        <3>1. CASE m \in T
            BY <3>1 DEF Exact, Owned
        <3>2. CASE m \notin T
            BY <3>2, <2>1
        <3>3. QED
            BY <3>1, <3>2
    <2>4. ASSUME NEW u \in H2 \cap W PROVE \E m \in A : m.owner = u
        <3>1. u \in H /\ u \in W
            OBVIOUS
        <3>2. PICK n \in T : n.owner = u
            BY <3>1 DEF Exact, Owned
        <3>3. u # NULL
            BY <3>1, RangeAssumption DEF Exact
        <3>4. n.type = "writer"
            BY <3>1, <3>2, <3>3 DEF Exact, Owned
        <3>5. ~Overlaps(n, r)
            BY <3>4 DEF ReadersAt, r
        <3>6. QED
            BY <3>2, <3>5, <1>7
    <2>5. QED
        BY <2>2, <2>3, <2>4 DEF Owned
<1>15. IsFiniteSet(H2) /\ H2 \subseteq Threads
    BY <1>2, FS_AddElement DEF Exact
<1>16. HeldFit(H2, R)
    BY DEF Exact, HeldFit
<1>17. QED
    BY <1>3, <1>13, <1>14, <1>15, <1>16 DEF Exact, A, r

-----------------------------------------------------------------------------
Ops == {"read", "write", "append", "trunc"}

(* A request that rangelock_enter has clamped.                             *)
FitReq(q) ==
    /\ q \in [op : Ops, off : Nat, len : Nat]
    /\ q.len > 0 /\ q.off + q.len <= UINT64_MAX
    /\ q.op \in {"write", "append"} => q.off <= MAXOFFSET_T /\ q.len <= MAXOFFSET_T

RlTypes ==
    /\ st \in [Threads -> {"idle", "wait", "held", "wake", "done"}]
    /\ req \in [Threads -> [op : Ops \cup {"none"}, off : Nat, len : Nat]]
    /\ lr \in [Threads -> Ranges]
    /\ pend \in [Threads -> SUBSET Nodes]
    /\ z_size \in 0 .. MAXOFFSET_T

(* Only a writer on its way out of rangelock_exit has broadcasts to make.  *)
ReqsFit ==
    \A t \in Threads :
        /\ st[t] # "idle" => FitReq(req[t])
        /\ pend[t] # {} => st[t] = "wake"

Writing == {t \in Threads : req[t].op # "read"}

TreeExact == Exact(rl_tree, Holding, lr, Writing)

RlInv == RlTypes /\ ReqsFit /\ TreeExact

(* The overflow check leaves a range that ends by the last offset.         *)
LEMMA ClampFits ==
    ASSUME NEW q \in Reqs
    PROVE  FitReq(Clamp(q))
<1>1. /\ UINT64_MAX \in Nat /\ MAXOFFSET_T \in Nat
      /\ 2 * MAXOFFSET_T <= UINT64_MAX
      /\ q \in [op : Ops, off : 0 .. UINT64_MAX - 1, len : 1 .. UINT64_MAX]
      /\ q.op \in {"write", "append"} =>
           q.off <= MAXOFFSET_T /\ q.len <= MAXOFFSET_T
    BY RangeAssumption DEF Ops
<1>2. /\ q.op \in Ops /\ q.off \in Nat /\ q.len \in Nat /\ q.len > 0
      /\ q.off < UINT64_MAX /\ q.len <= UINT64_MAX
    BY <1>1
<1>3. CASE q.len + q.off <= UINT64_MAX
    <2>1. (q.len + q.off) % (UINT64_MAX + 1) = q.len + q.off
        BY <1>1, <1>2, <1>3
    <2>2. Clamp(q) = q
        BY <2>1, <1>2 DEF Clamp
    <2>3. QED
        BY <2>2, <1>1, <1>2, <1>3 DEF FitReq
<1>4. CASE q.len + q.off > UINT64_MAX
    <2>1. (q.len + q.off) % (UINT64_MAX + 1) = q.len + q.off - (UINT64_MAX + 1)
        BY <1>1, <1>2, <1>4
    <2>2. (q.len + q.off) % (UINT64_MAX + 1) < q.off
        BY <2>1, <1>1, <1>2
    <2>3. Clamp(q) = [q EXCEPT !.len = UINT64_MAX - q.off]
        BY <2>2 DEF Clamp
    <2>4. q.op \notin {"write", "append"}
        BY <1>1, <1>2, <1>4
    <2>5. UINT64_MAX - q.off \in Nat /\ UINT64_MAX - q.off > 0
        BY <1>1, <1>2
    <2>6. /\ Clamp(q) \in [op : Ops, off : Nat, len : Nat]
          /\ Clamp(q).op = q.op /\ Clamp(q).off = q.off
          /\ Clamp(q).len = UINT64_MAX - q.off
        BY <2>3, <2>5, <1>1, <1>2
    <2>7. QED
        BY <2>4, <2>5, <2>6, <1>1, <1>2 DEF FitReq
<1>5. QED
    BY <1>1, <1>2, <1>3, <1>4

(* The range that a writer asks for ends by the last offset too.           *)
LEMMA CallbackFits ==
    ASSUME RlInv, NEW t, NEW q, FitReq(q)
    PROVE  /\ Callback(t, q) \in Ranges /\ Callback(t, q).len > 0
           /\ End(Callback(t, q)) <= UINT64_MAX
<1> DEFINE off == IF q.op = "append" THEN z_size ELSE q.off
<1>1. /\ UINT64_MAX \in Nat /\ MAXOFFSET_T \in Nat /\ UINT64_MAX > 0
      /\ 2 * MAXOFFSET_T <= UINT64_MAX
    BY RangeAssumption
<1>2. off \in Nat /\ q.len \in Nat /\ q.len > 0 /\ off + q.len <= UINT64_MAX
    BY <1>1 DEF RlInv, RlTypes, FitReq
<1>3. \/ Callback(t, q) = [off |-> 0, len |-> UINT64_MAX]
      \/ Callback(t, q) = [off |-> off, len |-> q.len]
    BY DEF Callback
<1> HIDE DEF off
<1>4. QED
    BY <1>1, <1>2, <1>3 DEF Ranges, End

-----------------------------------------------------------------------------
(* A thread that goes to sleep.                                            *)
LEMMA WaitStep ==
    ASSUME RlInv, NEW t \in Threads, st[t] \in {"idle", "wait"},
           NEW q, FitReq(q), req' = [req EXCEPT ![t] = q],
           NEW n \in rl_tree, NEW r \in Ranges, NEW reader,
           WaitFor(t, n, r, reader)
    PROVE  RlInv'
<1>1. /\ lr' = [lr EXCEPT ![t] = r] /\ st' = [st EXCEPT ![t] = "wait"]
      /\ pend' = pend /\ z_size' = z_size
    BY DEF WaitFor
<1>2. RlTypes'
    BY <1>1 DEF RlInv, RlTypes, FitReq
<1>3. ReqsFit'
    BY <1>1 DEF RlInv, RlTypes, ReqsFit
<1>4. Holding' = Holding /\ t \notin Holding
    BY <1>1 DEF Holding, RlInv, RlTypes
<1>5. Exact(rl_tree, Holding, lr', Writing')
    <2>1. \A u \in Holding : lr'[u] = lr[u] /\ (u \in Writing' <=> u \in Writing)
        BY <1>1, <1>4 DEF RlInv, RlTypes, Writing, Holding
    <2>2. Exact(rl_tree, Holding, lr, Writing)
        BY DEF RlInv, TreeExact
    <2>3. QED
        BY <2>1, <2>2, Agree
<1>6. PICK n2 \in Nodes : SameNode(n2, n) /\ rl_tree' = (rl_tree \ {n}) \cup {n2}
    <2> DEFINE n2 == IF reader
          THEN [n EXCEPT !.lr_read_wanted = TRUE, !.lr_read_cv = @ \cup {t}]
          ELSE [n EXCEPT !.lr_write_wanted = TRUE, !.lr_write_cv = @ \cup {t}]
    <2>1. rl_tree' = (rl_tree \ {n}) \cup {n2}
        BY DEF WaitFor
    <2>2. n \in Nodes
        BY DEF RlInv, TreeExact, Exact, Apart
    <2>3. n2 \in Nodes /\ SameNode(n2, n)
        BY <2>2 DEF Nodes, SameNode
    <2>4. QED
        BY <2>1, <2>3
<1>7. Exact(rl_tree', Holding, lr', Writing')
    BY <1>5, <1>6, Relabel
<1>8. QED
    BY <1>2, <1>3, <1>4, <1>7 DEF RlInv, TreeExact

(* A thread that is granted range r, whatever becomes of the tree.         *)
LEMMA GrantFrame ==
    ASSUME RlInv, NEW t \in Threads, st[t] \in {"idle", "wait"},
           NEW q, FitReq(q), req' = [req EXCEPT ![t] = q],
           NEW r \in Ranges, NEW tree, Grant(t, r, tree)
    PROVE  /\ RlTypes' /\ ReqsFit' /\ rl_tree' = tree
           /\ Holding' = Holding \cup {t} /\ t \notin Holding
           /\ lr'[t] = r /\ (t \in Writing' <=> q.op # "read")
           /\ Exact(rl_tree, Holding, lr', Writing')
<1>1. /\ lr' = [lr EXCEPT ![t] = r] /\ st' = [st EXCEPT ![t] = "held"]
      /\ pend' = pend /\ z_size' = z_size /\ rl_tree' = tree
    BY DEF Grant
<1>2. RlTypes'
    BY <1>1 DEF RlInv, RlTypes, FitReq
<1>3. ReqsFit'
    BY <1>1 DEF RlInv, RlTypes, ReqsFit
<1>4. Holding' = Holding \cup {t} /\ t \notin Holding
    BY <1>1 DEF Holding, RlInv, RlTypes
<1>5. lr'[t] = r /\ (t \in Writing' <=> q.op # "read")
    BY <1>1 DEF RlInv, RlTypes, Writing
<1>6. Exact(rl_tree, Holding, lr', Writing')
    <2>1. \A u \in Holding : lr'[u] = lr[u] /\ (u \in Writing' <=> u \in Writing)
        BY <1>1, <1>4 DEF RlInv, RlTypes, Writing, Holding
    <2>2. Exact(rl_tree, Holding, lr, Writing)
        BY DEF RlInv, TreeExact
    <2>3. QED
        BY <2>1, <2>2, Agree
<1>7. QED
    BY <1>1, <1>2, <1>3, <1>4, <1>5, <1>6

(* A node that holds a writer back is one of the tree.                     *)
LEMMA BlockersInTree ==
    ASSUME NEW r
    PROVE  ReaderBlockers(r) \subseteq rl_tree /\ WriterBlockers(r) \subseteq rl_tree
BY DEF ReaderBlockers, WriterBlockers, First

LEMMA EnterReaderStep ==
    ASSUME RlInv, NEW t \in Threads, st[t] \in {"idle", "wait"},
           NEW q, FitReq(q), q.op = "read", req' = [req EXCEPT ![t] = q],
           EnterReader(t, q)
    PROVE  RlInv'
<1> DEFINE r == [off |-> q.off, len |-> q.len]
<1>1. r \in Ranges /\ r.len > 0 /\ End(r) <= UINT64_MAX
    BY DEF FitReq, Ranges, End
<1>2. \/ ReaderBlockers(r) = {} /\ Grant(t, r, AddReader(t, r))
      \/ \E n \in ReaderBlockers(r) : WaitFor(t, n, r, TRUE)
    BY DEF EnterReader
<1> HIDE DEF r
<1>3. ASSUME NEW n \in ReaderBlockers(r), WaitFor(t, n, r, TRUE)
      PROVE  RlInv'
    BY <1>1, <1>3, BlockersInTree, WaitStep
<1>4. CASE ReaderBlockers(r) = {} /\ Grant(t, r, AddReader(t, r))
    <2>1. /\ RlTypes' /\ ReqsFit' /\ rl_tree' = AddReader(t, r)
          /\ Holding' = Holding \cup {t} /\ t \notin Holding
          /\ lr'[t] = r /\ t \notin Writing'
          /\ Exact(rl_tree, Holding, lr', Writing')
        BY <1>1, <1>4, GrantFrame
    <2>2. rl_tree \subseteq Nodes
        BY DEF RlInv, TreeExact, Exact, Apart
    <2>3. \A n \in rl_tree : Overlaps(n, r) => n.type # "writer"
        <3>1. {n \in rl_tree :
                 Overlaps(n, r) /\ (n.type = "writer" \/ n.lr_write_wanted)} = {}
            BY <1>4, <2>2, FirstExists DEF ReaderBlockers
        <3>2. QED
            BY <3>1
    <2>4. ReadersAt(rl_tree, r)
        <3>1. \A n \in rl_tree : n.owner # NULL => n.count = 1
            <4>1. \A n \in rl_tree : n.owner # NULL => Holders(n, Holding, lr) = {n.owner}
                BY DEF RlInv, TreeExact, Exact, Owned
            <4>2. \A n \in rl_tree : n.count = Cardinality(Holders(n, Holding, lr))
                BY DEF RlInv, TreeExact, Exact, Counts
            <4>3. QED
                BY <4>1, <4>2, FS_Singleton
        <3>2. \A n \in rl_tree : n.type \in {"reader", "writer"}
            BY <2>2 DEF Nodes
        <3>3. QED
            BY <2>3, <3>1, <3>2 DEF ReadersAt
    <2>5. Apart(rl_tree)
        BY DEF RlInv, TreeExact, Exact
    <2>6. CASE Over(rl_tree, r) = {}
        <3>1. Prev(rl_tree, r) = {}
            <4>1. SUFFICES ASSUME NEW n \in Prev(rl_tree, r) PROVE FALSE
                OBVIOUS
            <4>2. n \in rl_tree /\ n \in Nodes /\ n.off < r.off /\ r.off < End(n)
                BY <2>2 DEF Prev
            <4>3. r.off \in Nat /\ r.len \in Nat
                BY <1>1 DEF Ranges
            <4>4. n.off <= r.off
                BY <4>2, <4>3 DEF Nodes
            <4>5. PICK m \in Cut(rl_tree, r) : m.off <= r.off /\ r.off < End(m)
                BY <4>2, <4>3, <4>4, <1>1, <2>4, <2>5, CutParts
            <4>6. Overlaps(m, r)
                <5>1. m.off \in Nat /\ m.len \in Nat
                    <6>1. Apart(Cut(rl_tree, r))
                        BY <1>1, <2>4, <2>5, CutParts
                    <6>2. QED
                        BY <6>1 DEF Apart, Nodes
                <5>2. r.off < End(r)
                    BY <1>1, <4>3 DEF End
                <5>3. QED
                    BY <4>3, <4>5, <5>1, <5>2, ShareByte
            <4>7. QED
                BY <4>6, <2>6 DEF Over
        <3>2. Cut(rl_tree, r) = rl_tree
            BY <3>1 DEF Cut
        <3> DEFINE n == Node(r.off, r.len, "reader", 1, t)
        <3>3. AddReader(t, r) = rl_tree \cup {n}
            <4>1. AddReader(t, r) = Cut(rl_tree, r) \cup {n}
                BY <2>6 DEF AddReader, Cut, Prev, Over
            <4>2. QED
                BY <3>2, <4>1
        <3>4. /\ n \in Nodes /\ n.off = r.off /\ n.len = r.len /\ n.count = 1
              /\ n.owner = t /\ n.type = "reader"
            BY <1>1 DEF Node, Nodes, Ranges
        <3> HIDE DEF n
        <3>5. \A m \in rl_tree : ~Overlaps(m, n)
            BY <2>6, <3>2, <3>4 DEF Over, Overlaps, End
        <3>6. Exact(rl_tree \cup {n}, Holding \cup {t}, lr', Writing')
            BY <1>1, <2>1, <3>4, <3>5, AddOwn
        <3>7. QED
            BY <2>1, <3>3, <3>6 DEF RlInv, TreeExact
    <2>7. CASE Over(rl_tree, r) # {}
        <3>1. AddReader(t, r) = Grown(rl_tree, r)
            BY <2>7 DEF AddReader, Cut, Prev, Over, Grown
        <3>2. Exact(Grown(rl_tree, r), Holding \cup {t}, lr', Writing')
            BY <1>1, <2>1, <2>4, GrownExact
        <3>3. QED
            BY <2>1, <3>1, <3>2 DEF RlInv, TreeExact
    <2>8. QED
        BY <2>6, <2>7
<1>5. QED
    BY <1>2, <1>3, <1>4

LEMMA EnterWriterStep ==
    ASSUME RlInv, NEW t \in Threads, st[t] \in {"idle", "wait"},
           NEW q, FitReq(q), q.op # "read", req' = [req EXCEPT ![t] = q],
           EnterWriter(t, q)
    PROVE  RlInv'
<1> DEFINE r == Callback(t, q)
           n == Node(r.off, r.len, "writer", 1, t)
<1>1. r \in Ranges /\ r.len > 0 /\ End(r) <= UINT64_MAX
    BY CallbackFits
<1>2. \/ WriterBlockers(r) = {} /\ Grant(t, r, rl_tree \cup {n})
      \/ \E m \in WriterBlockers(r) : WaitFor(t, m, r, FALSE)
    BY DEF EnterWriter
<1> HIDE DEF r
<1>3. ASSUME NEW m \in WriterBlockers(r), WaitFor(t, m, r, FALSE)
      PROVE  RlInv'
    BY <1>1, <1>3, BlockersInTree, WaitStep
<1>4. CASE WriterBlockers(r) = {} /\ Grant(t, r, rl_tree \cup {n})
    <2>1. /\ RlTypes' /\ ReqsFit' /\ rl_tree' = rl_tree \cup {n}
          /\ Holding' = Holding \cup {t} /\ t \notin Holding
          /\ lr'[t] = r /\ t \in Writing'
          /\ Exact(rl_tree, Holding, lr', Writing')
        BY <1>1, <1>4, GrantFrame
    <2>2. /\ n \in Nodes /\ n.off = r.off /\ n.len = r.len /\ n.count = 1
          /\ n.owner = t /\ n.type = "writer"
        BY <1>1 DEF Node, Nodes, Ranges
    <2> HIDE DEF n
    <2>3. {m \in rl_tree : Overlaps(m, r)} = {}
        BY <1>4 DEF WriterBlockers
    <2>4. \A m \in rl_tree : ~Overlaps(m, n)
        BY <2>2, <2>3 DEF Overlaps, End
    <2>5. Exact(rl_tree \cup {n}, Holding \cup {t}, lr', Writing')
        BY <1>1, <2>1, <2>2, <2>4, AddOwn
    <2>6. QED
        BY <2>1, <2>5 DEF RlInv, TreeExact
<1>5. QED
    BY <1>2, <1>3, <1>4

LEMMA EnterStep ==
    ASSUME RlInv, NEW t \in Threads,
           (\E q \in Reqs : RangelockEnter(t, q)) \/ EnterAgain(t)
    PROVE  RlInv'
<1>1. ASSUME NEW q \in Reqs, RangelockEnter(t, q) PROVE RlInv'
    <2>1. /\ st[t] = "idle" /\ req' = [req EXCEPT ![t] = Clamp(q)]
          /\ Enter(t, Clamp(q)) /\ FitReq(Clamp(q))
        BY <1>1, ClampFits DEF RangelockEnter
    <2>2. QED
        BY <2>1, EnterReaderStep, EnterWriterStep DEF Enter
<1>2. CASE EnterAgain(t)
    <2>1. /\ st[t] = "wait" /\ req' = req /\ Enter(t, req[t])
        BY <1>2 DEF EnterAgain
    <2>2. FitReq(req[t]) /\ req' = [req EXCEPT ![t] = req[t]]
        BY <2>1 DEF RlInv, ReqsFit, RlTypes
    <2>3. QED
        BY <2>1, <2>2, EnterReaderStep, EnterWriterStep DEF Enter
<1>3. QED
    BY <1>1, <1>2

(* rangelock_reduce: the thread that shrinks its range is alone.           *)
LEMMA ReduceStep ==
    ASSUME RlInv, NEW t \in Threads, RangelockReduce(t)
    PROVE  RlInv' /\ Holding = {t}
<1>1. /\ st[t] = "held" /\ req[t].op \in {"write", "append"}
      /\ lr[t].len = UINT64_MAX /\ Woff(t) < MAXOFFSET_T
      /\ lr' = [lr EXCEPT ![t] = Reduced(t)]
      /\ st' = [st EXCEPT ![t] = "wake"]
      /\ req' = req /\ pend' = pend /\ z_size' = z_size
    BY DEF RangelockReduce, BelowLimit
<1>2. rl_tree' = {IF n.owner = t
                   THEN [n EXCEPT !.off = Reduced(t).off,
                                  !.len = Reduced(t).len]
                   ELSE n : n \in rl_tree}
    BY DEF RangelockReduce
<1>3. t \in Holding /\ t \in Writing /\ pend[t] = {}
    BY <1>1 DEF Holding, Writing, RlInv, ReqsFit
<1>4. Exact(rl_tree, Holding, lr, Writing)
    BY DEF RlInv, TreeExact
<1>5. Holding = {t} /\ \E n \in rl_tree : n.owner = t /\ rl_tree = {n}
    BY <1>1, <1>3, <1>4, WholeAlone
<1>6. PICK n \in rl_tree : n.owner = t /\ rl_tree = {n}
    BY <1>5
<1>7. /\ UINT64_MAX \in Nat /\ MAXOFFSET_T \in Nat /\ MAXOFFSET_T <= UINT64_MAX
    BY RangeAssumption
<1>8. FitReq(req[t])
    BY <1>1 DEF RlInv, ReqsFit
<1>9. /\ Reduced(t) \in Ranges /\ Reduced(t).len > 0
      /\ End(Reduced(t)) <= UINT64_MAX
    <2>1. Woff(t) \in Nat
        BY <1>1, <1>8 DEF Woff, FitReq, RlInv, RlTypes, Ranges
    <2>2. req[t].len \in Nat /\ req[t].len > 0
        BY <1>8 DEF FitReq
    <2>3. Wend(t) \in Nat /\ Wend(t) > Woff(t) /\ Wend(t) <= MAXOFFSET_T
        BY <1>1, <1>7, <2>1, <2>2 DEF Wend, MinOf
    <2>4. QED
        BY <1>7, <2>1, <2>3 DEF Reduced, Ranges, End
<1> DEFINE n2 == [n EXCEPT !.off = Reduced(t).off, !.len = Reduced(t).len]
<1>10. n \in Nodes /\ n.count = 1 /\ n.type = "writer"
    <2>1. n \in Nodes
        BY <1>4 DEF Exact, Apart
    <2>2. t # NULL
        BY RangeAssumption
    <2>3. Holders(n, Holding, lr) = {t}
        BY <1>4, <1>6, <2>2 DEF Exact, Owned
    <2>4. n.count = Cardinality(Holders(n, Holding, lr))
        BY <1>4 DEF Exact, Counts
    <2>5. n.type = "writer"
        BY <1>3, <1>4, <1>6, <2>2 DEF Exact, Owned
    <2>6. QED
        BY <2>1, <2>3, <2>4, <2>5, FS_Singleton
<1>11. /\ n2 \in Nodes /\ n2.off = Reduced(t).off /\ n2.len = Reduced(t).len
       /\ n2.count = 1 /\ n2.owner = t /\ n2.type = "writer"
    BY <1>6, <1>9, <1>10 DEF Nodes, Ranges
<1>12. rl_tree' = {n2}
    BY <1>2, <1>6
<1> HIDE DEF n2
<1>13. Holding' = {t} /\ lr'[t] = Reduced(t) /\ Writing' = Writing
    BY <1>1, <1>3, <1>5 DEF RlInv, RlTypes, Holding, Writing
<1>14. Exact({}, {}, lr', Writing)
    BY EmptyExact
<1>15. Exact({} \cup {n2}, {} \cup {t}, lr', Writing)
    BY <1>3, <1>9, <1>11, <1>13, <1>14, AddOwn
<1>16. TreeExact'
    BY <1>12, <1>13, <1>15 DEF TreeExact
<1>17. RlTypes'
    BY <1>1, <1>9 DEF RlInv, RlTypes
<1>18. ReqsFit'
    BY <1>1, <1>3 DEF RlInv, RlTypes, ReqsFit
<1>19. QED
    BY <1>5, <1>16, <1>17, <1>18 DEF RlInv

LEMMA ReduceWakeStep ==
    ASSUME RlInv, NEW t \in Threads, ReduceWake(t)
    PROVE  RlInv'
<1>1. /\ st[t] = "wake" /\ pend[t] = {} /\ st' = [st EXCEPT ![t] = "held"]
      /\ req' = req /\ pend' = pend /\ z_size' = z_size /\ lr' = lr
    BY DEF ReduceWake
<1>2. PICK n \in rl_tree : rl_tree' = (rl_tree \ {n}) \cup
              {[n EXCEPT !.lr_write_cv = {}, !.lr_read_cv = {}]}
    BY DEF ReduceWake
<1> DEFINE n2 == [n EXCEPT !.lr_write_cv = {}, !.lr_read_cv = {}]
<1>3. Exact(rl_tree, Holding, lr, Writing)
    BY DEF RlInv, TreeExact
<1>4. n2 \in Nodes /\ SameNode(n2, n)
    BY <1>3 DEF Exact, Apart, Nodes, SameNode
<1> HIDE DEF n2
<1>5. Exact((rl_tree \ {n}) \cup {n2}, Holding, lr, Writing)
    BY <1>3, <1>4, Relabel
<1>6. Holding' = Holding /\ Writing' = Writing
    BY <1>1 DEF RlInv, RlTypes, Holding, Writing
<1>7. TreeExact'
    BY <1>1, <1>2, <1>5, <1>6 DEF TreeExact, n2
<1>8. RlTypes' /\ ReqsFit'
    BY <1>1 DEF RlInv, RlTypes, ReqsFit
<1>9. QED
    BY <1>7, <1>8 DEF RlInv

LEMMA SetSizeStep ==
    ASSUME RlInv, NEW t \in Threads, SetSize(t)
    PROVE  RlInv'
<1>1. /\ st[t] = "held" /\ st' = [st EXCEPT ![t] = "done"]
      /\ rl_tree' = rl_tree /\ req' = req /\ pend' = pend /\ lr' = lr
    BY DEF SetSize
<1>2. MAXOFFSET_T \in Nat /\ UINT64_MAX \in Nat
    BY RangeAssumption
<1>3. z_size' \in 0 .. MAXOFFSET_T
    <2>1. z_size \in Nat /\ z_size <= MAXOFFSET_T
        BY <1>2 DEF RlInv, RlTypes
    <2>2. CASE /\ Woff(t) < MAXOFFSET_T /\ req[t].op \in {"write", "append"}
               /\ z_size' = MaxOf(z_size, Wend(t))
        <3>1. FitReq(req[t])
            BY <1>1 DEF RlInv, ReqsFit
        <3>2. Woff(t) \in Nat /\ req[t].len \in Nat
            BY <3>1 DEF Woff, FitReq, RlInv, RlTypes, Ranges
        <3>3. Wend(t) \in Nat /\ Wend(t) <= MAXOFFSET_T
            BY <1>2, <3>2 DEF Wend, MinOf
        <3>4. QED
            BY <1>2, <2>1, <2>2, <3>3 DEF MaxOf
    <2>3. CASE \E end \in 0 .. UINT64_MAX : end < z_size /\ z_size' = end
        BY <1>2, <2>1, <2>3
    <2>4. QED
        BY <2>2, <2>3 DEF SetSize, BelowLimit
<1>4. Holding' = Holding /\ Writing' = Writing
    BY <1>1 DEF RlInv, RlTypes, Holding, Writing
<1>5. TreeExact'
    BY <1>1, <1>4 DEF RlInv, TreeExact
<1>6. RlTypes' /\ ReqsFit'
    BY <1>1, <1>3 DEF RlInv, RlTypes, ReqsFit
<1>7. QED
    BY <1>5, <1>6 DEF RlInv

LEMMA ExitWriterStep ==
    ASSUME RlInv, NEW t \in Threads, ExitWriter(t) \/ ExitWriterWake(t)
    PROVE  RlInv'
<1>0. Exact(rl_tree, Holding, lr, Writing) /\ rl_tree \subseteq Nodes
    BY DEF RlInv, TreeExact, Exact, Apart
<1>1. CASE ExitWriter(t)
    <2>1. PICK n \in rl_tree : /\ n.owner = t /\ rl_tree' = rl_tree \ {n}
                               /\ pend' = [pend EXCEPT ![t] = {n}]
        BY <1>1 DEF ExitWriter
    <2>2. /\ st[t] \in {"held", "done"} /\ st' = [st EXCEPT ![t] = "wake"]
          /\ req' = req /\ lr' = lr /\ z_size' = z_size
        BY <1>1 DEF ExitWriter
    <2>3. Holding' = Holding \ {t} /\ Writing' = Writing
        BY <2>1, <2>2 DEF RlInv, RlTypes, Holding, Writing
    <2>4. t # NULL
        BY RangeAssumption
    <2>5. Exact(rl_tree \ {n}, Holding \ {t}, lr, Writing)
        BY <1>0, <2>1, <2>4, DropOwn
    <2>6. TreeExact'
        BY <2>1, <2>2, <2>3, <2>5 DEF TreeExact
    <2>7. RlTypes' /\ ReqsFit'
        BY <1>0, <2>1, <2>2 DEF RlInv, RlTypes, ReqsFit
    <2>8. QED
        BY <2>6, <2>7 DEF RlInv
<1>2. CASE ExitWriterWake(t)
    <2>1. /\ st[t] = "wake" /\ pend[t] # {} /\ pend' = [pend EXCEPT ![t] = {}]
          /\ st' = [st EXCEPT ![t] = "idle"] /\ req' = [req EXCEPT ![t] = NoReq]
          /\ lr' = [lr EXCEPT ![t] = NoRange]
          /\ rl_tree' = rl_tree /\ z_size' = z_size
        BY <1>2 DEF ExitWriterWake, Return
    <2>2. Holding' = Holding /\ t \notin Holding
        BY <2>1 DEF RlInv, RlTypes, Holding
    <2>3. \A u \in Holding : lr'[u] = lr[u] /\ (u \in Writing' <=> u \in Writing)
        BY <2>1, <2>2 DEF RlInv, RlTypes, Writing, Holding
    <2>4. Exact(rl_tree, Holding, lr', Writing')
        BY <1>0, <2>3, Agree
    <2>5. TreeExact'
        BY <2>1, <2>2, <2>4 DEF TreeExact
    <2>6. RlTypes' /\ ReqsFit'
        BY <2>1 DEF RlInv, RlTypes, ReqsFit, NoReq, NoRange, Ranges
    <2>7. QED
        BY <2>5, <2>6 DEF RlInv
<1>3. QED
    BY <1>1, <1>2

(* rangelock_exit_reader finds exactly the nodes that t holds.             *)
LEMMA ExitReaderStep ==
    ASSUME RlInv, NEW t \in Threads, ExitReader(t)
    PROVE  RlInv'
<1> DEFINE S == {n \in rl_tree : Overlaps(n, lr[t])}
<1>0. Exact(rl_tree, Holding, lr, Writing)
    BY DEF RlInv, TreeExact
<1>1. /\ st[t] = "held" /\ req[t].op = "read"
      /\ st' = [st EXCEPT ![t] = "idle"] /\ req' = [req EXCEPT ![t] = NoReq]
      /\ lr' = [lr EXCEPT ![t] = NoRange] /\ pend' = pend /\ z_size' = z_size
    BY DEF ExitReader, Return
<1>2. t \in Holding /\ t \notin Writing
    BY <1>1 DEF Holding, Writing
<1>3. HandleNodes(t) = S
    <2>1. lr[t].off \in Nat /\ lr[t].len \in Nat
        BY DEF RlInv, RlTypes, Ranges
    <2>2. ASSUME NEW n \in rl_tree
          PROVE  /\ n.off \in Nat /\ n.len \in Nat /\ n.len > 0
                 /\ Overlaps(n, lr[t]) => lr[t].off <= n.off
        BY <1>0, <1>2 DEF Exact, Apart, Nodes, Counts
    <2>3. ASSUME NEW n \in rl_tree
          PROVE  (lr[t].off <= n.off /\ n.off < End(lr[t])) <=> Overlaps(n, lr[t])
        BY <2>1, <2>2 DEF Overlaps, End
    <2>4. QED
        BY <2>3 DEF HandleNodes
<1>4. rl_tree' = Without(rl_tree, S)
    <2>1. rl_tree' = (rl_tree \ HandleNodes(t)) \cup
             {[n EXCEPT !.count = @ - 1] :
               n \in HandleNodes(t) \ {n \in HandleNodes(t) : n.count = 1}}
        BY DEF ExitReader
    <2> HIDE DEF S
    <2>2. S \ {n \in S : n.count = 1} = {m \in S : m.count # 1}
        OBVIOUS
    <2>3. QED
        BY <1>3, <2>1, <2>2 DEF Without
<1>5. Exact(rl_tree', Holding \ {t}, lr, Writing)
    BY <1>0, <1>2, <1>4, DropReader
<1>6. Holding' = Holding \ {t}
    BY <1>1 DEF RlInv, RlTypes, Holding, ReqsFit
<1>7. \A u \in Holding \ {t} : lr'[u] = lr[u] /\ (u \in Writing' <=> u \in Writing)
    BY <1>1 DEF RlInv, RlTypes, Writing, Holding
<1>8. Exact(rl_tree', Holding \ {t}, lr', Writing')
    BY <1>5, <1>7, Agree
<1>9. TreeExact'
    BY <1>6, <1>8 DEF TreeExact
<1>10. RlTypes' /\ ReqsFit'
    BY <1>1 DEF RlInv, RlTypes, ReqsFit, NoReq, NoRange, Ranges
<1>11. QED
    BY <1>9, <1>10 DEF RlInv

-----------------------------------------------------------------------------
LEMMA RlInitInv == RlInit => RlInv
<1> SUFFICES ASSUME RlInit PROVE RlInv
    OBVIOUS
<1>1. /\ rl_tree = {} /\ st = [t \in Threads |-> "idle"]
      /\ req = [t \in Threads |-> NoReq] /\ lr = [t \in Threads |-> NoRange]
      /\ pend = [t \in Threads |-> {}] /\ z_size = 0 /\ MAXOFFSET_T \in Nat
    BY RangeAssumption DEF RlInit
<1>2. RlTypes /\ ReqsFit
    BY <1>1 DEF RlTypes, ReqsFit, NoReq, NoRange, Ranges
<1>3. Holding = {}
    BY <1>1 DEF Holding
<1>4. TreeExact
    BY <1>1, <1>3, EmptyExact DEF TreeExact
<1>5. QED
    BY <1>2, <1>4 DEF RlInv

LEMMA RlStepInv ==
    ASSUME RlInv, [RlNext]_rlVars
    PROVE  RlInv'
<1>1. CASE UNCHANGED rlVars
    BY <1>1 DEF rlVars, RlInv, RlTypes, ReqsFit, TreeExact, Holding, Writing
<1>2. ASSUME NEW t \in Threads,
             \/ \E q \in Reqs : RangelockEnter(t, q)
             \/ Run(t) \/ RangelockReduce(t) \/ SetSize(t) \/ RangelockExit(t)
      PROVE  RlInv'
    BY <1>2, EnterStep, ReduceStep, ReduceWakeStep, SetSizeStep,
       ExitWriterStep, ExitReaderStep DEF Run, RangelockExit
<1>3. QED
    BY <1>1, <1>2 DEF RlNext

LEMMA RlInvariance == RlSpec => []RlInv
<1>1. RlInv /\ [RlNext]_rlVars => RlInv'
    BY RlStepInv
<1>2. QED
    BY RlInitInv, <1>1, PTL DEF RlSpec

(* Whatever was split and merged before, the nodes of the tree are         *)
(* disjoint, count their holders and make up every held range, so that     *)
(* rangelock_exit_reader finds what its caller holds.                      *)
THEOREM NodesSafe == RlSpec => []NodesExact
<1>1. RlInv => NodesExact
    <2> SUFFICES ASSUME RlInv PROVE NodesExact
        OBVIOUS
    <2>1. Apart(rl_tree) /\ Counts(rl_tree, Holding, lr)
        BY DEF RlInv, TreeExact, Exact
    <2>2. \A n \in rl_tree : n.len > 0 /\ n.off + n.len <= UINT64_MAX
        BY <2>1 DEF Apart, End
    <2>3. \A m, n \in rl_tree : m # n => ~Overlaps(m, n)
        BY <2>1 DEF Apart
    <2>4. \A n \in rl_tree :
            n.count = Cardinality({t \in Holding : Overlaps(n, lr[t])})
        BY <2>1 DEF Counts, Holders
    <2>5. QED
        BY <2>1, <2>2, <2>3, <2>4 DEF NodesExact, Counts
<1>2. QED
    BY RlInvariance, <1>1, PTL

(* Two threads hold overlapping ranges of a file only when both read: the  *)
(* range locks exclude as rangelock_enter promises, for any ranges.        *)
THEOREM ExclusiveSafe == RlSpec => []RangesExclusive
<1>1. RlInv => RangesExclusive
    <2> SUFFICES ASSUME RlInv, NEW t \in Holding, NEW u \in Holding, t # u,
                        Overlaps(lr[t], lr[u])
                 PROVE  req[t].op = "read" /\ req[u].op = "read"
        BY DEF RangesExclusive
    <2>1. Exact(rl_tree, Holding, lr, Writing)
        BY DEF RlInv, TreeExact
    <2>2. Overlaps(lr[u], lr[t])
        BY DEF Overlaps
    <2>3. t \notin Writing /\ u \notin Writing
        BY <2>1, <2>2, WriterAlone
    <2>4. QED
        BY <2>3 DEF Writing, Holding
<1>2. QED
    BY RlInvariance, <1>1, PTL

(* The step that grows the block size is one of the only thread in the     *)
(* file, the size stays put under a lock of the whole file, and an append  *)
(* is granted its lock at the end that the file has at that moment.        *)
THEOREM FileSafe == RlSpec => FileUnderLock
<1> DEFINE A == /\ z_blksz' # z_blksz => Cardinality(Holding) = 1
                /\ z_size' # z_size =>
                     \A t \in Holding : lr[t].len = UINT64_MAX => st'[t] # st[t]
                /\ \A t \in Threads :
                     st[t] # "held" /\ st'[t] = "held" /\ req'[t].op = "append"
                     /\ st[t] # "wake" /\ lr'[t].len # UINT64_MAX
                     => lr'[t].off = z_size
<1>1. ASSUME RlInv, RlNext PROVE A
    <2>1. PICK t \in Threads :
             \/ \E q \in Reqs : RangelockEnter(t, q)
             \/ Run(t) \/ RangelockReduce(t) \/ SetSize(t) \/ RangelockExit(t)
        BY <1>1 DEF RlNext
    <2>2. /\ Exact(rl_tree, Holding, lr, Writing)
          /\ st \in [Threads -> {"idle", "wait", "held", "wake", "done"}]
          /\ req \in [Threads -> [op : Ops \cup {"none"}, off : Nat, len : Nat]]
          /\ lr \in [Threads -> Ranges]
        BY <1>1 DEF RlInv, TreeExact, RlTypes
    <2>3. ASSUME NEW q, Enter(t, q), req' = [req EXCEPT ![t] = q],
                 st[t] \in {"idle", "wait"}
          PROVE  A
        <3>1. z_blksz' = z_blksz /\ z_size' = z_size
            BY <2>3 DEF Enter, EnterReader, EnterWriter, Grant, WaitFor
        <3>2. \A u \in Threads : u # t => st'[u] = st[u]
            BY <2>2, <2>3 DEF Enter, EnterReader, EnterWriter, Grant, WaitFor
        <3>3. ASSUME st'[t] = "held", q.op = "append", lr'[t].len # UINT64_MAX
              PROVE  lr'[t].off = z_size
            <4>1. EnterWriter(t, q)
                BY <2>3, <3>3 DEF Enter
            <4>2. lr' = [lr EXCEPT ![t] = Callback(t, q)]
                BY <4>1 DEF EnterWriter, Grant, WaitFor
            <4>3. lr'[t] = Callback(t, q)
                BY <2>2, <4>2
            <4>4. \/ Callback(t, q) = [off |-> 0, len |-> UINT64_MAX]
                  \/ Callback(t, q) = [off |-> z_size, len |-> q.len]
                BY <3>3 DEF Callback
            <4>5. QED
                BY <3>3, <4>3, <4>4
        <3>4. req'[t] = q
            BY <2>2, <2>3
        <3>5. QED
            BY <3>1, <3>2, <3>3, <3>4
    <2>4. ASSUME NEW q \in Reqs, RangelockEnter(t, q) PROVE A
        BY <2>3, <2>4 DEF RangelockEnter
    <2>5. CASE EnterAgain(t)
        <3>1. req' = [req EXCEPT ![t] = req[t]]
            BY <2>2, <2>5 DEF EnterAgain
        <3>2. QED
            BY <2>3, <2>5, <3>1 DEF EnterAgain
    <2>6. CASE ReduceWake(t) \/ ExitWriterWake(t) \/ RangelockExit(t)
        BY <2>2, <2>6
           DEF ReduceWake, ExitWriterWake, RangelockExit, ExitWriter, ExitReader,
               Return
    <2>7. CASE RangelockReduce(t)
        <3>1. Holding = {t}
            BY <1>1, <2>7, ReduceStep
        <3>2. Cardinality(Holding) = 1
            BY <3>1, FS_Singleton
        <3>3. QED
            BY <2>2, <2>7, <3>2 DEF RangelockReduce
    <2>8. CASE SetSize(t)
        <3>1. /\ st[t] = "held" /\ st' = [st EXCEPT ![t] = "done"]
              /\ req[t].op \in {"write", "append", "trunc"}
              /\ z_blksz' = z_blksz
            BY <2>8 DEF SetSize
        <3>2. t \in Holding /\ t \in Writing
            BY <3>1 DEF Holding, Writing
        <3>3. ASSUME NEW u \in Holding, lr[u].len = UINT64_MAX
              PROVE  u = t
            <4>1. Overlaps(lr[t], lr[u])
                BY <2>2, <3>2, <3>3, WholeOverlaps DEF Exact
            <4>2. QED
                BY <2>2, <3>2, <4>1, WriterAlone
        <3>4. st'[t] = "done"
            BY <2>2, <3>1
        <3>5. \A u \in Threads : st'[u] = "held" => st[u] = "held"
            BY <2>2, <3>1
        <3>6. QED
            BY <3>1, <3>3, <3>4, <3>5
    <2>9. QED
        BY <2>1, <2>4, <2>5, <2>6, <2>7, <2>8 DEF Run
<1>2. RlInv /\ [RlNext]_rlVars => [A]_rlVars
    BY <1>1
<1>3. QED
    BY RlInvariance, <1>2, PTL DEF RlSpec, FileUnderLock
=============================================================================
