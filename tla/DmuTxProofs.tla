---------------------------- MODULE DmuTxProofs ----------------------------
(***************************************************************************)
(* Proofs about DmuTx for any threads, dnodes, hold lists, space, limits   *)
(* and bounds: the assertions on the group of a dnode, the accounts of     *)
(* dirty data and reservations, the quota, and the chain of wakeups of the *)
(* write throttle.                                                         *)
(***************************************************************************)
EXTENDS DmuTx, TLAPS, FiniteSetTheorems, WellFoundedInduction

TxRec == [txg : Nat, held : Nat, gone : Nat, lasttried : Nat,
          needassign : Dnodes \cup {NoTx}, wait_dirty : BOOLEAN,
          delayed : BOOLEAN, err : {"0", "EIO", "ERESTART", "EDQUOT"},
          until : Nat]

Pcs == {"top", "assign", "open", "holds", "unhold", "wait", "space_sleep",
        "dnode", "dnode_sleep", "synced", "assigned", "locked", "commit",
        "rele", "done"}

TxTypes == pc \in [Txs -> Pcs] /\ tx \in [Txs -> TxRec]

(* Where a transaction is assigned to a group and may hold dnodes.         *)
Holding == {"holds", "unhold", "assigned", "locked", "commit"}

(* Transactions are in the open group or in the one before it, and never   *)
(* in a group that is being synced; one that still takes dnodes keeps the  *)
(* open group from being closed.                                           *)
GroupInv ==
    /\ open \in Nat /\ synced \in Nat /\ synced < open
    /\ spa # "idle" =>
         synced + 1 < open /\ \A t \in Txs : tx[t].txg # synced + 1
    /\ \A t \in Txs :
         /\ tx[t].txg \in {0, open - 1, open}
         /\ tx[t].txg # 0 => tx[t].txg > synced
         /\ pc[t] = "holds" => tx[t].txg = open
         /\ pc[t] \in Holding => tx[t].txg # 0

(* A dnode is assigned to the group of the transactions that hold it, and  *)
(* its count is that of the holds on their lists that are made and not yet *)
(* gone.                                                                   *)
ListOk(t) ==
    /\ tx[t].gone <= tx[t].held /\ tx[t].held <= Len(Holds[t])
    /\ pc[t] \notin Holding => tx[t].gone = tx[t].held

DnodeOk(d) ==
    /\ IsFiniteSet(HoldsOn(d)) /\ dn_tx_holds[d] = Cardinality(HoldsOn(d))
    /\ dn_assigned_txg[d] = 0 <=> HoldsOn(d) = {}
    /\ \A h \in HoldsOn(d) : tx[h[1]].txg = dn_assigned_txg[d]

DnodeInv ==
    /\ dn_assigned_txg \in [Dnodes -> Nat] /\ dn_tx_holds \in [Dnodes -> Nat]
    /\ \A t \in Txs : ListOk(t)
    /\ \A d \in Dnodes : DnodeOk(d)

DInv == TxTypes /\ GroupInv /\ DnodeInv

LEMMA NewTxType ==
  NewTx \in TxRec /\ NewTx.txg = 0 /\ NewTx.held = 0 /\ NewTx.gone = 0
BY DEF NewTx, TxRec, NoTx

(* Where nobody takes or drops a hold, the holds on a dnode are the same.  *)
LEMMA SameHolds ==
  ASSUME NEW d, \A u \in Txs : Kept(u)' = Kept(u)
  PROVE  HoldsOn(d)' = HoldsOn(d)
BY DEF HoldsOn

(* Where t takes the hold p, or drops it.                                  *)
LEMMA HoldsOnTaken ==
  ASSUME NEW t \in Txs, NEW p \in Positions, Kept(t)' = Kept(t) \cup {p},
         p \notin Kept(t), \A u \in Txs : u # t => Kept(u)' = Kept(u)
  PROVE  /\ HoldsOn(Holds[t][p])' = HoldsOn(Holds[t][p]) \cup {<<t, p>>}
         /\ <<t, p>> \notin HoldsOn(Holds[t][p])
         /\ \A c \in Dnodes : c # Holds[t][p] => HoldsOn(c)' = HoldsOn(c)
<1>1. ASSUME NEW c
      PROVE  \A h \in Txs \X Positions :
               h \in HoldsOn(c)' <=>
                 h \in HoldsOn(c) \/ (h = <<t, p>> /\ Holds[t][p] = c)
  <2> TAKE h \in Txs \X Positions
  <2>0. PICK a \in Txs, b \in Positions : h = <<a, b>>
    OBVIOUS
  <2>1. /\ h \in HoldsOn(c) <=> b \in Kept(a) /\ Holds[a][b] = c
        /\ h \in HoldsOn(c)' <=> b \in Kept(a)' /\ Holds[a][b] = c
    BY <2>0 DEF HoldsOn
  <2>2. b \in Kept(a)' <=> b \in Kept(a) \/ (a = t /\ b = p)
    <3>1. CASE a = t
      BY <3>1
    <3>2. CASE a # t
      BY <3>2
    <3> QED BY <3>1, <3>2
  <2>3. h = <<t, p>> <=> a = t /\ b = p
    BY <2>0
  <2>4. CASE a = t /\ b = p
    BY <2>1, <2>2, <2>3, <2>4
  <2>5. CASE ~(a = t /\ b = p)
    <3>1. b \in Kept(a)' <=> b \in Kept(a)
      BY <2>2, <2>5
    <3>2. h # <<t, p>>
      BY <2>3, <2>5
    <3>3. h \in HoldsOn(c)' <=> h \in HoldsOn(c)
      BY <2>1, <3>1
    <3> QED BY <3>2, <3>3
  <2> QED BY <2>4, <2>5
<1>2. \A c : HoldsOn(c) \subseteq Txs \X Positions /\ HoldsOn(c)' \subseteq Txs \X Positions
  BY DEF HoldsOn
<1>3. <<t, p>> \in Txs \X Positions
  OBVIOUS
<1>4. <<t, p>> \notin HoldsOn(Holds[t][p])
  BY DEF HoldsOn
<1>5. HoldsOn(Holds[t][p])' = HoldsOn(Holds[t][p]) \cup {<<t, p>>}
  <2>1. PICK c : c = Holds[t][p]
    OBVIOUS
  <2>2. \A h \in Txs \X Positions :
          h \in HoldsOn(c)' <=> h \in HoldsOn(c) \/ h = <<t, p>>
    BY <1>1, <2>1
  <2>3. /\ HoldsOn(c) \subseteq Txs \X Positions
        /\ HoldsOn(c)' \subseteq Txs \X Positions
    BY <1>2
  <2>4. HoldsOn(c)' = HoldsOn(c) \cup {<<t, p>>}
    BY <1>3, <2>2, <2>3
  <2> QED BY <2>1, <2>4
<1>6. \A c \in Dnodes : c # Holds[t][p] => HoldsOn(c)' = HoldsOn(c)
  <2> TAKE c \in Dnodes
  <2> HAVE c # Holds[t][p]
  <2>1. \A h \in Txs \X Positions : h \in HoldsOn(c)' <=> h \in HoldsOn(c)
    BY <1>1
  <2> QED BY <1>2, <2>1
<1> QED BY <1>4, <1>5, <1>6

LEMMA HoldsOnDropped ==
  ASSUME NEW t \in Txs, NEW p \in Positions, Kept(t) = Kept(t)' \cup {p},
         p \notin Kept(t)', \A u \in Txs : u # t => Kept(u)' = Kept(u)
  PROVE  /\ HoldsOn(Holds[t][p])' = HoldsOn(Holds[t][p]) \ {<<t, p>>}
         /\ <<t, p>> \in HoldsOn(Holds[t][p])
         /\ \A c \in Dnodes : c # Holds[t][p] => HoldsOn(c)' = HoldsOn(c)
<1>1. ASSUME NEW c
      PROVE  \A h \in Txs \X Positions :
               h \in HoldsOn(c)' <=> h \in HoldsOn(c) /\ h # <<t, p>>
  <2> TAKE h \in Txs \X Positions
  <2>0. PICK a \in Txs, b \in Positions : h = <<a, b>>
    OBVIOUS
  <2>1. /\ h \in HoldsOn(c) <=> b \in Kept(a) /\ Holds[a][b] = c
        /\ h \in HoldsOn(c)' <=> b \in Kept(a)' /\ Holds[a][b] = c
    BY <2>0 DEF HoldsOn
  <2>2. b \in Kept(a)' <=> b \in Kept(a) /\ ~(a = t /\ b = p)
    <3>1. CASE a = t
      BY <3>1
    <3>2. CASE a # t
      BY <3>2
    <3> QED BY <3>1, <3>2
  <2>3. h = <<t, p>> <=> a = t /\ b = p
    BY <2>0
  <2> QED BY <2>1, <2>2, <2>3
<1>2. \A c : HoldsOn(c) \subseteq Txs \X Positions /\ HoldsOn(c)' \subseteq Txs \X Positions
  BY DEF HoldsOn
<1>3. <<t, p>> \in HoldsOn(Holds[t][p]) /\ \A c : c # Holds[t][p] => <<t, p>> \notin HoldsOn(c)
  BY DEF HoldsOn
<1>4. HoldsOn(Holds[t][p])' = HoldsOn(Holds[t][p]) \ {<<t, p>>}
  BY <1>1, <1>2
<1>5. \A c \in Dnodes : c # Holds[t][p] => HoldsOn(c)' = HoldsOn(c)
  BY <1>1, <1>2, <1>3
<1> QED BY <1>3, <1>4, <1>5

LEMMA ListType == \A t \in Txs : Len(Holds[t]) \in Nat
BY DmuTxAssumption

LEMMA DInvInit == Init => DInv
<1> SUFFICES ASSUME Init PROVE DInv OBVIOUS
<1>1. NewTx \in TxRec
  BY NewTxType
<1>2. TxTypes
  <2>1. pc \in [Txs -> Pcs]
    BY DEF Init, Pcs
  <2> QED BY <1>1, <2>1 DEF Init, TxTypes
<1>3. \A t \in Txs : /\ tx[t].txg = 0 /\ tx[t].held = 0 /\ tx[t].gone = 0
                     /\ pc[t] \notin Holding
  BY DEF Init, NewTx, Holding
<1>4. GroupInv
  BY <1>3 DEF Init, GroupInv, TXG0, Holding
<1>5. DnodeInv
  <2>1. \A t \in Txs : ListOk(t)
    BY <1>3, ListType DEF ListOk
  <2>2. \A t \in Txs : Kept(t) = {}
    BY <1>3 DEF Kept
  <2>3. \A d \in Dnodes : HoldsOn(d) = {}
    BY <2>2 DEF HoldsOn
  <2>4. \A d \in Dnodes : DnodeOk(d)
    BY <2>3, FS_EmptySet DEF DnodeOk, Init
  <2> QED BY <2>1, <2>4 DEF DnodeInv, Init
<1> QED BY <1>2, <1>4, <1>5 DEF DInv

(* The assertions on dn_assigned_txg follow.                               *)
LEMMA DInvOneGroup == DInv => DnodeOneGroup
<1> SUFFICES ASSUME DInv PROVE DnodeOneGroup OBVIOUS
<1>1. \A t \in Txs : tx[t].txg \in {0} \cup synced + 1 .. open
  <2> TAKE t \in Txs
  <2>1. open \in Nat /\ synced \in Nat /\ synced < open
        /\ tx[t].txg \in {0, open - 1, open} /\ (tx[t].txg # 0 => tx[t].txg > synced)
    BY DEF DInv, GroupInv
  <2> QED BY <2>1
<1>2. ASSUME NEW t \in Txs, pc[t] = "holds", HoldsLeft(t)
      PROVE  dn_assigned_txg[Holds[t][tx[t].held + 1]]
               \in {0, tx[t].txg, tx[t].txg - 1}
  <2> DEFINE d == Holds[t][tx[t].held + 1]
  <2>1. d \in Dnodes
    BY <1>2, DmuTxAssumption DEF DInv, TxTypes, TxRec, HoldsLeft
  <2>2. DnodeOk(d)
    BY <2>1 DEF DInv, DnodeInv
  <2>3. CASE HoldsOn(d) = {}
    BY <2>2, <2>3 DEF DnodeOk
  <2>4. CASE HoldsOn(d) # {}
    <3>1. PICK h \in HoldsOn(d) : tx[h[1]].txg = dn_assigned_txg[d]
      BY <2>2, <2>4 DEF DnodeOk
    <3>2. h[1] \in Txs
      BY DEF HoldsOn
    <3>3. tx[h[1]].txg \in {0, open - 1, open} /\ tx[t].txg = open
      BY <1>2, <3>2 DEF DInv, GroupInv
    <3> QED BY <3>1, <3>3
  <2> QED BY <2>3, <2>4
<1> QED BY <1>1, <1>2 DEF DnodeOneGroup, DInv, DnodeInv, DnodeOk

(* Most steps of a thread leave the groups and the dnodes alone, and only  *)
(* a transaction that holds no dnode leaves its group.                     *)
PlainStep(t) ==
    /\ UNCHANGED <<open, synced, spa, dnodeVars>>
    /\ pc' \in [Txs -> Pcs] /\ tx'[t] \in TxRec
    /\ tx' = [tx EXCEPT ![t] = tx'[t]]
    /\ \A u \in Txs : u # t =>
         pc'[u] = pc[u] \/ (pc[u] = "space_sleep" /\ pc'[u] = "wait")
    /\ tx'[t].held \in {0, tx[t].held}
    /\ \/ tx'[t].held = tx[t].held /\ tx'[t].gone = tx[t].gone
       \/ tx'[t].held = tx'[t].gone /\ tx[t].held = tx[t].gone
    /\ tx'[t].txg = tx[t].txg \/ (tx'[t].txg = 0 /\ tx[t].held = tx[t].gone)
    /\ pc'[t] = "holds" => pc[t] = "holds"
    /\ pc'[t] \in Holding => pc[t] \in Holding /\ tx'[t].txg = tx[t].txg
    /\ pc'[t] \notin Holding => tx'[t].held = tx'[t].gone

LEMMA PlainKeeps ==
  ASSUME DInv, NEW t \in Txs, PlainStep(t)
  PROVE  DInv'
<1>1. TxTypes'
  BY DEF PlainStep, DInv, TxTypes
<1>2. \A u \in Txs : u # t => tx'[u] = tx[u]
  BY DEF PlainStep, DInv, TxTypes
<1>3. \A u \in Txs : u # t => (pc'[u] \in Holding <=> pc[u] \in Holding)
                              /\ (pc'[u] = "holds" <=> pc[u] = "holds")
  BY DEF PlainStep, Holding
<1>4. GroupInv'
  <2>1. open' = open /\ synced' = synced /\ spa' = spa
    BY DEF PlainStep
  <2>2. GroupInv
    BY DEF DInv
  <2>3. tx'[t].txg \in {0, tx[t].txg} /\ (pc'[t] = "holds" => pc[t] = "holds")
        /\ (pc'[t] \in Holding => pc[t] \in Holding /\ tx'[t].txg = tx[t].txg)
        /\ "holds" \in Holding
    BY DEF PlainStep, Holding
  <2>4. \A u \in Txs : tx'[u].txg \in {0, tx[u].txg}
    BY <1>2, <2>3
  <2>5. \A u \in Txs : pc'[u] = "holds" => tx'[u].txg = open
    BY <1>2, <1>3, <2>2, <2>3 DEF GroupInv
  <2>6. \A u \in Txs : pc'[u] \in Holding => tx'[u].txg # 0
    BY <1>2, <1>3, <2>2, <2>3 DEF GroupInv
  <2>7. \A u \in Txs : tx'[u].txg \in {0, open - 1, open}
                         /\ (tx'[u].txg # 0 => tx'[u].txg > synced)
    BY <2>2, <2>4 DEF GroupInv
  <2>8. spa # "idle" => \A u \in Txs : tx'[u].txg # synced + 1
    BY <2>2, <2>4 DEF GroupInv
  <2> QED BY <2>1, <2>2, <2>5, <2>6, <2>7, <2>8 DEF GroupInv
<1>5. DnodeInv'
  <2>0. /\ \A u \in Txs : tx[u] \in TxRec /\ tx'[u] \in TxRec /\ ListOk(u)
        /\ \A d \in Dnodes : DnodeOk(d)
    BY <1>1 DEF DInv, TxTypes, DnodeInv
  <2>1. \A u \in Txs : ListOk(u)'
    <3>1. \A u \in Txs : u # t => ListOk(u)'
      BY <1>2, <1>3, <2>0 DEF ListOk
    <3>2. ListOk(t)'
      BY <2>0, ListType DEF ListOk, PlainStep, TxRec
    <3> QED BY <3>1, <3>2
  <2>2. Kept(t)' = Kept(t) /\ (tx[t].held = tx[t].gone => Kept(t) = {})
    BY <2>0 DEF Kept, PlainStep, TxRec
  <2>3. \A u \in Txs : Kept(u)' = Kept(u)
    BY <1>2, <2>2 DEF Kept
  <2>4. ASSUME NEW d \in Dnodes
        PROVE  DnodeOk(d)'
    <3>1. HoldsOn(d)' = HoldsOn(d)
      BY <2>3, SameHolds
    <3>2. ASSUME NEW h \in HoldsOn(d)
          PROVE  tx'[h[1]].txg = tx[h[1]].txg
      <4>1. h[1] \in Txs /\ Kept(h[1]) # {}
        BY DEF HoldsOn
      <4> QED BY <1>2, <2>2, <4>1 DEF PlainStep
    <3>3. UNCHANGED <<dn_assigned_txg, dn_tx_holds>>
      BY DEF PlainStep, dnodeVars
    <3> QED BY <2>0, <3>1, <3>2, <3>3 DEF DnodeOk
  <2> QED BY <2>1, <2>4 DEF PlainStep, DInv, DnodeInv, dnodeVars
<1> QED BY <1>1, <1>4, <1>5 DEF DInv

(* What a thread that holds nothing does with its own transaction.         *)
LEMMA IdleStep ==
  ASSUME DInv, NEW t \in Txs, pc[t] \notin Holding, NEW l \in Pcs \ Holding,
         NEW r \in TxRec, r.held = r.gone, r.held \in {0, tx[t].held},
         r.txg \in {0, tx[t].txg},
         pc' = [pc EXCEPT ![t] = l], tx' = [tx EXCEPT ![t] = r],
         UNCHANGED <<open, synced, spa, dnodeVars>>
  PROVE  PlainStep(t)
<1>1. tx[t].held = tx[t].gone
  BY DEF DInv, DnodeInv, ListOk
<1>2. /\ pc' \in [Txs -> Pcs] /\ pc'[t] = l /\ tx'[t] = r
      /\ \A u \in Txs : u # t => pc'[u] = pc[u]
  BY DEF DInv, TxTypes
<1>3. "holds" \in Holding
  BY DEF Holding
<1> QED BY <1>1, <1>2, <1>3 DEF PlainStep

(* dmu_tx_assign fails: the transaction waits or is given up.              *)
LEMMA FailStep ==
  ASSUME DInv, NEW t \in Txs, pc[t] \in {"assign", "unhold"},
         tx[t].held = tx[t].gone,
         NEW r \in TxRec, r.held = r.gone, r.held \in {0, tx[t].held},
         r.txg \in {0, tx[t].txg}, NEW err,
         Fail(t, r, err), UNCHANGED <<open, synced, spa, dnodeVars>>
  PROVE  PlainStep(t)
<1>1. PICK l \in {"wait", "done"}, q \in {r, NewTx} :
        pc' = [pc EXCEPT ![t] = l] /\ tx' = [tx EXCEPT ![t] = q]
  BY DEF Fail, At, Tx
<1>2. /\ q \in TxRec /\ q.held = q.gone /\ q.held \in {0, tx[t].held}
      /\ q.txg \in {0, tx[t].txg}
  BY NewTxType
<1>3. /\ pc' \in [Txs -> Pcs] /\ pc'[t] = l /\ tx'[t] = q
      /\ \A u \in Txs : u # t => pc'[u] = pc[u]
  BY <1>1 DEF DInv, TxTypes, Pcs
<1>4. l \notin Holding /\ l # "holds"
  BY DEF Holding
<1> QED BY <1>1, <1>2, <1>3, <1>4 DEF PlainStep

LEMMA PlainSteps ==
  ASSUME DInv, NEW t \in Txs,
         \/ Top(t) \/ TopEnds(t) \/ TryAssign(t) \/ TempreserveSpace(t)
         \/ Unassigned(t) \/ WaitDirty(t) \/ Wait(t) \/ WaitDnode(t)
         \/ WaitSynced(t) \/ TakeLock(t) \/ Dirty(t) \/ WorkFails(t)
         \/ TempreserveClear(t) \/ ReleToSync(t)
  PROVE  PlainStep(t)
<1>a. /\ pc \in [Txs -> Pcs] /\ tx \in [Txs -> TxRec] /\ tx[t] \in TxRec
      /\ pc[t] \notin Holding => tx[t].held = tx[t].gone
      /\ synced \in Nat
  BY DEF DInv, TxTypes, DnodeInv, GroupInv, ListOk
<1>1. CASE Top(t)
  <2>1. PICK err \in {"0", "EIO"} :
          Tx(t, [NewTx EXCEPT !.delayed = tx[t].delayed, !.err = err])
    BY <1>1 DEF Top
  <2> DEFINE r == [NewTx EXCEPT !.delayed = tx[t].delayed, !.err = err]
  <2>2. r \in TxRec /\ r.held = 0 /\ r.gone = 0 /\ r.txg = 0
    BY <1>a, NewTxType DEF TxRec
  <2> QED BY <1>1, <2>1, <2>2, IdleStep DEF Top, At, Tx, Pcs, Holding, poolVars
<1>2. CASE TopEnds(t)
  BY <1>2, NewTxType, IdleStep DEF TopEnds, At, Tx, Pcs, Holding, poolVars
<1>3. CASE TryAssign(t)
  <2>1. pc[t] = "assign" /\ pc[t] \notin Holding
        /\ UNCHANGED <<open, synced, spa, dnodeVars>>
    BY <1>3 DEF TryAssign, Holding, poolVars
  <2>2. ASSUME NEW err, Fail(t, tx[t], err)
        PROVE  PlainStep(t)
    BY <1>a, <2>1, <2>2, FailStep
  <2>3. ASSUME NEW err, Fail(t, [tx[t] EXCEPT !.wait_dirty = TRUE], err)
        PROVE  PlainStep(t)
    <3> DEFINE r == [tx[t] EXCEPT !.wait_dirty = TRUE]
    <3>1. r \in TxRec /\ r.held = tx[t].held /\ r.gone = tx[t].gone /\ r.txg = tx[t].txg
      BY <1>a DEF TxRec
    <3> QED BY <1>a, <2>1, <2>3, <3>1, FailStep
  <2>4. CASE At(t, "open") /\ UNCHANGED tx
    <3>1. tx' = [tx EXCEPT ![t] = tx[t]]
      BY <1>a, <2>4
    <3> QED BY <1>a, <2>1, <2>4, <3>1, IdleStep DEF At, Pcs, Holding
  <2> QED BY <1>3, <2>2, <2>3, <2>4 DEF TryAssign
<1>4. CASE TempreserveSpace(t)
  <2>1. PICK l \in {"unhold", "assigned"} : pc' = [pc EXCEPT ![t] = l]
    BY <1>4 DEF TempreserveSpace, At
  <2>2. PICK r \in TxRec : /\ tx' = [tx EXCEPT ![t] = r]
                           /\ r.held = tx[t].held /\ r.gone = tx[t].gone /\ r.txg = tx[t].txg
    <3>1. CASE UNCHANGED tx
      <4>1. tx' = [tx EXCEPT ![t] = tx[t]]
        BY <1>a, <3>1
      <4> QED BY <1>a, <4>1
    <3>2. CASE ~UNCHANGED tx
      <4>1. PICK e \in {"ERESTART", "EDQUOT"} : Tx(t, [tx[t] EXCEPT !.err = e])
        BY <1>4, <3>2 DEF TempreserveSpace
      <4> DEFINE r == [tx[t] EXCEPT !.err = e]
      <4>2. r \in TxRec /\ r.held = tx[t].held /\ r.gone = tx[t].gone /\ r.txg = tx[t].txg
        BY <1>a DEF TxRec
      <4> QED BY <4>1, <4>2 DEF Tx
    <3> QED BY <3>1, <3>2
  <2>3. pc[t] = "holds" /\ UNCHANGED <<open, synced, spa, dnodeVars>>
    BY <1>4 DEF TempreserveSpace, poolVars
  <2>4. /\ pc' \in [Txs -> Pcs] /\ pc'[t] = l /\ tx'[t] = r
        /\ \A u \in Txs : u # t => pc'[u] = pc[u]
    BY <1>a, <2>1, <2>2 DEF Pcs
  <2> QED BY <2>2, <2>3, <2>4 DEF PlainStep, Holding
<1>5. CASE Unassigned(t)
  <2> DEFINE r == [tx[t] EXCEPT !.lasttried = tx[t].txg, !.txg = 0, !.held = 0,
                                !.gone = 0, !.err = "0"]
  <2>1. r \in TxRec /\ r.held = 0 /\ r.gone = 0 /\ r.txg = 0
    BY <1>a DEF TxRec
  <2> QED BY <1>5, <2>1, FailStep DEF Unassigned, poolVars
(* dmu_tx_wait returns.                                                    *)
<1>r. ASSUME NEW r \in TxRec, r.held = tx[t].held, r.gone = tx[t].gone,
             r.txg = tx[t].txg, Retry(t, r), pc[t] \notin Holding,
              UNCHANGED <<open, synced, spa, dnodeVars>>
      PROVE  PlainStep(t)
  <2> DEFINE q == [r EXCEPT !.delayed = Op[t] = "zfs_link"]
  <2>1. q \in TxRec /\ q.held = tx[t].held /\ q.gone = tx[t].gone /\ q.txg = tx[t].txg
    <3>1. (Op[t] = "zfs_link") \in BOOLEAN
      OBVIOUS
    <3> QED BY <1>r, <3>1 DEF TxRec
  <2>0. tx[t].held = tx[t].gone
    BY <1>r DEF DInv, DnodeInv, ListOk
  <2>2. "top" \in Pcs \ Holding /\ "assign" \in Pcs \ Holding
    BY DEF Pcs, Holding
  <2>3. CASE At(t, "top") /\ Tx(t, q)
    <3> HIDE DEF q
    <3> QED BY <1>r, <2>0, <2>1, <2>2, <2>3, IdleStep DEF At, Tx
  <2>4. CASE At(t, "assign") /\ Tx(t, r)
    BY <1>r, <2>0, <2>2, <2>4, IdleStep DEF At, Tx
  <2> QED BY <1>r, <2>3, <2>4 DEF Retry
(* Only the place of a thread that holds nothing changes.                  *)
<1>m. ASSUME NEW l \in Pcs \ Holding, At(t, l), UNCHANGED tx,
             tx[t].held = tx[t].gone,
             UNCHANGED <<open, synced, spa, dnodeVars>>
      PROVE  PlainStep(t)
  <2>1. tx' = [tx EXCEPT ![t] = tx'[t]] /\ tx'[t] = tx[t]
    BY <1>a, <1>m
  <2>2. /\ pc' \in [Txs -> Pcs] /\ pc'[t] = l
        /\ \A u \in Txs : u # t => pc'[u] = pc[u]
    BY <1>a, <1>m DEF At
  <2> QED BY <1>a, <1>m, <2>1, <2>2 DEF PlainStep, Holding
<1>6. CASE WaitDirty(t)
  <2>1. pc[t] = "wait" /\ pc[t] \notin Holding
        /\ UNCHANGED <<open, synced, spa, dnodeVars>>
    BY <1>6 DEF WaitDirty, Holding, poolVars
  <2>2. CASE At(t, "space_sleep") /\ UNCHANGED tx
    BY <1>a, <1>m, <2>1, <2>2 DEF Pcs, Holding
  <2> DEFINE r == [tx[t] EXCEPT !.wait_dirty = FALSE, !.delayed = TRUE]
  <2>3. CASE Retry(t, r)
    <3>1. r \in TxRec /\ r.held = tx[t].held /\ r.gone = tx[t].gone /\ r.txg = tx[t].txg
      BY <1>a DEF TxRec
    <3> QED BY <1>a, <1>r, <2>1, <2>3, <3>1
  <2> QED BY <1>6, <2>2, <2>3 DEF WaitDirty
<1>7. CASE Wait(t)
  <2>1. pc[t] = "wait" /\ pc[t] \notin Holding
        /\ UNCHANGED <<open, synced, spa, dnodeVars>>
    BY <1>7 DEF Wait, Holding, poolVars
  <2>2. CASE At(t, "dnode") /\ UNCHANGED tx
    BY <1>a, <1>m, <2>1, <2>2 DEF Pcs, Holding
  <2> DEFINE r == [tx[t] EXCEPT !.until = synced + 1]
  <2>3. CASE At(t, "synced") /\ Tx(t, r)
    <3>0. synced + 1 \in Nat
      BY <1>a
    <3>1. r \in TxRec /\ r.held = tx[t].held /\ r.gone = tx[t].gone /\ r.txg = tx[t].txg
      BY <1>a, <3>0 DEF TxRec
    <3>2. "synced" \in Pcs \ Holding
      BY DEF Pcs, Holding
    <3> QED BY <1>a, <2>1, <2>3, <3>1, <3>2, IdleStep DEF At, Tx
  <2> QED BY <1>7, <2>2, <2>3 DEF Wait
<1>8. CASE WaitDnode(t)
  <2>1. pc[t] = "dnode" /\ pc[t] \notin Holding
        /\ UNCHANGED <<open, synced, spa, dnodeVars>>
    BY <1>8 DEF WaitDnode, Holding, poolVars
  <2>2. CASE At(t, "dnode_sleep") /\ UNCHANGED tx
    BY <1>a, <1>m, <2>1, <2>2 DEF Pcs, Holding
  <2> DEFINE r == [tx[t] EXCEPT !.needassign = NoTx]
  <2>3. CASE Retry(t, r)
    <3>1. r \in TxRec /\ r.held = tx[t].held /\ r.gone = tx[t].gone /\ r.txg = tx[t].txg
      BY <1>a DEF TxRec
    <3> QED BY <1>a, <1>r, <2>1, <2>3, <3>1
  <2> QED BY <1>8, <2>2, <2>3 DEF WaitDnode
<1>9. CASE WaitSynced(t)
  <2>1. pc[t] = "synced" /\ pc[t] \notin Holding
        /\ UNCHANGED <<open, synced, spa, dnodeVars>>
    BY <1>9 DEF WaitSynced, Holding, poolVars
  <2> DEFINE r == [tx[t] EXCEPT !.until = 0]
  <2>2. r \in TxRec /\ r.held = tx[t].held /\ r.gone = tx[t].gone /\ r.txg = tx[t].txg
    BY <1>a DEF TxRec
  <2>3. Retry(t, r)
    BY <1>9 DEF WaitSynced
  <2> QED BY <1>a, <1>r, <2>1, <2>2, <2>3
(* The steps of an assigned transaction.                                   *)
<1>w. ASSUME pc[t] \in Holding, UNCHANGED <<tx, open, synced, spa, dnodeVars>>,
             pc' \in [Txs -> Pcs], pc'[t] \in Holding \ {"holds"},
             \A u \in Txs : u # t =>
               pc'[u] = pc[u] \/ (pc[u] = "space_sleep" /\ pc'[u] = "wait")
      PROVE  PlainStep(t)
  <2>1. tx' = [tx EXCEPT ![t] = tx'[t]] /\ tx'[t] = tx[t]
    BY <1>a, <1>w
  <2> QED BY <1>a, <1>w, <2>1 DEF PlainStep
<1>10. CASE TakeLock(t)
  <2>1. /\ pc[t] = "assigned" /\ pc' = [pc EXCEPT ![t] = "locked"]
        /\ UNCHANGED <<tx, open, synced, spa, dnodeVars>>
    BY <1>10 DEF TakeLock, At, poolVars
  <2> QED BY <1>a, <1>w, <2>1 DEF Pcs, Holding
<1>11. CASE Dirty(t)
  <2>1. /\ pc[t] \in {"locked", "assigned"}
        /\ UNCHANGED <<tx, open, synced, spa, dnodeVars>>
        /\ DirtyDelta([pc EXCEPT ![t] = "commit"], woken \ {t},
                      dp_dirty_total + Space[t])
    BY <1>11 DEF Dirty, Works, poolVars
  <2> DEFINE p == [pc EXCEPT ![t] = "commit"]
  <2>2. p \in [Txs -> Pcs] /\ p[t] = "commit" /\ \A u \in Txs : u # t => p[u] = pc[u]
    BY <1>a DEF Pcs
  <2>3. pc' = p \/ \E s \in SpaceSleepers(p) : pc' = [p EXCEPT ![s] = "wait"]
    BY <2>1 DEF DirtyDelta, Signal
  <2>4. /\ pc' \in [Txs -> Pcs] /\ pc'[t] = "commit"
        /\ \A u \in Txs : u # t =>
             pc'[u] = pc[u] \/ (pc[u] = "space_sleep" /\ pc'[u] = "wait")
    BY <2>2, <2>3 DEF SpaceSleepers, Pcs
  <2> QED BY <1>w, <2>1, <2>4 DEF Holding
<1>12. CASE WorkFails(t)
  <2>1. /\ pc[t] \in {"locked", "assigned"} /\ pc' = [pc EXCEPT ![t] = "commit"]
        /\ UNCHANGED <<tx, open, synced, spa, dnodeVars>>
    BY <1>12 DEF WorkFails, Works, At, poolVars
  <2> QED BY <1>a, <1>w, <2>1 DEF Pcs, Holding
<1>13. CASE TempreserveClear(t)
  BY <1>m, <1>13 DEF TempreserveClear, Pcs, Holding, poolVars
<1>14. CASE ReleToSync(t)
  BY <1>14, NewTxType, IdleStep DEF ReleToSync, At, Tx, Pcs, Holding, poolVars
<1> QED BY <1>1, <1>2, <1>3, <1>4, <1>5, <1>6, <1>7, <1>8, <1>9, <1>10, <1>11,
           <1>12, <1>13, <1>14

(* txg_hold_open: the transaction has no dnodes yet, and its group is the  *)
(* open one, which is not synced.                                          *)
LEMMA HoldOpenKeeps ==
  ASSUME DInv, NEW t \in Txs, HoldOpen(t)
  PROVE  DInv'
<1>a. /\ pc \in [Txs -> Pcs] /\ tx \in [Txs -> TxRec] /\ tx[t] \in TxRec
      /\ pc[t] = "open" /\ tx[t].held = tx[t].gone /\ open \in Nat
      /\ UNCHANGED <<open, synced, spa, dnodeVars>>
  BY DEF DInv, TxTypes, DnodeInv, ListOk, GroupInv, HoldOpen, Holding, poolVars
<1> DEFINE r == [tx[t] EXCEPT !.txg = open, !.needassign = NoTx]
<1>1. r \in TxRec /\ r.held = tx[t].held /\ r.gone = tx[t].gone /\ r.txg = open
  BY <1>a DEF TxRec
<1>2. /\ tx' \in [Txs -> TxRec] /\ tx'[t] = r
      /\ pc' \in [Txs -> Pcs] /\ pc'[t] = "holds"
      /\ \A u \in Txs : u # t => tx'[u] = tx[u] /\ pc'[u] = pc[u]
  BY <1>a, <1>1 DEF HoldOpen, At, Tx, Pcs
<1>3. GroupInv'
  <2>1. GroupInv
    BY DEF DInv
  <2>2. \A u \in Txs : u # t =>
          /\ tx'[u].txg \in {0, open - 1, open}
          /\ tx'[u].txg # 0 => tx'[u].txg > synced
          /\ pc'[u] = "holds" => tx'[u].txg = open
          /\ pc'[u] \in Holding => tx'[u].txg # 0
    BY <1>2, <2>1 DEF GroupInv
  <2>3. open > synced /\ open # 0 /\ tx'[t].txg = open
    BY <1>1, <1>2, <2>1 DEF GroupInv
  <2>4. spa # "idle" => \A u \in Txs : tx'[u].txg # synced + 1
    <3>1. spa # "idle" => open # synced + 1 /\ \A u \in Txs : tx[u].txg # synced + 1
      BY <2>1 DEF GroupInv
    <3> QED BY <1>2, <2>3, <3>1
  <2> QED BY <1>a, <2>1, <2>2, <2>3, <2>4 DEF GroupInv
<1>4. DnodeInv'
  <2>0. (\A u \in Txs : ListOk(u)) /\ \A d \in Dnodes : DnodeOk(d)
    BY DEF DInv, DnodeInv
  <2>1. \A u \in Txs : ListOk(u)'
    BY <1>1, <1>2, <2>0 DEF ListOk, Holding
  <2>2. Kept(t) = {} /\ \A u \in Txs : Kept(u)' = Kept(u)
    <3>1. Kept(t) = {}
      BY <1>a DEF Kept, TxRec
    <3>2. Kept(t)' = Kept(t)
      BY <1>1, <1>2 DEF Kept
    <3>3. \A u \in Txs : u # t => Kept(u)' = Kept(u)
      BY <1>2 DEF Kept
    <3> QED BY <3>1, <3>2, <3>3
  <2>3. ASSUME NEW d \in Dnodes
        PROVE  DnodeOk(d)'
    <3>1. HoldsOn(d)' = HoldsOn(d)
      BY <2>2, SameHolds
    <3>2. ASSUME NEW h \in HoldsOn(d)
          PROVE  tx'[h[1]] = tx[h[1]]
      <4>1. h[1] \in Txs /\ Kept(h[1]) # {}
        BY DEF HoldsOn
      <4> QED BY <1>2, <2>2, <4>1
    <3>3. UNCHANGED <<dn_assigned_txg, dn_tx_holds>>
      BY <1>a DEF dnodeVars
    <3> QED BY <2>0, <3>1, <3>2, <3>3 DEF DnodeOk
  <2> QED BY <1>a, <2>1, <2>3 DEF DInv, DnodeInv, dnodeVars
<1> QED BY <1>2, <1>3, <1>4 DEF DInv, TxTypes

(* A hold is made on a dnode: it was free or in the same group.            *)
LEMMA HoldDnodeKeeps ==
  ASSUME DInv, NEW t \in Txs, HoldDnode(t)
  PROVE  DInv'
<1>0. PICK p, d : p = tx[t].held + 1 /\ d = Holds[t][p]
  OBVIOUS
<1>a. /\ pc \in [Txs -> Pcs] /\ tx \in [Txs -> TxRec] /\ tx[t] \in TxRec
      /\ pc[t] = "holds" /\ HoldsLeft(t)
      /\ UNCHANGED <<open, synced, spa>>
  BY DEF DInv, TxTypes, HoldDnode, poolVars
<1>b. d \in Dnodes /\ p \in DOMAIN Holds[t] /\ p \in Nat /\ p <= Len(Holds[t])
  BY <1>0, <1>a, DmuTxAssumption DEF TxRec, HoldsLeft
<1>c. /\ tx[t].txg = open /\ open \in Nat /\ open # 0
      /\ tx[t].held \in Nat /\ tx[t].gone \in Nat /\ tx[t].gone <= tx[t].held
  BY <1>a DEF DInv, GroupInv, TxRec, DnodeInv, ListOk
<1>1. CASE InQuiescing(t, d)
  <2> DEFINE r == [tx[t] EXCEPT !.needassign = d, !.err = "ERESTART"]
  <2>1. r \in TxRec /\ r.held = tx[t].held /\ r.gone = tx[t].gone /\ r.txg = tx[t].txg
    BY <1>a, <1>b DEF TxRec
  <2>2. Tx(t, r) /\ At(t, "unhold") /\ UNCHANGED dnodeVars
    BY <1>0, <1>1 DEF HoldDnode
  <2>3. /\ pc' \in [Txs -> Pcs] /\ pc'[t] = "unhold" /\ tx'[t] = r
        /\ \A u \in Txs : u # t => pc'[u] = pc[u]
    BY <1>a, <2>2 DEF At, Tx, Pcs
  <2>4. PlainStep(t)
    BY <1>a, <2>1, <2>2, <2>3 DEF PlainStep, Holding, Tx
  <2> QED BY <2>4, PlainKeeps
<1>2. CASE ~InQuiescing(t, d)
  <2> DEFINE r == [tx[t] EXCEPT !.held = @ + 1]
  <2>1. r \in TxRec /\ r.held = p /\ r.gone = tx[t].gone /\ r.txg = tx[t].txg
    BY <1>0, <1>a, <1>c DEF TxRec
  <2>2. /\ tx' \in [Txs -> TxRec] /\ tx'[t] = r /\ pc' = pc
        /\ \A u \in Txs : u # t => tx'[u] = tx[u]
    BY <1>0, <1>2, <1>a, <2>1 DEF HoldDnode, Tx
  <2>3. \A u \in Txs : tx'[u].txg = tx[u].txg
    BY <2>1, <2>2
  <2>4. GroupInv'
    BY <1>a, <2>2, <2>3 DEF DInv, GroupInv
  <2>5. dn_assigned_txg[d] \in {0, open}
    <3>1. dn_assigned_txg[d] \in {0, open, open - 1}
      BY <1>0, <1>a, <1>c, DInvOneGroup DEF DnodeOneGroup
    <3> QED BY <1>2, <1>c, <3>1 DEF InQuiescing
  <2>6. /\ dn_assigned_txg' = [dn_assigned_txg EXCEPT ![d] = open]
        /\ dn_tx_holds' = [dn_tx_holds EXCEPT ![d] = @ + 1]
    <3>1. /\ dn_assigned_txg' = [dn_assigned_txg EXCEPT
                                   ![d] = IF @ = 0 THEN tx[t].txg ELSE @]
          /\ dn_tx_holds' = [dn_tx_holds EXCEPT ![d] = @ + 1]
      BY <1>0, <1>2 DEF HoldDnode
    <3> QED BY <1>b, <1>c, <2>5, <3>1 DEF DInv, DnodeInv
  <2>7. dn_assigned_txg' \in [Dnodes -> Nat] /\ dn_tx_holds' \in [Dnodes -> Nat]
    BY <1>b, <1>c, <2>6 DEF DInv, DnodeInv
  <2>8. \A u \in Txs : ListOk(u)'
    <3>0. \A u \in Txs : ListOk(u)
      BY DEF DInv, DnodeInv
    <3>1. \A u \in Txs : u # t => ListOk(u)'
      BY <2>2, <3>0 DEF ListOk
    <3>2. ListOk(t)'
      <4>1. /\ tx'[t].held = p /\ tx'[t].gone = tx[t].gone /\ pc'[t] \in Holding
            /\ tx[t].gone <= p
        BY <1>0, <1>a, <1>c, <2>1, <2>2 DEF Holding
      <4> QED BY <1>b, <4>1 DEF ListOk
    <3> QED BY <3>1, <3>2
  <2>9. /\ Kept(t)' = Kept(t) \cup {p} /\ p \notin Kept(t)
        /\ \A u \in Txs : u # t => Kept(u)' = Kept(u)
    BY <1>0, <1>c, <2>1, <2>2 DEF Kept
  <2>10. p \in Positions
    BY <1>b DEF Positions
  <2>11. /\ HoldsOn(d)' = HoldsOn(d) \cup {<<t, p>>} /\ <<t, p>> \notin HoldsOn(d)
         /\ \A c \in Dnodes : c # d => HoldsOn(c)' = HoldsOn(c)
    BY <1>0, <2>9, <2>10, HoldsOnTaken
  <2>12. ASSUME NEW c \in Dnodes
         PROVE  DnodeOk(c)'
    <3>0. DnodeOk(c)
      BY DEF DInv, DnodeInv
    <3>1. \A h \in HoldsOn(c) : tx'[h[1]].txg = tx[h[1]].txg
      BY <2>3 DEF HoldsOn
    <3>2. CASE c # d
      <4>1. dn_assigned_txg'[c] = dn_assigned_txg[c] /\ dn_tx_holds'[c] = dn_tx_holds[c]
        BY <2>6, <3>2 DEF DInv, DnodeInv
      <4> QED BY <2>11, <3>0, <3>1, <3>2, <4>1 DEF DnodeOk
    <3>3. CASE c = d
      <4>1. dn_assigned_txg'[d] = open /\ dn_tx_holds'[d] = dn_tx_holds[d] + 1
        BY <1>b, <2>6 DEF DInv, DnodeInv
      <4>2. \A h \in HoldsOn(d) : tx[h[1]].txg = open
        BY <2>5, <3>0, <3>3 DEF DnodeOk
      <4>3. IsFiniteSet(HoldsOn(d)') /\ Cardinality(HoldsOn(d)') = dn_tx_holds'[d]
        <5>1. PICK S : S = HoldsOn(d)
          OBVIOUS
        <5>2. IsFiniteSet(S) /\ Cardinality(S) = dn_tx_holds[d] /\ <<t, p>> \notin S
          BY <2>11, <3>0, <3>3, <5>1 DEF DnodeOk
        <5>3. /\ IsFiniteSet(S \cup {<<t, p>>})
              /\ Cardinality(S \cup {<<t, p>>}) = Cardinality(S) + 1
          BY <5>2, FS_AddElement
        <5> QED BY <2>11, <4>1, <5>1, <5>2, <5>3
      <4>4. \A h \in HoldsOn(d)' : tx'[h[1]].txg = open
        BY <1>c, <2>3, <2>11, <3>1, <3>3, <4>2
      <4>5. HoldsOn(d)' # {}
        BY <2>11
      <4> QED BY <1>c, <3>3, <4>1, <4>3, <4>4, <4>5 DEF DnodeOk
    <3> QED BY <3>2, <3>3
  <2>13. DnodeInv'
    BY <2>7, <2>8, <2>12 DEF DnodeInv
  <2> QED BY <1>a, <2>2, <2>4, <2>13 DEF DInv, TxTypes
<1> QED BY <1>1, <1>2

(* A hold is let go; with the last one its dnode leaves the group.         *)
LEMMA RemoveHoldKeeps ==
  ASSUME DInv, NEW t \in Txs, RemoveHold(t)
  PROVE  DInv'
<1>0. PICK p, d, last : /\ p = tx[t].gone + 1 /\ d = Holds[t][p]
                        /\ last = (dn_tx_holds[d] = 1)
  OBVIOUS
<1>a. /\ pc \in [Txs -> Pcs] /\ tx \in [Txs -> TxRec] /\ tx[t] \in TxRec
      /\ pc[t] \in {"unhold", "commit"} /\ tx[t].gone < tx[t].held
      /\ UNCHANGED <<open, synced, spa>>
  BY DEF DInv, TxTypes, RemoveHold, poolVars
<1>b. /\ tx[t].held \in Nat /\ tx[t].gone \in Nat /\ tx[t].held <= Len(Holds[t])
      /\ p \in DOMAIN Holds[t] /\ p \in Nat /\ p <= tx[t].held /\ d \in Dnodes
  <2>1. tx[t].held \in Nat /\ tx[t].gone \in Nat /\ tx[t].held <= Len(Holds[t])
    BY <1>a DEF TxRec, DInv, DnodeInv, ListOk
  <2> QED BY <1>0, <1>a, <2>1, DmuTxAssumption
<1> DEFINE r == [tx[t] EXCEPT !.gone = @ + 1]
<1>1. r \in TxRec /\ r.held = tx[t].held /\ r.gone = p /\ r.txg = tx[t].txg
  BY <1>0, <1>a, <1>b DEF TxRec
<1>2. /\ tx' \in [Txs -> TxRec] /\ tx'[t] = r
      /\ \A u \in Txs : u # t => tx'[u] = tx[u]
  BY <1>a, <1>1 DEF RemoveHold, Tx
<1>3. /\ pc' \in [Txs -> Pcs]
      /\ \A u \in Txs : pc'[u] = pc[u]
                        \/ (pc[u] = "dnode_sleep" /\ pc'[u] = "dnode")
  BY <1>a DEF RemoveHold, Pcs
<1>4. \A u \in Txs : /\ pc'[u] \in Holding <=> pc[u] \in Holding
                     /\ pc'[u] = "holds" <=> pc[u] = "holds"
                     /\ tx'[u].txg = tx[u].txg
  BY <1>1, <1>2, <1>3 DEF Holding
<1>5. GroupInv'
  BY <1>a, <1>4 DEF DInv, GroupInv
<1>6. /\ dn_tx_holds' = [dn_tx_holds EXCEPT ![d] = @ - 1]
      /\ dn_assigned_txg' = [dn_assigned_txg EXCEPT ![d] = IF last THEN 0 ELSE @]
  BY <1>0 DEF RemoveHold
<1>7. \A u \in Txs : ListOk(u)'
  BY <1>0, <1>a, <1>b, <1>1, <1>2, <1>4 DEF DInv, DnodeInv, ListOk, Holding
<1>8. /\ Kept(t) = Kept(t)' \cup {p} /\ p \notin Kept(t)'
      /\ \A u \in Txs : u # t => Kept(u)' = Kept(u)
  BY <1>0, <1>a, <1>b, <1>1, <1>2 DEF Kept
<1>9. p \in Positions
  BY <1>b DEF Positions
<1>10. /\ HoldsOn(d)' = HoldsOn(d) \ {<<t, p>>} /\ <<t, p>> \in HoldsOn(d)
       /\ \A c \in Dnodes : c # d => HoldsOn(c)' = HoldsOn(c)
  BY <1>0, <1>8, <1>9, HoldsOnDropped
<1>11. ASSUME NEW c \in Dnodes
       PROVE  DnodeOk(c)' /\ dn_tx_holds'[c] \in Nat /\ dn_assigned_txg'[c] \in Nat
  <2>0. DnodeOk(c) /\ dn_tx_holds[c] \in Nat /\ dn_assigned_txg[c] \in Nat
    BY DEF DInv, DnodeInv
  <2>1. \A h \in HoldsOn(c) : tx'[h[1]].txg = tx[h[1]].txg
    BY <1>4 DEF HoldsOn
  <2>2. CASE c # d
    <3>1. dn_assigned_txg'[c] = dn_assigned_txg[c] /\ dn_tx_holds'[c] = dn_tx_holds[c]
      BY <1>6, <2>2 DEF DInv, DnodeInv
    <3> QED BY <1>10, <2>0, <2>1, <2>2, <3>1 DEF DnodeOk
  <2>3. CASE c = d
    <3>1. /\ dn_tx_holds'[d] = dn_tx_holds[d] - 1
          /\ dn_assigned_txg'[d] = IF last THEN 0 ELSE dn_assigned_txg[d]
      BY <1>b, <1>6 DEF DInv, DnodeInv
    <3>2. /\ IsFiniteSet(HoldsOn(d)') /\ Cardinality(HoldsOn(d)') = dn_tx_holds'[d]
      <4>1. PICK S : S = HoldsOn(d)
        OBVIOUS
      <4>2. IsFiniteSet(S) /\ Cardinality(S) = dn_tx_holds[d] /\ <<t, p>> \in S
        BY <1>10, <2>0, <2>3, <4>1 DEF DnodeOk
      <4>3. /\ IsFiniteSet(S \ {<<t, p>>})
            /\ Cardinality(S \ {<<t, p>>}) = Cardinality(S) - 1
        BY <4>2, FS_RemoveElement
      <4> QED BY <1>10, <3>1, <4>1, <4>2, <4>3
    <3>3. Cardinality(HoldsOn(d)') \in Nat
          /\ (Cardinality(HoldsOn(d)') = 0 <=> HoldsOn(d)' = {})
      BY <3>2, FS_CardinalityType, FS_EmptySet
    <3>4. dn_assigned_txg[d] # 0
      BY <1>10, <2>0, <2>3 DEF DnodeOk
    <3>5. dn_assigned_txg'[d] = 0 <=> HoldsOn(d)' = {}
      <4>1. CASE dn_tx_holds[d] = 1
        <5>1. dn_assigned_txg'[d] = 0
          BY <1>0, <3>1, <4>1
        <5>2. dn_tx_holds'[d] = 0
          BY <3>1, <4>1
        <5> QED BY <3>2, <3>3, <5>1, <5>2
      <4>2. CASE dn_tx_holds[d] # 1
        <5>1. dn_tx_holds'[d] # 0
          BY <2>0, <2>3, <3>1, <4>2
        <5>2. dn_assigned_txg'[d] = dn_assigned_txg[d]
          BY <1>0, <3>1, <4>2
        <5> QED BY <3>2, <3>3, <3>4, <5>1, <5>2
      <4> QED BY <4>1, <4>2
    <3>6. ASSUME NEW h \in HoldsOn(d)'
          PROVE  tx'[h[1]].txg = dn_assigned_txg'[d]
      <4>1. h \in HoldsOn(d) /\ tx[h[1]].txg = dn_assigned_txg[d]
        BY <1>10, <2>0, <2>3 DEF DnodeOk
      <4> QED BY <2>1, <2>3, <3>1, <3>4, <3>5, <4>1
    <3> QED BY <2>0, <2>3, <3>1, <3>2, <3>3, <3>5, <3>6 DEF DnodeOk
  <2> QED BY <2>2, <2>3
<1>12. DnodeInv'
  <2>1. dn_tx_holds' \in [Dnodes -> Nat] /\ dn_assigned_txg' \in [Dnodes -> Nat]
    BY <1>6, <1>11 DEF DInv, DnodeInv
  <2> QED BY <1>7, <1>11, <2>1 DEF DnodeInv
<1> QED BY <1>2, <1>3, <1>5, <1>12 DEF DInv, TxTypes

(* Steps that touch neither a transaction nor a dnode.                     *)
LEMMA SameDnodes ==
  ASSUME DInv, UNCHANGED <<tx, dnodeVars>>,
         \A u \in Txs : pc'[u] \in Holding <=> pc[u] \in Holding
  PROVE  DnodeInv'
<1>1. UNCHANGED <<tx, dn_assigned_txg, dn_tx_holds>>
  BY DEF dnodeVars
<1>2. \A u \in Txs : ListOk(u)'
  BY <1>1 DEF DInv, DnodeInv, ListOk
<1>3. \A u \in Txs : Kept(u)' = Kept(u)
  BY <1>1 DEF Kept
<1>4. ASSUME NEW d \in Dnodes
      PROVE  DnodeOk(d)'
  <2>1. HoldsOn(d)' = HoldsOn(d)
    BY <1>3, SameHolds
  <2> QED BY <1>1, <2>1 DEF DInv, DnodeInv, DnodeOk
<1> QED BY <1>1, <1>2, <1>4 DEF DInv, DnodeInv

(* The pool's own steps: a group is closed when nobody is still taking     *)
(* dnodes in it and nobody is left in the one before it, and synced when   *)
(* nobody is left in it.                                                   *)
LEMMA PoolKeeps ==
  ASSUME DInv, PoolStep \/ Suspend \/ Resume
  PROVE  DInv'
<1>a. pc \in [Txs -> Pcs] /\ GroupInv
  BY DEF DInv, TxTypes
<1>1. UNCHANGED <<tx, dnodeVars>>
  BY DEF PoolStep, OpenNext, SyncBegin, PhysDone, SyncData, SyncDone, Suspend, Resume
<1>2. /\ pc' \in [Txs -> Pcs]
      /\ \A u \in Txs : pc'[u] = pc[u] \/ (pc[u] = "space_sleep" /\ pc'[u] = "wait")
  <2>1. ASSUME NEW n, NEW g, UndirtySpace(n, g)
        PROVE  \/ pc' = pc
               \/ \E s \in SpaceSleepers(pc) : pc' = [pc EXCEPT ![s] = "wait"]
    BY <2>1 DEF UndirtySpace, DirtyDelta, Signal
  <2>2. \/ pc' = pc
        \/ \E s \in SpaceSleepers(pc) : pc' = [pc EXCEPT ![s] = "wait"]
    BY <2>1 DEF PoolStep, OpenNext, SyncBegin, PhysDone, SyncData, SyncDone, Suspend,
         Resume
  <2> QED BY <1>a, <2>2 DEF SpaceSleepers, Pcs
<1>3. \A u \in Txs : /\ pc'[u] \in Holding <=> pc[u] \in Holding
                     /\ pc'[u] = "holds" <=> pc[u] = "holds"
  BY <1>2 DEF Holding
<1>4. DnodeInv'
  BY <1>1, <1>3, SameDnodes
<1>5. GroupInv'
  <2>1. CASE OpenNext
    <3>1. /\ \A t \in Txs : pc[t] # "holds" /\ tx[t].txg # open - 1
          /\ open' = open + 1 /\ UNCHANGED <<synced, spa>>
      BY <2>1 DEF OpenNext, OpenLocked, Counted
    <3>2. \A t \in Txs : /\ tx[t].txg \in {0, open}
                         /\ tx[t].txg # 0 => tx[t].txg > synced
                         /\ pc[t] \in Holding => tx[t].txg # 0
      BY <1>a, <3>1 DEF GroupInv
    <3>3. open' \in Nat /\ open' - 1 = open /\ synced < open'
          /\ (spa # "idle" => synced + 1 < open')
      BY <1>a, <3>1 DEF GroupInv
    <3> QED BY <1>a, <1>1, <1>3, <3>1, <3>2, <3>3 DEF GroupInv
  <2>2. CASE SyncBegin
    <3>1. /\ \A t \in Txs : tx[t].txg # synced + 1
          /\ synced + 1 < open /\ UNCHANGED <<open, synced>>
      BY <2>2 DEF SyncBegin, Counted
    <3> QED BY <1>a, <1>1, <1>3, <3>1 DEF GroupInv
  <2>3. CASE SyncDone
    <3>1. spa # "idle" /\ spa' = "idle" /\ synced' = synced + 1 /\ UNCHANGED open
      BY <2>3 DEF SyncDone
    <3>2. synced + 1 < open /\ synced + 1 \in Nat /\ open \in Nat
      BY <1>a, <3>1 DEF GroupInv
    <3>3. \A t \in Txs : tx[t].txg # 0 => tx[t].txg > synced + 1
      BY <1>a, <3>1 DEF GroupInv
    <3> QED BY <1>a, <1>1, <1>3, <3>1, <3>2, <3>3 DEF GroupInv
  <2>4. CASE PhysDone \/ SyncData \/ Suspend \/ Resume
    <3>1. UNCHANGED <<open, synced>> /\ (spa' # "idle" => spa # "idle")
      BY <2>4 DEF PhysDone, SyncData, Suspend, Resume, poolVars
    <3> QED BY <1>a, <1>1, <1>3, <3>1 DEF GroupInv
  <2> QED BY <2>1, <2>2, <2>3, <2>4 DEF PoolStep
<1> QED BY <1>1, <1>2, <1>4, <1>5 DEF DInv, TxTypes

LEMMA DInvStep == DInv /\ [Next]_vars => DInv'
<1> SUFFICES ASSUME DInv, [Next]_vars PROVE DInv' OBVIOUS
<1>1. CASE UNCHANGED vars
  <2>1. UNCHANGED <<open, synced, spa, pc, tx, dnodeVars>>
    BY <1>1 DEF vars, poolVars
  <2>2. DnodeInv'
    BY <2>1, SameDnodes
  <2> QED BY <2>1, <2>2 DEF DInv, TxTypes, GroupInv
<1>2. ASSUME NEW t \in Txs, TxStep(t)
      PROVE  DInv'
  BY <1>2, PlainSteps, PlainKeeps, HoldOpenKeeps, HoldDnodeKeeps, RemoveHoldKeeps
     DEF TxStep
<1> QED BY <1>1, <1>2, PoolKeeps DEF Next

(* All transactions that hold a dnode are in the group it is assigned to,  *)
(* its count is that of their holds, however often a list has the same     *)
(* dnode, and that group is neither synced nor being synced                *)
(* (dmu_tx_try_assign, dmu_tx_unassign, dmu_tx_commit).                    *)
THEOREM DnodeGroupSafe == Spec => []DnodeOneGroup
<1>1. Spec => []DInv
  BY DInvInit, DInvStep, PTL DEF Spec
<1> QED BY <1>1, DInvOneGroup, PTL

-----------------------------------------------------------------------------
(* Sums.  SpaceOf is a recursive function on the subsets of its argument;  *)
(* there is such a function, and it may take its elements in any order.    *)

(* Induction in the form the provers can use: over a set of naturals.      *)
LEMMA NatIn ==
  ASSUME NEW X, 0 \in X, \A n \in Nat : n \in X => n + 1 \in X
  PROVE  Nat \subseteq X
<1> SUFFICES ASSUME Nat \ X # {} PROVE FALSE OBVIOUS
<1>1. \E m \in Nat \ X : \A y \in Nat \ X : ~(<<y, m>> \in OpToRel(<, Nat))
  BY NatLessThanWellFounded, WFMin, Nat \ X \subseteq Nat
<1>2. PICK m \in Nat \ X : \A y \in Nat \ X : ~(y < m)
  BY <1>1 DEF OpToRel
<1>3. m # 0 /\ m - 1 \in Nat /\ m - 1 < m /\ (m - 1) + 1 = m
  BY <1>2
<1> QED BY <1>2, <1>3

(* What is left of a set when its first element is taken.                  *)
First(s) == CHOOSE x \in s : TRUE
Rest(s) == s \ {First(s)}
IsSum(F, S) ==
    F = [s \in SUBSET S |->
            IF s = {} THEN 0 ELSE Space[First(s)] + F[Rest(s)]]

LEMMA SpaceOfIs ==
  ASSUME NEW S
  PROVE  SpaceOf(S) = (CHOOSE F : IsSum(F, S))[S]
BY DEF SpaceOf, MapThenSumSet, MapThenFoldSet, IsSum, First, Rest

LEMMA RestSmaller ==
  ASSUME NEW S, IsFiniteSet(S), NEW s \in SUBSET S
  PROVE  /\ IsFiniteSet(s) /\ Cardinality(s) \in Nat
         /\ Cardinality(s) = 0 <=> s = {}
         /\ s # {} => /\ First(s) \in s /\ Rest(s) \in SUBSET S
                      /\ Rest(s) \in SUBSET s
                      /\ IsFiniteSet(Rest(s))
                      /\ Cardinality(Rest(s)) = Cardinality(s) - 1
<1>1. IsFiniteSet(s) /\ Cardinality(s) \in Nat
  BY FS_Subset, FS_CardinalityType
<1>2. Cardinality(s) = 0 <=> s = {}
  BY <1>1, FS_EmptySet
<1>3. s # {} => First(s) \in s
  BY DEF First
<1> QED BY <1>1, <1>2, <1>3, FS_RemoveElement DEF Rest

LEMMA SumExists ==
  ASSUME NEW S \in SUBSET Txs, IsFiniteSet(S)
  PROVE  \E F : IsSum(F, S)
<1> DEFINE Upto(n) == {s \in SUBSET S : Cardinality(s) <= n}
<1> DEFINE Good(F, n) == \A s \in Upto(n) :
             F[s] = IF s = {} THEN 0 ELSE Space[First(s)] + F[Rest(s)]
<1> DEFINE X == {n \in Nat : \E F \in [Upto(n) -> Int] : Good(F, n)}
<1>0. \A s \in SUBSET S : /\ Cardinality(s) \in Nat
                          /\ Cardinality(s) = 0 <=> s = {}
                          /\ s # {} => /\ First(s) \in Txs /\ Rest(s) \in SUBSET S
                                       /\ Cardinality(Rest(s)) = Cardinality(s) - 1
  BY RestSmaller
<1>1. 0 \in X
  <2> DEFINE F == [s \in Upto(0) |-> 0]
  <2>1. \A s \in Upto(0) : s = {}
    BY <1>0
  <2>2. F \in [Upto(0) -> Int] /\ Good(F, 0)
    BY <2>1
  <2> QED BY <2>2
<1>2. ASSUME NEW n \in Nat, n \in X
      PROVE  n + 1 \in X
  <2>1. PICK F \in [Upto(n) -> Int] : Good(F, n)
    BY <1>2
  <2> DEFINE G == [s \in Upto(n + 1) |->
                     IF s = {} THEN 0 ELSE Space[First(s)] + F[Rest(s)]]
  <2>2. \A s \in Upto(n + 1) : s # {} => Rest(s) \in Upto(n)
    BY <1>0
  <2>3. \A s \in Upto(n) : s \in Upto(n + 1) /\ G[s] = F[s]
    <3>1. \A s \in Upto(n) : s \in Upto(n + 1)
      BY <1>0
    <3> QED BY <2>1, <3>1
  <2>4. G \in [Upto(n + 1) -> Int]
    <3>1. \A s \in Upto(n + 1) : s # {} => F[Rest(s)] \in Int /\ Space[First(s)] \in Int
      BY <1>0, <2>2, DmuTxAssumption
    <3> HIDE DEF Upto
    <3> QED BY <3>1
  <2>5. Good(G, n + 1)
    <3>1. \A s \in Upto(n + 1) : s # {} => G[Rest(s)] = F[Rest(s)]
      BY <2>2, <2>3
    <3> HIDE DEF Upto
    <3> QED BY <3>1
  <2>6. n + 1 \in Nat
    OBVIOUS
  <2> QED BY <2>4, <2>5, <2>6
<1>3. Cardinality(S) \in X
  <2>1. Nat \subseteq X
    <3> HIDE DEF X
    <3> QED BY <1>1, <1>2, NatIn
  <2> QED BY <2>1, FS_CardinalityType
<1>4. PICK F \in [Upto(Cardinality(S)) -> Int] : Good(F, Cardinality(S))
  BY <1>3
<1>5. Upto(Cardinality(S)) = SUBSET S
  BY FS_Subset
<1>6. IsSum(F, S)
  <2>1. F = [s \in SUBSET S |-> F[s]]
    BY <1>4, <1>5
  <2>2. \A s \in SUBSET S :
          F[s] = IF s = {} THEN 0 ELSE Space[First(s)] + F[Rest(s)]
    BY <1>4, <1>5
  <2> QED BY <2>1, <2>2 DEF IsSum
<1> QED BY <1>6

(* The sum of a set does not depend on the set it is taken in.             *)
LEMMA SumAgrees ==
  ASSUME NEW S \in SUBSET Txs, IsFiniteSet(S), NEW T \in SUBSET S,
         NEW F, IsSum(F, S), NEW G, IsSum(G, T)
  PROVE  F[T] = G[T]
<1> DEFINE X == {n \in Nat : \A s \in SUBSET T : Cardinality(s) <= n => F[s] = G[s]}
<1>0. \A s \in SUBSET T : /\ Cardinality(s) \in Nat
                          /\ Cardinality(s) = 0 <=> s = {}
                          /\ s # {} => /\ Rest(s) \in SUBSET T
                                       /\ Cardinality(Rest(s)) = Cardinality(s) - 1
  BY RestSmaller, FS_Subset
<1>a. \A s \in SUBSET T : F[s] = IF s = {} THEN 0 ELSE Space[First(s)] + F[Rest(s)]
  <2>1. SUBSET T \subseteq SUBSET S
    OBVIOUS
  <2> QED BY <2>1 DEF IsSum
<1>b. \A s \in SUBSET T : G[s] = IF s = {} THEN 0 ELSE Space[First(s)] + G[Rest(s)]
  BY DEF IsSum
<1>1. 0 \in X
  BY <1>0, <1>a, <1>b
<1>2. ASSUME NEW n \in Nat, n \in X
      PROVE  n + 1 \in X
  <2>1. ASSUME NEW s \in SUBSET T, Cardinality(s) <= n + 1
        PROVE  F[s] = G[s]
    <3>1. CASE s = {}
      BY <1>a, <1>b, <3>1
    <3>2. CASE s # {}
      <4>1. Rest(s) \in SUBSET T /\ Cardinality(Rest(s)) <= n
        BY <1>0, <2>1, <3>2
      <4>2. F[Rest(s)] = G[Rest(s)]
        BY <1>2, <4>1
      <4> QED BY <1>a, <1>b, <3>2, <4>2
    <3> QED BY <3>1, <3>2
  <2> QED BY <2>1
<1>3. Nat \subseteq X
  <2> HIDE DEF X
  <2> QED BY <1>1, <1>2, NatIn
<1>4. Cardinality(T) \in X
  BY <1>0, <1>3
<1> QED BY <1>0, <1>4

SumFcn == CHOOSE F : IsSum(F, Txs)

LEMMA SumFcnIs ==
  /\ IsSum(SumFcn, Txs)
  /\ \A T \in SUBSET Txs : SpaceOf(T) = SumFcn[T]
<1>1. IsSum(SumFcn, Txs)
  BY SumExists, DmuTxAssumption DEF SumFcn
<1>2. ASSUME NEW T \in SUBSET Txs
      PROVE  SpaceOf(T) = SumFcn[T]
  <2> DEFINE G == CHOOSE F : IsSum(F, T)
  <2>1. IsSum(G, T)
    BY SumExists, FS_Subset, DmuTxAssumption
  <2> HIDE DEF G
  <2>2. SumFcn[T] = G[T]
    BY <1>1, <2>1, SumAgrees, DmuTxAssumption
  <2> QED BY <2>2, SpaceOfIs DEF G
<1> QED BY <1>1, <1>2

LEMMA SpaceOfRec ==
  /\ SpaceOf({}) = 0
  /\ \A T \in SUBSET Txs : T # {} => SpaceOf(T) = Space[First(T)] + SpaceOf(Rest(T))
<1>1. \A T \in SUBSET Txs :
        SumFcn[T] = IF T = {} THEN 0 ELSE Space[First(T)] + SumFcn[Rest(T)]
  BY SumFcnIs DEF IsSum
<1>2. \A T \in SUBSET Txs : T # {} => Rest(T) \in SUBSET Txs
  BY DEF Rest
<1> QED BY <1>1, <1>2, SumFcnIs

(* Induction over subsets of Txs, by their size.                           *)
LEMMA SpaceOfType == \A T \in SUBSET Txs : SpaceOf(T) \in Nat
<1> DEFINE X == {n \in Nat : \A s \in SUBSET Txs : Cardinality(s) <= n => SpaceOf(s) \in Nat}
<1>0. \A s \in SUBSET Txs : /\ Cardinality(s) \in Nat
                            /\ Cardinality(s) = 0 <=> s = {}
                            /\ s # {} => /\ First(s) \in Txs /\ Rest(s) \in SUBSET Txs
                                         /\ Cardinality(Rest(s)) = Cardinality(s) - 1
  BY RestSmaller, DmuTxAssumption
<1>1. 0 \in X
  BY <1>0, SpaceOfRec
<1>2. ASSUME NEW n \in Nat, n \in X
      PROVE  n + 1 \in X
  <2>1. ASSUME NEW s \in SUBSET Txs, Cardinality(s) <= n + 1, s # {}
        PROVE  SpaceOf(s) \in Nat
    <3>1. Rest(s) \in SUBSET Txs /\ Cardinality(Rest(s)) <= n
      BY <1>0, <2>1
    <3>2. SpaceOf(Rest(s)) \in Nat /\ Space[First(s)] \in Nat
      BY <1>0, <1>2, <2>1, <3>1, DmuTxAssumption
    <3> QED BY <2>1, <3>2, SpaceOfRec
  <2> QED BY <2>1, SpaceOfRec
<1>3. Nat \subseteq X
  <2> HIDE DEF X
  <2> QED BY <1>1, <1>2, NatIn
<1> QED BY <1>0, <1>3

(* Any element may be taken first.                                         *)
LEMMA SpaceOfTake ==
  ASSUME NEW T \in SUBSET Txs, NEW x \in T
  PROVE  SpaceOf(T) = Space[x] + SpaceOf(T \ {x})
<1> DEFINE X == {n \in Nat : \A s \in SUBSET Txs : Cardinality(s) <= n =>
                   \A y \in s : SpaceOf(s) = Space[y] + SpaceOf(s \ {y})}
<1>0. \A s \in SUBSET Txs : /\ Cardinality(s) \in Nat
                            /\ Cardinality(s) = 0 <=> s = {}
                            /\ s # {} => /\ First(s) \in s /\ First(s) \in Txs
                                         /\ Rest(s) \in SUBSET Txs
                                         /\ Cardinality(Rest(s)) = Cardinality(s) - 1
  BY RestSmaller, DmuTxAssumption
<1>1. 0 \in X
  BY <1>0
<1>2. ASSUME NEW n \in Nat, n \in X
      PROVE  n + 1 \in X
  <2>1. ASSUME NEW s \in SUBSET Txs, Cardinality(s) <= n + 1, NEW y \in s
        PROVE  SpaceOf(s) = Space[y] + SpaceOf(s \ {y})
    <3>1. SpaceOf(s) = Space[First(s)] + SpaceOf(Rest(s))
      BY SpaceOfRec
    <3>2. CASE y = First(s)
      BY <3>1, <3>2 DEF Rest
    <3>3. CASE y # First(s)
      <4> DEFINE f == First(s)
      <4> DEFINE u == (s \ {y}) \ {f}
      <4>1. f \in s /\ Rest(s) \in SUBSET Txs /\ Cardinality(Rest(s)) <= n
            /\ y \in Rest(s) /\ Rest(s) \ {y} = u
        BY <1>0, <2>1, <3>3 DEF Rest
      <4>2. SpaceOf(Rest(s)) = Space[y] + SpaceOf(u)
        BY <1>2, <4>1
      <4>3. s \ {y} \in SUBSET Txs /\ f \in s \ {y} /\ Cardinality(s \ {y}) <= n
        <5>1. IsFiniteSet(s)
          BY RestSmaller, DmuTxAssumption
        <5>2. Cardinality(s \ {y}) = Cardinality(s) - 1
          BY <5>1, FS_RemoveElement
        <5> QED BY <1>0, <2>1, <3>3, <4>1, <5>2
      <4>4. SpaceOf(s \ {y}) = Space[f] + SpaceOf(u)
        BY <1>2, <4>3
      <4>5. Space[f] \in Nat /\ Space[y] \in Nat /\ SpaceOf(u) \in Nat
        BY <4>1, SpaceOfType, DmuTxAssumption
      <4> HIDE DEF f, u
      <4>6. SpaceOf(s) = Space[f] + SpaceOf(Rest(s))
        BY <3>1 DEF f
      <4> QED BY <4>2, <4>4, <4>5, <4>6
    <3> QED BY <3>2, <3>3
  <2> QED BY <2>1
<1>3. Nat \subseteq X
  <2> HIDE DEF X
  <2> QED BY <1>1, <1>2, NatIn
<1> QED BY <1>0, <1>3

LEMMA SpaceOfAdd ==
  ASSUME NEW T \in SUBSET Txs, NEW x \in Txs, x \notin T
  PROVE  SpaceOf(T \cup {x}) = SpaceOf(T) + Space[x]
<1>1. (T \cup {x}) \ {x} = T
  OBVIOUS
<1>2. SpaceOf(T \cup {x}) = Space[x] + SpaceOf(T)
  BY <1>1, SpaceOfTake
<1>3. Space[x] \in Nat /\ SpaceOf(T) \in Nat
  BY SpaceOfType, DmuTxAssumption
<1> QED BY <1>2, <1>3

LEMMA SpaceOfMono ==
  ASSUME NEW U \in SUBSET Txs, NEW T \in SUBSET U
  PROVE  SpaceOf(T) <= SpaceOf(U)
<1> DEFINE X == {n \in Nat : \A s \in SUBSET Txs : Cardinality(s) <= n =>
                   \A r \in SUBSET s : SpaceOf(r) <= SpaceOf(s)}
<1>0. \A s \in SUBSET Txs : /\ IsFiniteSet(s) /\ Cardinality(s) \in Nat
                            /\ Cardinality(s) = 0 <=> s = {}
  BY RestSmaller, DmuTxAssumption
<1>1. 0 \in X
  BY <1>0, SpaceOfRec
<1>2. ASSUME NEW n \in Nat, n \in X
      PROVE  n + 1 \in X
  <2>1. ASSUME NEW s \in SUBSET Txs, Cardinality(s) <= n + 1, NEW r \in SUBSET s
        PROVE  SpaceOf(r) <= SpaceOf(s)
    <3>1. CASE r = s
      BY <3>1, SpaceOfType
    <3>2. CASE r # s
      <4>1. PICK y \in s : y \notin r
        BY <3>2
      <4>2. s \ {y} \in SUBSET Txs /\ r \in SUBSET (s \ {y})
            /\ Cardinality(s \ {y}) = Cardinality(s) - 1
        BY <1>0, <4>1, FS_RemoveElement
      <4>3. SpaceOf(r) <= SpaceOf(s \ {y})
        BY <1>0, <1>2, <2>1, <4>2
      <4>4. SpaceOf(s) = Space[y] + SpaceOf(s \ {y})
        BY SpaceOfTake
      <4>5. Space[y] \in Nat /\ SpaceOf(s \ {y}) \in Nat /\ SpaceOf(r) \in Nat
        BY <4>2, SpaceOfType, DmuTxAssumption
      <4> QED BY <4>3, <4>4, <4>5
    <3> QED BY <3>1, <3>2
  <2> QED BY <2>1
<1>3. Nat \subseteq X
  <2> HIDE DEF X
  <2> QED BY <1>1, <1>2, NatIn
<1> QED BY <1>0, <1>3

(* The largest transaction.                                                *)
MaxSpace == Max({Space[t] : t \in Txs})

LEMMA MaxSpaceIs == MaxSpace \in Nat /\ \A t \in Txs : Space[t] <= MaxSpace
<1> DEFINE S == {Space[t] : t \in Txs}
<1> DEFINE B == {n \in Nat : \A x \in S : x <= n}
<1>1. SpaceOf(Txs) \in B
  <2>1. \A t \in Txs : Space[t] <= SpaceOf(Txs)
    <3> TAKE t \in Txs
    <3>1. SpaceOf(Txs) = Space[t] + SpaceOf(Txs \ {t})
      BY SpaceOfTake
    <3>2. Space[t] \in Nat /\ SpaceOf(Txs \ {t}) \in Nat
      BY SpaceOfType, DmuTxAssumption
    <3> QED BY <3>1, <3>2
  <2> QED BY <2>1, SpaceOfType
<1>2. PICK m \in B : \A n \in B : ~(n < m)
  <2>1. B \subseteq Nat
    OBVIOUS
  <2>2. \E m \in B : \A y \in B : ~(<<y, m>> \in OpToRel(<, Nat))
    <3> HIDE DEF B
    <3> QED BY <1>1, <2>1, NatLessThanWellFounded, WFMin
  <2> QED BY <2>1, <2>2 DEF OpToRel
<1>3. S \subseteq Nat /\ S # {}
  BY DmuTxAssumption
<1>4. m \in S
  <2> SUFFICES ASSUME m \notin S PROVE FALSE
    OBVIOUS
  <2>1. \A x \in S : x < m
    BY <1>2, <1>3
  <2>2. m # 0
    BY <1>3, <2>1
  <2>3. m - 1 \in B
    BY <1>3, <2>1, <2>2
  <2> QED BY <1>2, <2>3
<1>5. m \in S /\ \A y \in S : m >= y
  BY <1>2, <1>3, <1>4
<1>6. MaxSpace \in S /\ \A y \in S : MaxSpace >= y
  <2> HIDE DEF S
  <2>1. MaxSpace = Max(S)
    BY DEF MaxSpace, S
  <2> QED BY <1>5, <2>1 DEF Max
<1> QED BY <1>3, <1>6

-----------------------------------------------------------------------------
(* Accounting of dirty data, reservations and the quota                    *)

Reserved(i) == {t \in Txs : /\ pc[t] \in {"assigned", "locked", "commit"}
                            /\ Slot(tx[t].txg) = i}
(* Those of them that have yet to dirty what they reserved.                *)
Undirtied(i) == {t \in Txs : /\ pc[t] \in {"assigned", "locked"}
                             /\ Slot(tx[t].txg) = i}
ToDirty == [i \in Slots |-> SpaceOf(Undirtied(i))]

(* At most three groups are live, so that their slots differ.              *)
GapInv ==
    /\ spa \in {"idle", "data", "dir"}
    /\ open - synced <= 3
    /\ spa = "idle" => open - synced <= 2

(* What a group has dirtied was counted as dirty in the directory too, and *)
(* stays so until the group is synced; what is on disk, dirty or reserved  *)
(* and yet to be dirtied exceeds the quota by less than one transaction.   *)
AcctInv ==
    /\ dp_dirty_pertxg \in [Slots -> Nat] /\ dd_space_towrite \in [Slots -> Nat]
    /\ dd_tempreserved \in [Slots -> Nat] /\ dd_used \in Nat
    /\ dp_dirty_total = Sum(dp_dirty_pertxg)
    /\ \A i \in Slots : dp_dirty_pertxg[i] <= dd_space_towrite[i]
    /\ \A i \in Slots : dp_dirty_pertxg[i] > 0 =>
         \E g \in synced + 1 .. open : Slot(g) = i
    /\ spa = "dir" => dp_dirty_pertxg[Slot(synced + 1)] = 0
    /\ \A i \in Slots : dd_tempreserved[i] = SpaceOf(Reserved(i))
    /\ dd_used + Sum(dp_dirty_pertxg) + Sum(ToDirty) < Quota + MaxSpace

LEMMA SlotType == \A g \in Nat : Slot(g) \in Slots
BY DEF Slot, Slots, TXG_SIZE

LEMMA SlotsDiffer ==
  ASSUME NEW a \in Nat, NEW b \in Nat, b < a, a - b <= 3
  PROVE  Slot(a) # Slot(b)
BY DEF Slot, TXG_SIZE

LEMMA SumType == \A f \in [Slots -> Nat] : Sum(f) \in Nat
BY DEF Slots, Sum, TXG_SIZE

LEMMA SumExcept ==
  ASSUME NEW f \in [Slots -> Nat], NEW s \in Slots, NEW v \in Nat
  PROVE  Sum([f EXCEPT ![s] = v]) = Sum(f) - f[s] + v
<1>1. s \in {0, 1, 2, 3} /\ Slots = {0, 1, 2, 3}
  BY DEF Slots, TXG_SIZE
<1>2. f[0] \in Nat /\ f[1] \in Nat /\ f[2] \in Nat /\ f[3] \in Nat
  BY <1>1
<1> QED BY <1>1, <1>2 DEF Sum

LEMMA SumMono ==
  ASSUME NEW f \in [Slots -> Nat], NEW g \in [Slots -> Nat],
         \A i \in Slots : f[i] <= g[i]
  PROVE  Sum(f) <= Sum(g)
<1>1. Slots = {0, 1, 2, 3}
  BY DEF Slots, TXG_SIZE
<1>2. /\ f[0] \in Nat /\ f[1] \in Nat /\ f[2] \in Nat /\ f[3] \in Nat
      /\ g[0] \in Nat /\ g[1] \in Nat /\ g[2] \in Nat /\ g[3] \in Nat
      /\ f[0] <= g[0] /\ f[1] <= g[1] /\ f[2] <= g[2] /\ f[3] <= g[3]
  BY <1>1
<1> QED BY <1>2 DEF Sum

LEMMA ToDirtyType == ToDirty \in [Slots -> Nat]
<1>1. \A i \in Slots : Undirtied(i) \in SUBSET Txs
  BY DEF Undirtied
<1> QED BY <1>1, SpaceOfType DEF ToDirty

LEMMA AcctInit == Init => GapInv /\ AcctInv
<1> SUFFICES ASSUME Init PROVE GapInv /\ AcctInv OBVIOUS
<1>1. GapInv
  BY DEF Init, GapInv, TXG0
<1>2. \A i \in Slots : Reserved(i) = {} /\ Undirtied(i) = {}
  BY DEF Init, Reserved, Undirtied
<1>3. ToDirty = [i \in Slots |-> 0]
  BY <1>2, SpaceOfRec DEF ToDirty
<1>4. Sum([i \in Slots |-> 0]) = 0
  BY DEF Sum, Slots, TXG_SIZE
<1>5. 0 < Quota + MaxSpace
  BY MaxSpaceIs, DmuTxAssumption
<1>6. \A i \in Slots : SpaceOf(Reserved(i)) = 0
  BY <1>2, SpaceOfRec
<1>7. TXG0 - 1 \in Nat /\ \A i \in Slots : dp_dirty_pertxg[i] = 0
  BY DEF Init, TXG0
<1>8. /\ dp_dirty_total = Sum(dp_dirty_pertxg)
      /\ dd_used + Sum(dp_dirty_pertxg) + Sum(ToDirty) < Quota + MaxSpace
  BY <1>3, <1>4, <1>5 DEF Init
<1>9. spa # "dir" /\ dd_used \in Nat
      /\ dp_dirty_pertxg \in [Slots -> Nat] /\ dd_space_towrite \in [Slots -> Nat]
      /\ dd_tempreserved \in [Slots -> Nat]
      /\ \A i \in Slots : dd_space_towrite[i] = 0 /\ dd_tempreserved[i] = 0
  BY DEF Init
<1> QED BY <1>1, <1>6, <1>7, <1>8, <1>9 DEF AcctInv

(* Steps that change no account, and leave every transaction that has      *)
(* reserved or is to dirty something where it was.                         *)
LEMMA AcctFrame ==
  ASSUME AcctInv, UNCHANGED <<dirtyVars, dirVars, synced>>,
         open \in Nat, synced \in Nat, open' \in Nat, open' >= open,
         spa' = "dir" => spa = "dir",
         \A t \in Txs :
           /\ pc'[t] \in {"assigned", "locked", "commit"} <=>
                pc[t] \in {"assigned", "locked", "commit"}
           /\ pc'[t] \in {"assigned", "locked"} <=> pc[t] \in {"assigned", "locked"}
           /\ pc[t] \in {"assigned", "locked", "commit"} => tx'[t].txg = tx[t].txg
  PROVE  AcctInv'
<1>1. \A i \in Slots : Reserved(i)' = Reserved(i) /\ Undirtied(i)' = Undirtied(i)
  BY DEF Reserved, Undirtied
<1>2. ToDirty' = ToDirty
  BY <1>1 DEF ToDirty
<1>3. \A i \in Slots : dp_dirty_pertxg[i] > 0 =>
        \E g \in synced + 1 .. open' : Slot(g) = i
  <2>1. synced + 1 .. open \subseteq synced + 1 .. open'
    OBVIOUS
  <2> QED BY <2>1 DEF AcctInv
<1> QED BY <1>1, <1>2, <1>3 DEF AcctInv, dirtyVars, dirVars

(* A reservation is made: it is counted as yet to be dirtied.              *)
LEMMA ReserveStep ==
  ASSUME DInv, GapInv, AcctInv, NEW t \in Txs, TempreserveSpace(t)
  PROVE  AcctInv'
<1>a. /\ pc \in [Txs -> Pcs] /\ tx \in [Txs -> TxRec] /\ pc[t] = "holds"
      /\ UNCHANGED <<poolVars, dirtyVars, dd_used, dd_space_towrite>>
      /\ open \in Nat /\ synced \in Nat /\ tx[t].txg \in Nat
  BY DEF DInv, TxTypes, GroupInv, TempreserveSpace, TxRec
<1>1. CASE dd_used + EstInflight >= Quota
  <2>1. UNCHANGED <<dirtyVars, dirVars, synced, open, spa>>
    BY <1>1, <1>a DEF TempreserveSpace, dirVars, poolVars
  <2>2. /\ pc'[t] = "unhold"
        /\ \A u \in Txs : u # t => pc'[u] = pc[u] /\ tx'[u] = tx[u]
    BY <1>1, <1>a DEF TempreserveSpace, At, Tx
  <2> QED BY <1>a, <2>1, <2>2, AcctFrame
<1>2. CASE dd_used + EstInflight < Quota
  <2>0. PICK s \in Slots : s = Slot(tx[t].txg)
    BY <1>a, SlotType
  <2>n. /\ dd_used \in Nat /\ Sum(dd_space_towrite) \in Nat /\ Sum(dd_tempreserved) \in Nat
        /\ Quota \in Nat /\ dd_tempreserved[s] \in Nat /\ Space[t] \in Nat
        /\ Sum(dp_dirty_pertxg) \in Nat /\ Sum(ToDirty) \in Nat
    BY <2>0, SumType, ToDirtyType, DmuTxAssumption DEF AcctInv
  <2>1. /\ dd_tempreserved' = [dd_tempreserved EXCEPT ![s] = @ + Space[t]]
        /\ pc' = [pc EXCEPT ![t] = "assigned"] /\ tx' = tx
    <3>1. ~(dd_used + EstInflight >= Quota)
      BY <1>2, <2>n DEF EstInflight
    <3> QED BY <2>0, <3>1 DEF TempreserveSpace, At
  <2>2. \A i \in Slots :
          /\ Reserved(i)' = IF i = s THEN Reserved(i) \cup {t} ELSE Reserved(i)
          /\ Undirtied(i)' = IF i = s THEN Undirtied(i) \cup {t} ELSE Undirtied(i)
          /\ t \notin Reserved(i) /\ t \notin Undirtied(i)
          /\ Reserved(i) \in SUBSET Txs /\ Undirtied(i) \in SUBSET Txs
    BY <1>a, <2>0, <2>1 DEF Reserved, Undirtied
  <2>3. /\ SpaceOf(Reserved(s)') = SpaceOf(Reserved(s)) + Space[t]
        /\ SpaceOf(Undirtied(s)') = SpaceOf(Undirtied(s)) + Space[t]
    BY <2>0, <2>2, SpaceOfAdd
  <2>4. \A i \in Slots : dd_tempreserved'[i] = SpaceOf(Reserved(i)')
    BY <2>0, <2>1, <2>2, <2>3 DEF AcctInv
  <2>5. dd_tempreserved' \in [Slots -> Nat]
    <3>1. dd_tempreserved[s] + Space[t] \in Nat
      BY <2>n
    <3> QED BY <2>0, <2>1, <3>1 DEF AcctInv
  <2>6. Sum(ToDirty') = Sum(ToDirty) + Space[t]
    <3>1. ToDirty[s] = SpaceOf(Undirtied(s)) /\ ToDirty[s] \in Nat
      BY <2>0, ToDirtyType DEF ToDirty
    <3>2. ToDirty' = [ToDirty EXCEPT ![s] = ToDirty[s] + Space[t]]
      BY <2>0, <2>2, <2>3, <3>1 DEF ToDirty
    <3>3. ToDirty[s] + Space[t] \in Nat
      BY <2>n, <3>1
    <3>4. Sum(ToDirty') = Sum(ToDirty) - ToDirty[s] + (ToDirty[s] + Space[t])
      BY <2>0, <3>2, <3>3, SumExcept, ToDirtyType
    <3> QED BY <2>n, <3>1, <3>4
  <2>7. Sum(dp_dirty_pertxg) <= Sum(dd_space_towrite)
    BY SumMono DEF AcctInv
  <2>8. Sum(ToDirty) <= Sum(dd_tempreserved)
    <3>1. \A i \in Slots : ToDirty[i] <= dd_tempreserved[i]
      <4>1. \A i \in Slots : Undirtied(i) \in SUBSET Reserved(i)
        BY DEF Undirtied, Reserved
      <4>2. \A i \in Slots : SpaceOf(Undirtied(i)) <= SpaceOf(Reserved(i))
        BY <2>2, <4>1, SpaceOfMono
      <4> QED BY <4>2 DEF ToDirty, AcctInv
    <3> QED BY <3>1, SumMono, ToDirtyType DEF AcctInv
  <2>9. dd_used + Sum(dp_dirty_pertxg) + Sum(ToDirty') < Quota + MaxSpace
    <3>1. dd_used + (Sum(dd_space_towrite) + Sum(dd_tempreserved)) < Quota
      BY <1>2 DEF EstInflight
    <3>2. Space[t] <= MaxSpace /\ MaxSpace \in Nat
      BY MaxSpaceIs
    <3> QED BY <2>n, <2>6, <2>7, <2>8, <3>1, <3>2
  <2> QED BY <1>a, <2>4, <2>5, <2>9 DEF AcctInv, dirtyVars, poolVars
<1>3. dd_used + EstInflight \in Int /\ Quota \in Int
  <2>1. /\ Sum(dd_space_towrite) \in Nat /\ Sum(dd_tempreserved) \in Nat
        /\ dd_used \in Nat /\ Quota \in Nat
    BY SumType, DmuTxAssumption DEF AcctInv
  <2> QED BY <2>1 DEF EstInflight
<1> QED BY <1>1, <1>2, <1>3

(* One that is to dirty something does so, or fails.                       *)
LEMMA UndirtiedLeaves ==
  ASSUME DInv, NEW t \in Txs, pc[t] \in {"assigned", "locked"}, pc'[t] = "commit",
         tx' = tx, \A u \in Txs : u # t =>
           pc'[u] = pc[u] \/ (pc[u] = "space_sleep" /\ pc'[u] = "wait")
  PROVE  /\ \A i \in Slots : Reserved(i)' = Reserved(i)
         /\ Sum(ToDirty) \in Nat /\ Sum(ToDirty') \in Nat /\ Space[t] \in Nat
         /\ Sum(ToDirty') = Sum(ToDirty) - Space[t]
<1> DEFINE s == Slot(tx[t].txg)
<1>0. s \in Slots
  BY SlotType DEF DInv, TxTypes, TxRec
<1>1. \A i \in Slots : Reserved(i)' = Reserved(i)
  BY DEF Reserved
<1>2. \A i \in Slots :
        /\ Undirtied(i)' = IF i = s THEN Undirtied(i) \ {t} ELSE Undirtied(i)
        /\ Undirtied(i) \in SUBSET Txs
  BY DEF Undirtied
<1>3. t \in Undirtied(s)
  BY DEF Undirtied
<1>4. SpaceOf(Undirtied(s)) = Space[t] + SpaceOf(Undirtied(s) \ {t})
  BY <1>0, <1>2, <1>3, SpaceOfTake
<1>5. SpaceOf(Undirtied(s) \ {t}) \in Nat /\ Space[t] \in Nat
  BY <1>0, <1>2, SpaceOfType, DmuTxAssumption
<1> DEFINE v == SpaceOf(Undirtied(s) \ {t})
<1>6. ToDirty' = [ToDirty EXCEPT ![s] = v]
  BY <1>0, <1>2 DEF ToDirty
<1>7. ToDirty[s] = Space[t] + v /\ ToDirty \in [Slots -> Nat]
  BY <1>0, <1>4, ToDirtyType DEF ToDirty
<1>8. v \in Nat /\ Sum(ToDirty') = Sum(ToDirty) - ToDirty[s] + v
  BY <1>0, <1>5, <1>6, <1>7, SumExcept
<1>9. ToDirty' \in [Slots -> Nat]
  BY <1>0, <1>6, <1>7, <1>8
<1>10. Sum(ToDirty) \in Nat /\ Sum(ToDirty') \in Nat
  BY <1>7, <1>9, SumType
<1> QED BY <1>1, <1>5, <1>7, <1>8, <1>10

LEMMA WorkFailsAcct ==
  ASSUME DInv, AcctInv, NEW t \in Txs, WorkFails(t)
  PROVE  AcctInv'
<1>1. /\ pc[t] \in {"assigned", "locked"} /\ pc'[t] = "commit" /\ tx' = tx
      /\ \A u \in Txs : u # t => pc'[u] = pc[u]
      /\ UNCHANGED <<dirtyVars, dirVars, synced, open, spa>>
  BY DEF WorkFails, Works, At, DInv, TxTypes, poolVars
<1>2. /\ \A i \in Slots : Reserved(i)' = Reserved(i)
      /\ Sum(ToDirty) \in Nat /\ Sum(ToDirty') \in Nat /\ Space[t] \in Nat
      /\ Sum(ToDirty') = Sum(ToDirty) - Space[t]
  BY <1>1, UndirtiedLeaves
<1>3. Sum(dp_dirty_pertxg) \in Nat /\ dd_used \in Nat /\ Quota \in Nat /\ MaxSpace \in Nat
  BY SumType, MaxSpaceIs, DmuTxAssumption DEF AcctInv
<1>4. dd_used + Sum(dp_dirty_pertxg) + Sum(ToDirty) < Quota + MaxSpace
  BY DEF AcctInv
<1>5. dd_used + Sum(dp_dirty_pertxg) + Sum(ToDirty') < Quota + MaxSpace
  BY <1>2, <1>3, <1>4
<1> QED BY <1>1, <1>2, <1>5 DEF AcctInv, dirtyVars, dirVars

(* Its group is live, and is not the one that has been written.            *)
LEMMA DirtyAcct ==
  ASSUME DInv, GapInv, AcctInv, NEW t \in Txs, Dirty(t)
  PROVE  AcctInv'
<1>0. PICK s \in Slots : s = Slot(tx[t].txg)
  BY SlotType DEF DInv, TxTypes, TxRec
<1>1. /\ pc[t] \in {"assigned", "locked"} /\ tx' = tx
      /\ UNCHANGED <<dd_used, dd_tempreserved, synced, open, spa>>
      /\ dd_space_towrite' = [dd_space_towrite EXCEPT ![s] = @ + Space[t]]
      /\ dp_dirty_pertxg' = [dp_dirty_pertxg EXCEPT ![s] = @ + Space[t]]
      /\ dp_dirty_total' = dp_dirty_total + Space[t]
      /\ DirtyDelta([pc EXCEPT ![t] = "commit"], woken \ {t},
                    dp_dirty_total + Space[t])
  BY <1>0 DEF Dirty, Works, poolVars
<1>2. /\ pc'[t] = "commit"
      /\ \A u \in Txs : u # t =>
           pc'[u] = pc[u] \/ (pc[u] = "space_sleep" /\ pc'[u] = "wait")
  <2> DEFINE p == [pc EXCEPT ![t] = "commit"]
  <2>1. p \in [Txs -> Pcs] /\ p[t] = "commit" /\ \A u \in Txs : u # t => p[u] = pc[u]
    BY DEF Pcs, DInv, TxTypes
  <2>2. pc' = p \/ \E u \in SpaceSleepers(p) : pc' = [p EXCEPT ![u] = "wait"]
    BY <1>1 DEF DirtyDelta, Signal
  <2> QED BY <2>1, <2>2 DEF SpaceSleepers
<1>3. /\ \A i \in Slots : Reserved(i)' = Reserved(i)
      /\ Sum(ToDirty) \in Nat /\ Sum(ToDirty') \in Nat /\ Space[t] \in Nat
      /\ Sum(ToDirty') = Sum(ToDirty) - Space[t]
  BY <1>1, <1>2, UndirtiedLeaves
<1> DEFINE d == dp_dirty_pertxg[s]
<1> DEFINE w == dd_space_towrite[s]
<1>4. d \in Nat /\ w \in Nat /\ d <= w /\ d + Space[t] \in Nat /\ w + Space[t] \in Nat
  BY <1>3 DEF AcctInv
<1>5. /\ dp_dirty_pertxg' \in [Slots -> Nat] /\ dd_space_towrite' \in [Slots -> Nat]
      /\ dp_dirty_pertxg'[s] = d + Space[t] /\ dd_space_towrite'[s] = w + Space[t]
      /\ \A i \in Slots : i # s => /\ dp_dirty_pertxg'[i] = dp_dirty_pertxg[i]
                                   /\ dd_space_towrite'[i] = dd_space_towrite[i]
  BY <1>1, <1>4 DEF AcctInv
<1>6. \A i \in Slots : dp_dirty_pertxg'[i] <= dd_space_towrite'[i]
  BY <1>3, <1>4, <1>5 DEF AcctInv
<1>7. Sum(dp_dirty_pertxg') = Sum(dp_dirty_pertxg) + Space[t]
  <2>1. Sum(dp_dirty_pertxg') = Sum(dp_dirty_pertxg) - d + (d + Space[t])
    BY <1>1, <1>4, SumExcept DEF AcctInv
  <2>2. Sum(dp_dirty_pertxg) \in Nat
    BY SumType DEF AcctInv
  <2> QED BY <1>3, <1>4, <2>1, <2>2
<1>8. tx[t].txg \in synced + 1 .. open /\ (spa # "idle" => tx[t].txg # synced + 1)
      /\ tx[t].txg \in Nat /\ synced \in Nat /\ open \in Nat
  <2>1. pc[t] \in Holding
    BY <1>1 DEF Holding
  <2> QED BY <2>1 DEF DInv, GroupInv, TxTypes, TxRec
<1>9. \A i \in Slots : dp_dirty_pertxg'[i] > 0 => \E g \in synced + 1 .. open : Slot(g) = i
  BY <1>0, <1>5, <1>8 DEF AcctInv
<1>10. spa = "dir" => dp_dirty_pertxg'[Slot(synced + 1)] = 0
  <2> SUFFICES ASSUME spa = "dir" PROVE dp_dirty_pertxg'[Slot(synced + 1)] = 0
    OBVIOUS
  <2>1. synced + 1 \in Nat /\ synced + 1 < tx[t].txg /\ tx[t].txg - (synced + 1) <= 3
    BY <1>8 DEF GapInv
  <2>2. s # Slot(synced + 1) /\ Slot(synced + 1) \in Slots
    BY <1>0, <1>8, <2>1, SlotsDiffer, SlotType
  <2> QED BY <1>5, <2>2 DEF AcctInv
<1>11. dd_used + Sum(dp_dirty_pertxg') + Sum(ToDirty') < Quota + MaxSpace
  <2>1. Sum(dp_dirty_pertxg) \in Nat /\ dd_used \in Nat /\ Quota \in Nat
        /\ MaxSpace \in Nat
    BY SumType, MaxSpaceIs, DmuTxAssumption DEF AcctInv
  <2>2. dd_used + Sum(dp_dirty_pertxg) + Sum(ToDirty) < Quota + MaxSpace
    BY DEF AcctInv
  <2> QED BY <1>3, <1>7, <2>1, <2>2
<1>12. dp_dirty_total' = Sum(dp_dirty_pertxg')
  BY <1>1, <1>7 DEF AcctInv
<1> QED BY <1>1, <1>3, <1>5, <1>6, <1>9, <1>10, <1>11, <1>12 DEF AcctInv

(* dmu_tx_commit gives the reservation back.                               *)
LEMMA ClearAcct ==
  ASSUME DInv, AcctInv, NEW t \in Txs, TempreserveClear(t)
  PROVE  AcctInv'
<1>0. PICK s \in Slots : s = Slot(tx[t].txg)
  BY SlotType DEF DInv, TxTypes, TxRec
<1>1. /\ pc[t] = "commit" /\ pc'[t] = "rele" /\ tx' = tx
      /\ \A u \in Txs : u # t => pc'[u] = pc[u]
      /\ UNCHANGED <<dirtyVars, dd_used, dd_space_towrite, synced, open, spa>>
      /\ dd_tempreserved' = [dd_tempreserved EXCEPT ![s] = @ - Space[t]]
  BY <1>0 DEF TempreserveClear, At, DInv, TxTypes, poolVars
<1>2. \A i \in Slots :
        /\ Undirtied(i)' = Undirtied(i)
        /\ Reserved(i)' = IF i = s THEN Reserved(i) \ {t} ELSE Reserved(i)
        /\ Reserved(i) \in SUBSET Txs
  BY <1>0, <1>1 DEF Undirtied, Reserved
<1>3. t \in Reserved(s)
  BY <1>0, <1>1 DEF Reserved
<1>4. /\ SpaceOf(Reserved(s)) = Space[t] + SpaceOf(Reserved(s) \ {t})
      /\ Space[t] \in Nat /\ SpaceOf(Reserved(s) \ {t}) \in Nat
  BY <1>2, <1>3, SpaceOfTake, SpaceOfType, DmuTxAssumption
<1>5. dd_tempreserved[s] - Space[t] = SpaceOf(Reserved(s) \ {t})
  BY <1>4 DEF AcctInv
<1>6. /\ dd_tempreserved' \in [Slots -> Nat]
      /\ \A i \in Slots : dd_tempreserved'[i] = SpaceOf(Reserved(i)')
  BY <1>1, <1>2, <1>4, <1>5 DEF AcctInv
<1>7. ToDirty' = ToDirty
  BY <1>2 DEF ToDirty
<1> QED BY <1>1, <1>6, <1>7 DEF AcctInv, dirtyVars

(* Part n of what a group has dirtied is written.                          *)
LEMMA WriteAcct ==
  ASSUME DInv, AcctInv, spa = "data", NEW n \in Nat,
         n <= dp_dirty_pertxg[Slot(synced + 1)],
         UndirtySpace(n, synced + 1), dd_used' = dd_used + n,
         spa' = "dir" => n = dp_dirty_pertxg[Slot(synced + 1)],
         UNCHANGED <<open, synced, dd_tempreserved, dd_space_towrite, tx>>
  PROVE  AcctInv'
<1>0. PICK s \in Slots : s = Slot(synced + 1)
  <2>1. synced + 1 \in Nat
    BY DEF DInv, GroupInv
  <2> QED BY <2>1, SlotType
<1> DEFINE d == dp_dirty_pertxg[s]
<1>a. d \in Nat /\ n <= d /\ d - n \in Nat /\ dp_dirty_pertxg \in [Slots -> Nat]
  BY <1>0 DEF AcctInv
<1>1. /\ dp_dirty_pertxg' = [dp_dirty_pertxg EXCEPT ![s] = d - n]
      /\ dp_dirty_total' = dp_dirty_total - n
  <2>1. CASE n = 0
    <3>1. UNCHANGED dirtyVars
      BY <2>1 DEF UndirtySpace
    <3>2. dp_dirty_total \in Nat
      BY SumType DEF AcctInv
    <3> QED BY <1>a, <2>1, <3>1, <3>2 DEF dirtyVars
  <2>2. CASE n # 0
    <3>1. PICK less : less = IF d < n THEN d ELSE n
      OBVIOUS
    <3>2. less = n
      BY <1>a, <3>1
    <3>3. /\ dp_dirty_pertxg' = [dp_dirty_pertxg EXCEPT ![s] = @ - less]
          /\ dp_dirty_total' = dp_dirty_total - less
      BY <1>0, <2>2, <3>1 DEF UndirtySpace
    <3> QED BY <1>a, <3>2, <3>3
  <2> QED BY <2>1, <2>2
<1>2. \A u \in Txs : pc'[u] = pc[u] \/ (pc[u] = "space_sleep" /\ pc'[u] = "wait")
  <2>1. pc' = pc \/ \E u \in SpaceSleepers(pc) : pc' = [pc EXCEPT ![u] = "wait"]
    BY DEF UndirtySpace, DirtyDelta, Signal
  <2> QED BY <2>1 DEF SpaceSleepers, DInv, TxTypes
<1>3. \A i \in Slots : Reserved(i)' = Reserved(i) /\ Undirtied(i)' = Undirtied(i)
  BY <1>2 DEF Reserved, Undirtied
<1>4. ToDirty' = ToDirty
  BY <1>3 DEF ToDirty
<1>5. /\ dp_dirty_pertxg' \in [Slots -> Nat] /\ dp_dirty_pertxg'[s] = d - n
      /\ \A i \in Slots : i # s => dp_dirty_pertxg'[i] = dp_dirty_pertxg[i]
  BY <1>a, <1>1
<1>6. \A i \in Slots : dp_dirty_pertxg'[i] <= dp_dirty_pertxg[i]
  BY <1>a, <1>5
<1>7. \A i \in Slots : /\ dp_dirty_pertxg[i] \in Nat /\ dp_dirty_pertxg'[i] \in Nat
                       /\ dd_space_towrite[i] \in Nat
                       /\ dp_dirty_pertxg[i] <= dd_space_towrite[i]
  BY <1>5 DEF AcctInv
<1>8. Sum(dp_dirty_pertxg') = Sum(dp_dirty_pertxg) - n /\ Sum(dp_dirty_pertxg) \in Nat
  <2>1. Sum(dp_dirty_pertxg') = Sum(dp_dirty_pertxg) - d + (d - n)
    BY <1>a, <1>1, SumExcept
  <2>2. Sum(dp_dirty_pertxg) \in Nat
    BY <1>a, SumType
  <2> QED BY <1>a, <2>1, <2>2
<1>9. \A i \in Slots : dp_dirty_pertxg'[i] <= dd_space_towrite[i]
  BY <1>6, <1>7
<1>10. \A i \in Slots : dp_dirty_pertxg'[i] > 0 =>
         \E g \in synced + 1 .. open : Slot(g) = i
  <2>1. \A i \in Slots : dp_dirty_pertxg'[i] > 0 => dp_dirty_pertxg[i] > 0
    BY <1>6, <1>7
  <2> QED BY <2>1 DEF AcctInv
<1>11. spa' = "dir" => dp_dirty_pertxg'[Slot(synced + 1)] = 0
  BY <1>0, <1>a, <1>5
<1>12. dd_used' \in Nat
       /\ dd_used' + Sum(dp_dirty_pertxg') + Sum(ToDirty) < Quota + MaxSpace
  <2>1. Sum(ToDirty) \in Nat /\ dd_used \in Nat /\ Quota \in Nat /\ MaxSpace \in Nat
    BY SumType, ToDirtyType, MaxSpaceIs, DmuTxAssumption DEF AcctInv
  <2>2. dd_used + Sum(dp_dirty_pertxg) + Sum(ToDirty) < Quota + MaxSpace
    BY DEF AcctInv
  <2> QED BY <1>8, <2>1, <2>2
<1>13. dp_dirty_total' = Sum(dp_dirty_pertxg')
  BY <1>1, <1>8 DEF AcctInv
<1> QED BY <1>3, <1>4, <1>5, <1>9, <1>10, <1>11, <1>12, <1>13 DEF AcctInv

(* The slot of the synced group is empty: no other live group uses it.     *)
LEMMA SyncDoneAcct ==
  ASSUME DInv, GapInv, AcctInv, SyncDone
  PROVE  AcctInv'
<1>0. PICK s \in Slots : s = Slot(synced + 1)
  <2>1. synced + 1 \in Nat
    BY DEF DInv, GroupInv
  <2> QED BY <2>1, SlotType
<1>1. /\ spa = "dir" /\ spa' = "idle" /\ synced' = synced + 1
      /\ dd_space_towrite' = [dd_space_towrite EXCEPT ![s] = 0]
      /\ UNCHANGED <<open, dirtyVars, dd_used, dd_tempreserved, pc, tx>>
  BY <1>0 DEF SyncDone
<1>2. /\ \A i \in Slots : Reserved(i)' = Reserved(i) /\ Undirtied(i)' = Undirtied(i)
      /\ ToDirty' = ToDirty
  BY <1>1 DEF Reserved, Undirtied, ToDirty
<1>3. dp_dirty_pertxg[s] = 0
  BY <1>0, <1>1 DEF AcctInv
<1>4. /\ dd_space_towrite' \in [Slots -> Nat]
      /\ \A i \in Slots : dp_dirty_pertxg[i] <= dd_space_towrite'[i]
  BY <1>1, <1>3 DEF AcctInv
<1>5. ASSUME NEW i \in Slots, dp_dirty_pertxg[i] > 0
      PROVE  \E g \in (synced + 1) + 1 .. open : Slot(g) = i
  <2>1. PICK g \in synced + 1 .. open : Slot(g) = i
    BY <1>5 DEF AcctInv
  <2>2. g # synced + 1
    BY <1>0, <1>3, <1>5, <2>1
  <2>3. open \in Nat /\ synced \in Nat
    BY DEF DInv, GroupInv
  <2>4. g \in (synced + 1) + 1 .. open
    BY <2>2, <2>3
  <2> QED BY <2>1, <2>4
<1> QED BY <1>1, <1>2, <1>4, <1>5 DEF AcctInv, dirtyVars

LEMMA GapStep == DInv /\ GapInv /\ [Next]_vars => GapInv'
<1> SUFFICES ASSUME DInv, GapInv, [Next]_vars PROVE GapInv' OBVIOUS
<1>a. open \in Nat /\ synced \in Nat
  BY DEF DInv, GroupInv
<1>1. CASE OpenNext
  BY <1>1, <1>a DEF OpenNext, GapInv
<1>2. CASE SyncBegin
  BY <1>2, <1>a DEF SyncBegin, GapInv
<1>3. CASE SyncDone
  BY <1>3, <1>a DEF SyncDone, GapInv
<1>4. CASE PhysDone \/ SyncData \/ Suspend \/ Resume
  BY <1>4, <1>a DEF PhysDone, SyncData, Suspend, Resume, poolVars, GapInv
<1>5. ASSUME NEW t \in Txs, TxStep(t)
      PROVE  UNCHANGED poolVars
  BY <1>5 DEF TxStep, Top, TopEnds, TryAssign, HoldOpen, HoldDnode,
       TempreserveSpace, RemoveHold, Unassigned, WaitDirty, Wait, WaitDnode,
       WaitSynced, TakeLock, Dirty, WorkFails, TempreserveClear, ReleToSync
<1>6. CASE UNCHANGED vars
  BY <1>6 DEF vars, poolVars, GapInv
<1> QED BY <1>1, <1>2, <1>3, <1>4, <1>5, <1>6 DEF Next, PoolStep, poolVars, GapInv

(* The steps of a transaction that has reserved nothing, and those that    *)
(* leave its reservation alone.                                            *)
LEMMA QuietSteps ==
  ASSUME DInv, AcctInv, NEW t \in Txs,
         \/ Top(t) \/ TopEnds(t) \/ TryAssign(t) \/ HoldOpen(t) \/ HoldDnode(t)
         \/ RemoveHold(t) \/ Unassigned(t) \/ WaitDirty(t) \/ Wait(t) \/ WaitDnode(t)
         \/ WaitSynced(t) \/ TakeLock(t) \/ ReleToSync(t)
  PROVE  AcctInv'
<1> DEFINE Res == {"assigned", "locked", "commit"}
<1>a. /\ pc \in [Txs -> Pcs] /\ tx \in [Txs -> TxRec] /\ tx[t] \in TxRec
      /\ open \in Nat /\ synced \in Nat
  BY DEF DInv, TxTypes, GroupInv
<1>b. UNCHANGED <<open, synced, spa, dirtyVars, dirVars>>
  BY DEF Top, TopEnds, TryAssign, HoldOpen, HoldDnode, RemoveHold, Unassigned,
       WaitDirty, Wait, WaitDnode, WaitSynced, TakeLock, ReleToSync, poolVars
<1>c. ASSUME \A u \in Txs : u # t =>
               /\ tx'[u] = tx[u]
               /\ pc'[u] = pc[u] \/ (pc[u] = "dnode_sleep" /\ pc'[u] = "dnode"),
             \/ pc[t] \notin Res /\ pc'[t] \notin Res
             \/ pc[t] = "assigned" /\ pc'[t] = "locked" /\ tx' = tx
             \/ pc'[t] = pc[t] /\ tx'[t].txg = tx[t].txg
      PROVE  AcctInv'
  <2>1. \A u \in Txs : /\ pc'[u] \in Res <=> pc[u] \in Res
                       /\ pc'[u] \in {"assigned", "locked"} <=>
                            pc[u] \in {"assigned", "locked"}
                       /\ pc[u] \in Res => tx'[u].txg = tx[u].txg
    BY <1>c
  <2> QED BY <1>a, <1>b, <2>1, AcctFrame
<1>1. CASE Top(t) \/ TopEnds(t) \/ TryAssign(t) \/ HoldOpen(t) \/ Unassigned(t)
           \/ WaitDirty(t) \/ Wait(t) \/ WaitDnode(t) \/ WaitSynced(t) \/ ReleToSync(t)
  <2>1. /\ pc[t] \notin Res
        /\ \E l \in Pcs \ Res : pc' = [pc EXCEPT ![t] = l]
        /\ tx' = tx \/ \E r : tx' = [tx EXCEPT ![t] = r]
    BY <1>1 DEF Top, TopEnds, TryAssign, HoldOpen, Unassigned, WaitDirty, Wait,
         WaitDnode, WaitSynced, ReleToSync, Fail, Retry, At, Tx, Pcs
  <2> QED BY <1>a, <1>c, <2>1
<1>2. CASE HoldDnode(t)
  <2>1. pc[t] = "holds" /\ (pc' = pc \/ pc' = [pc EXCEPT ![t] = "unhold"])
        /\ \E r : tx' = [tx EXCEPT ![t] = r]
    BY <1>2 DEF HoldDnode, At, Tx
  <2> QED BY <1>a, <1>c, <2>1
<1>3. CASE RemoveHold(t)
  <2> DEFINE r == [tx[t] EXCEPT !.gone = @ + 1]
  <2>1. r.txg = tx[t].txg
    BY <1>a DEF TxRec
  <2>2. tx'[t] = r /\ \A u \in Txs : u # t => tx'[u] = tx[u]
    BY <1>3, <1>a DEF RemoveHold, Tx
  <2>3. pc[t] # "dnode_sleep" /\ \A u \in Txs :
          pc'[u] = pc[u] \/ (pc[u] = "dnode_sleep" /\ pc'[u] = "dnode")
    BY <1>3 DEF RemoveHold
  <2>4. pc'[t] = pc[t]
    BY <2>3
  <2> QED BY <1>c, <2>1, <2>2, <2>3, <2>4
<1>4. CASE TakeLock(t)
  <2>1. pc[t] = "assigned" /\ pc' = [pc EXCEPT ![t] = "locked"] /\ tx' = tx
    BY <1>4 DEF TakeLock, At
  <2> QED BY <1>a, <1>c, <2>1
<1> QED BY <1>1, <1>2, <1>3, <1>4

LEMMA AcctStep == DInv /\ GapInv /\ AcctInv /\ [Next]_vars => AcctInv'
<1> SUFFICES ASSUME DInv, GapInv, AcctInv, [Next]_vars PROVE AcctInv' OBVIOUS
<1>a. open \in Nat /\ synced \in Nat
  BY DEF DInv, GroupInv
<1>1. ASSUME NEW t \in Txs, TxStep(t)
      PROVE  AcctInv'
  BY <1>1, QuietSteps, ReserveStep, WorkFailsAcct, DirtyAcct, ClearAcct DEF TxStep
<1>2. CASE OpenNext \/ SyncBegin \/ Suspend \/ Resume \/ UNCHANGED vars
  <2>1. /\ UNCHANGED <<dirtyVars, dirVars, synced, pc, tx>>
        /\ open' \in {open, open + 1} /\ (spa' = "dir" => spa = "dir")
    BY <1>2 DEF OpenNext, SyncBegin, Suspend, Resume, vars, poolVars
  <2> QED BY <1>a, <2>1, AcctFrame
<1>3. CASE PhysDone
  <2>1. 1 <= dp_dirty_pertxg[Slot(synced + 1)]
    <3>1. synced + 1 \in Nat
      BY <1>a
    <3>2. dp_dirty_pertxg[Slot(synced + 1)] \in Nat
      BY <3>1, SlotType DEF AcctInv
    <3> QED BY <1>3, <3>2 DEF PhysDone
  <2>2. spa = "data" /\ spa' = "data"
    BY <1>3 DEF PhysDone, poolVars
  <2> QED BY <1>3, <2>1, <2>2, WriteAcct DEF PhysDone, poolVars
<1>4. CASE SyncData
  <2> DEFINE n == dp_dirty_pertxg[Slot(synced + 1)]
  <2>1. n \in Nat /\ n <= n
    <3>1. synced + 1 \in Nat
      BY <1>a
    <3>2. n \in Nat
      BY <3>1, SlotType DEF AcctInv
    <3> QED BY <3>2
  <2> QED BY <1>4, <2>1, WriteAcct DEF SyncData
<1> QED BY <1>1, <1>2, <1>3, <1>4, SyncDoneAcct DEF Next, PoolStep

LEMMA AcctInvariance == Spec => [](DInv /\ GapInv /\ AcctInv)
<1>1. Init => DInv /\ GapInv /\ AcctInv
  BY DInvInit, AcctInit
<1>2. (DInv /\ GapInv /\ AcctInv) /\ [Next]_vars => (DInv /\ GapInv /\ AcctInv)'
  BY DInvStep, GapStep, AcctStep
<1> QED BY <1>1, <1>2, PTL DEF Spec

(* dp_dirty_total is the sum of the slots, the slots of synced groups are  *)
(* empty, and the reservations of a slot are those of the transactions     *)
(* assigned to its group (dsl_pool_dirty_space, dsl_pool_undirty_space,    *)
(* dsl_dir_tempreserve_space and _clear).                                  *)
THEOREM AccountsSafe == Spec => []DirtyAccounted
<1>1. AcctInv => DirtyAccounted
  BY DEF AcctInv, DirtyAccounted, Reserved
<1> QED BY <1>1, AcctInvariance, PTL

(* A directory exceeds its quota by less than its largest transaction,     *)
(* whatever its transactions are and however they are assigned             *)
(* (dsl_dir_tempreserve_impl).                                             *)
THEOREM QuotaSafe == Spec => []QuotaOverrunByOne
<1>1. ASSUME AcctInv
      PROVE  QuotaOverrunByOne
  <2>1. /\ Sum(dp_dirty_pertxg) \in Nat /\ Sum(ToDirty) \in Nat
        /\ dd_used \in Nat /\ Quota \in Nat /\ MaxSpace \in Nat
    BY <1>1, SumType, ToDirtyType, MaxSpaceIs, DmuTxAssumption DEF AcctInv
  <2>2. dd_used + Sum(dp_dirty_pertxg) + Sum(ToDirty) < Quota + MaxSpace
    BY <1>1 DEF AcctInv
  <2>3. dd_used < Quota + MaxSpace
    BY <2>1, <2>2
  <2> QED BY <2>3 DEF QuotaOverrunByOne, MaxSpace
<1> QED BY <1>1, AcctInvariance, PTL

-----------------------------------------------------------------------------
(* The wakeups of the write throttle                                       *)

(* dsl_pool_dirty_delta leaves nobody asleep without a woken thread while  *)
(* there is room.                                                          *)
LEMMA DeltaSignals ==
  ASSUME NEW p \in [Txs -> Pcs], NEW w, NEW n \in Int, DirtyDelta(p, w, n),
         dp_dirty_total' = n
  PROVE  SignalChain'
<1>1. CASE n < zfs_dirty_data_max
  <2>1. Signal(p, w)
    BY <1>1 DEF DirtyDelta
  <2>2. CASE SpaceSleepers(p) = {}
    BY <2>1, <2>2 DEF Signal, SignalChain, SpaceSleepers
  <2>3. CASE SpaceSleepers(p) # {}
    <3>1. woken' # {}
      BY <2>1, <2>3 DEF Signal
    <3> QED BY <3>1 DEF SignalChain
  <2> QED BY <2>2, <2>3
<1>2. CASE ~(n < zfs_dirty_data_max)
  <2>1. dp_dirty_total' > 0
    BY <1>2, DmuTxAssumption
  <2> QED BY <2>1 DEF SignalChain
<1> QED BY <1>1, <1>2

LEMMA SignalStep == DInv /\ AcctInv /\ SignalChain /\ [Next]_vars => SignalChain'
<1> SUFFICES ASSUME DInv, AcctInv, SignalChain, [Next]_vars PROVE SignalChain'
  OBVIOUS
<1>a. pc \in [Txs -> Pcs] /\ dp_dirty_total \in Nat
  BY SumType DEF DInv, TxTypes, AcctInv
<1>0. ASSUME SpaceSleepers(pc)' \subseteq SpaceSleepers(pc), UNCHANGED dp_dirty_total,
             \/ UNCHANGED <<woken, quit>>
             \/ \E t \in Txs : Quit(t)
      PROVE  SignalChain'
  <2>1. woken # {} \/ quit => woken' # {} \/ quit'
    BY <1>0 DEF Quit
  <2> QED BY <1>0, <2>1 DEF SignalChain
<1>1. CASE UNCHANGED vars
  BY <1>0, <1>1 DEF vars, dirtyVars, SpaceSleepers
<1>2. CASE OpenNext \/ SyncBegin \/ SyncDone \/ Suspend \/ Resume
  BY <1>0, <1>2 DEF OpenNext, SyncBegin, SyncDone, Suspend, Resume, dirtyVars,
       SpaceSleepers
<1>3. ASSUME NEW n \in Nat, UndirtySpace(n, synced + 1), UNCHANGED quit
      PROVE  SignalChain'
  <2>1. CASE n = 0
    BY <1>0, <1>3, <2>1 DEF UndirtySpace, dirtyVars, SpaceSleepers
  <2>2. CASE n # 0
    <3>1. PICK less : /\ less = IF dp_dirty_pertxg[Slot(synced + 1)] < n
                                THEN dp_dirty_pertxg[Slot(synced + 1)] ELSE n
      OBVIOUS
    <3>2. less \in Int
      <4>1. dp_dirty_pertxg[Slot(synced + 1)] \in Nat
        <5>1. synced + 1 \in Nat
          BY DEF DInv, GroupInv
        <5> QED BY <5>1, SlotType DEF AcctInv
      <4> QED BY <3>1, <4>1
    <3>3. PICK m : m = dp_dirty_total - less
      OBVIOUS
    <3>4. dp_dirty_total' = m /\ DirtyDelta(pc, woken, m)
      BY <1>3, <2>2, <3>1, <3>3 DEF UndirtySpace
    <3>5. m \in Int
      BY <1>a, <3>2, <3>3
    <3> QED BY <1>3, <1>a, <3>4, <3>5, DeltaSignals
  <2> QED BY <2>1, <2>2
<1>4. CASE PhysDone
  BY <1>3, <1>4 DEF PhysDone
<1>5. CASE SyncData
  <2>1. dp_dirty_pertxg[Slot(synced + 1)] \in Nat
    <3>1. synced + 1 \in Nat
      BY DEF DInv, GroupInv
    <3> QED BY <3>1, SlotType DEF AcctInv
  <2> QED BY <1>3, <1>5, <2>1 DEF SyncData
<1>6. ASSUME NEW t \in Txs, Dirty(t)
      PROVE  SignalChain'
  <2>1. dp_dirty_total + Space[t] \in Int
    BY <1>a, DmuTxAssumption
  <2>2. [pc EXCEPT ![t] = "commit"] \in [Txs -> Pcs]
    BY <1>a DEF Pcs
  <2> QED BY <1>6, <2>1, <2>2, DeltaSignals DEF Dirty
<1>7. ASSUME NEW t \in Txs, WaitDirty(t)
      PROVE  SignalChain'
  <2>1. CASE dp_dirty_total >= zfs_dirty_data_max
    <3>1. dp_dirty_total' = dp_dirty_total
      BY <1>7 DEF WaitDirty, dirtyVars
    <3>2. dp_dirty_total > 0
      BY <1>a, <2>1, DmuTxAssumption
    <3> QED BY <3>1, <3>2 DEF SignalChain
  <2>2. CASE ~(dp_dirty_total >= zfs_dirty_data_max)
    <3>1. \E l \in {"top", "assign"} : pc' = [pc EXCEPT ![t] = l]
      BY <1>7, <2>2 DEF WaitDirty, Retry, At
    <3>2. SpaceSleepers(pc)' \subseteq SpaceSleepers(pc)
      BY <1>a, <3>1 DEF SpaceSleepers
    <3> QED BY <1>0, <1>7, <2>2, <3>2 DEF WaitDirty, dirtyVars
  <2> QED BY <2>1, <2>2
<1>8. ASSUME NEW t \in Txs, TxStep(t), ~Dirty(t), ~WaitDirty(t)
      PROVE  SignalChain'
  <2>1. CASE RemoveHold(t)
    <3>1. SpaceSleepers(pc)' \subseteq SpaceSleepers(pc)
      BY <2>1 DEF RemoveHold, SpaceSleepers
    <3> QED BY <1>0, <2>1, <3>1 DEF RemoveHold, dirtyVars
  <2>2. CASE ~RemoveHold(t)
    <3>1. pc' = pc \/ \E l \in Pcs \ {"space_sleep"} : pc' = [pc EXCEPT ![t] = l]
      BY <1>8, <2>2 DEF TxStep, Top, TopEnds, TryAssign, HoldOpen, HoldDnode,
           TempreserveSpace, Unassigned, Wait, WaitDnode, WaitSynced, TakeLock,
           WorkFails, TempreserveClear, ReleToSync, Fail, Retry, At, Pcs
    <3>2. SpaceSleepers(pc)' \subseteq SpaceSleepers(pc)
      BY <1>a, <3>1 DEF SpaceSleepers
    <3>3. UNCHANGED dp_dirty_total
      BY <1>8, <2>2 DEF TxStep, Top, TopEnds, TryAssign, HoldOpen, HoldDnode,
           TempreserveSpace, Unassigned, Wait, WaitDnode, WaitSynced, TakeLock,
           WorkFails, TempreserveClear, ReleToSync, dirtyVars
    <3>4. UNCHANGED <<woken, quit>> \/ Quit(t)
      BY <1>8, <2>2 DEF TxStep, Top, TopEnds, TryAssign, HoldOpen, HoldDnode,
           TempreserveSpace, Unassigned, Wait, WaitDnode, WaitSynced, TakeLock,
           WorkFails, TempreserveClear, ReleToSync, Fail
    <3> QED BY <1>0, <3>2, <3>3, <3>4
  <2> QED BY <2>1, <2>2
<1> QED BY <1>1, <1>2, <1>4, <1>5, <1>6, <1>7, <1>8 DEF Next, PoolStep

(* "This ensures forward progress -- each thread wakes the next waiter"    *)
(* (dsl_pool_dirty_delta): where somebody sleeps on                        *)
(* dp_spaceavail_cv there is dirty data to be written, a thread that was   *)
(* woken, or one that ended without dirtying anything.                     *)
THEOREM SignalSafe == Spec => []SignalChain
<1>1. Init => SignalChain
  BY DEF Init, SignalChain, SpaceSleepers
<1>2. Spec => []SignalChain
  BY <1>1, SignalStep, AcctInvariance, PTL DEF Spec
<1> QED BY <1>2
=============================================================================
