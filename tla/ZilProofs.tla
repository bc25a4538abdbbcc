------------------------------ MODULE ZilProofs ------------------------------
(***************************************************************************)
(* Proofs about Zil and ZilReplay for any threads, devices, block sizes    *)
(* and numbers of records, commits, failures and crashes: nothing is left  *)
(* in a group that is over, a commit waiter never points to a log block    *)
(* that is gone, and the assertions on the list of log blocks hold; after  *)
(* a crash no record is replayed twice, and the header on disk agrees with *)
(* what was replayed on disk; the synchronous records of a group are found *)
(* in the order they were logged in.                                       *)
(***************************************************************************)
EXTENDS ZilReplay, TLAPS, SequenceTheorems, FiniteSetTheorems, WellFoundedInduction

Pcs == {"idle", "log", "async", "commit", "commit_itx", "writer", "wait", "timeout",
        "error", "scan", "prune", "create", "create_wait", "process", "next", "eio",
        "stall", "timeout_stall"}
IssuerPcs == {"scan", "prune", "create", "create_wait", "process", "next", "eio",
              "stall", "timeout_stall"}
Stalls == {"stall", "timeout_stall"}

(* The group spa_sync is at, or has done.                                  *)
Syncing == IF spa = "sync" THEN synced + 1 ELSE synced

(* The groups of the pool, as in Txg: at most three are live.              *)
PoolInv ==
    /\ open \in Nat /\ synced \in Nat /\ spa \in {"idle", "sync", "clean", "done"}
    /\ dirty \subseteq Nat
    /\ Syncing < open /\ open <= LastSynced + TXG_CONCURRENT_STATES

(* What a transaction may hold: a group that is not being synced.          *)
Holds(t) == t = 0 \/ (t \in Nat /\ Syncing < t /\ t <= open)
HeldInv ==
    /\ tx = [th \in Threads |-> tx[th]] /\ \A th \in Threads : Holds(tx[th])
    /\ \A b \in Blocks : Holds(lwb[b].tx)

(* The queue: a slot has itxs of its own group only until zil_clean.       *)
Itxs == [by : Threads, n : Int, sync : BOOLEAN, txg : Nat]
UpTo(g) == {itx \in Itxs : itx.txg <= g}
Itxgs(g) == [txg : Nat, sync : Seq(UpTo(g)), async : [Threads -> Seq(UpTo(g))]]
Cleaned == IF spa = "done" THEN synced ELSE LastSynced
BudgetOk == /\ budget = [f \in {"recs", "commits", "fails"} |-> budget[f]]
            /\ budget.recs \in [Threads -> Int]
QueueInv ==
    /\ itxg \in [0 .. TXG_SIZE - 1 -> Itxgs(open)]
    /\ \A i \in 0 .. TXG_SIZE - 1 : LET t == itxg[i].txg IN
            t = 0 \/ (Slot(t) = i /\ Cleaned < t /\ t <= open)
    /\ commit_list \in Seq(UpTo(open))
    /\ BudgetOk

(* The life of an lwb.  All but the last of the list have been issued.     *)
LwbStates == {"FREE", "CLOSED", "OPENED", "ISSUED", "WRITE_DONE", "FLUSH_DONE"}
Fillable == {"CLOSED", "OPENED"}
InFlight == {"ISSUED", "WRITE_DONE"}
LwbFields == {"state", "recs", "waiters", "tree", "vdev", "tx", "buf", "max_txg", "next",
              "write_after", "root_after", "cb", "error"}
LwbOk(r) ==
    /\ r = [f \in LwbFields |-> r[f]]
    /\ r.state \in LwbStates
    /\ r.buf <=> r.state \in Fillable \cup InFlight
    /\ r.state \in InFlight => r.tx # 0
    /\ r.max_txg \in Nat /\ r.max_txg <= open
Listed(b) == \E i \in DOMAIN lwb_list : lwb_list[i] = b
LwbInv ==
    /\ Len(lwb) \in Nat /\ lwb = [b \in 1 .. Len(lwb) |-> lwb[b]]
    /\ \A b \in 1 .. Len(lwb) : LwbOk(lwb[b]) /\ (lwb[b].state = "FREE" <=> ~Listed(b))
    /\ lwb_list \in Seq(1 .. Len(lwb))
    /\ \A i, j \in DOMAIN lwb_list : lwb_list[i] = lwb_list[j] => i = j
    /\ \A i \in DOMAIN lwb_list : i < Len(lwb_list) =>
            lwb[lwb_list[i]].state \notin Fillable
    /\ last_opened # 0 => /\ last_opened \in 1 .. Len(lwb)
                          /\ lwb[last_opened].state \notin {"FREE", "CLOSED"}
    /\ zh_syncing \in 0 .. Len(lwb)
    /\ spa # "sync" => zh_log = zh_syncing

(* The owner of zl_issuer_lock, and the block it fills.                    *)
IssuerInv ==
    /\ pc \in [Threads -> Pcs] /\ pos = [th \in Threads |-> pos[th]]
    /\ issuer \in Threads \cup {NoThread}
    /\ \A th \in Threads : pc[th] \in IssuerPcs <=> issuer = th
    /\ cur # 0 => /\ issuer # NoThread
                  /\ pc[issuer] \in {"create_wait", "process", "next", "eio"}
                  /\ lwb_list # <<>> /\ cur = Last(lwb_list)
    /\ \A th \in Threads : /\ pc[th] = "create" => lwb_list = <<>>
                           /\ pc[th] \in {"next", "eio"} => cur # 0
                           /\ pc[th] = "scan" => pos[th] \in Seq(Nat) \ {<<>>}

(* The chain is broken: an allocation has failed, and the writer goes to   *)
(* wait until everything is synced.                                        *)
Dead(th) == \/ pc[th] \in {"process", "create_wait"} /\ cur = 0
            \/ pc[th] \in Stalls
Stop(th) == IF pc[th] \in Stalls THEN Head(pos[th]) ELSE open + 1

(* Then either nothing is left of the log, or there is a dirty group to    *)
(* sync after which nothing will be, before the wait is over.              *)
Emptied(th) == /\ lwb_list = <<>> /\ zh_syncing = 0
               /\ zh_log # 0 => synced < Stop(th)
Emptying(d) ==
    /\ lwb_list # <<>>
    /\ \A b \in 1 .. Len(lwb) : /\ lwb[b].state \notin Fillable
                                /\ lwb[b].max_txg <= d /\ lwb[b].tx <= d
DeadInv ==
    /\ \A th \in Threads : Dead(th) =>
        \/ Emptied(th)
        \/ \E d \in dirty : Syncing < d /\ d <= open /\ d < Stop(th) /\ Emptying(d)
    /\ lwb_list # <<>> /\ (\A th \in Threads : ~Dead(th)) =>
            lwb[Last(lwb_list)].state \in Fillable
    /\ \A th \in Threads : pc[th] \in Stalls => Head(pos[th]) \in Nat

(* The waiters *)
WaiterInv ==
    /\ zcw \in [Threads -> [lwb : Nat, done : BOOLEAN, error : BOOLEAN]]
    /\ \A th \in Threads :
        /\ zcw[th].lwb # 0 =>
            /\ zcw[th].lwb \in 1 .. Len(lwb)
            /\ lwb[zcw[th].lwb].state \in {"OPENED"} \cup InFlight
            /\ th \in lwb[zcw[th].lwb].waiters
        /\ pc[th] = "timeout" /\ ~zcw[th].done => zcw[th].lwb # 0

RunInv == HeldInv /\ QueueInv /\ LwbInv /\ IssuerInv /\ DeadInv /\ WaiterInv

(* After a crash the log is not written before the dataset is mounted.     *)
DownInv ==
    /\ lwb_list = <<>> /\ issuer = NoThread
    /\ \A b \in Blocks : lwb[b].tx = 0
    /\ \A th \in Threads : tx[th] = 0 /\ pc[th] = "idle" /\ zcw[th].lwb = 0
    /\ itxg = [i \in 0 .. TXG_SIZE - 1 |-> EmptyItxg]

ZilInv == PoolInv /\ IF phase = "running" THEN RunInv ELSE DownInv

-----------------------------------------------------------------------------
LEMMA InvGroupsLive == ZilInv => GroupsLive
<1> SUFFICES ASSUME ZilInv PROVE GroupsLive OBVIOUS
<1>1. /\ open \in Nat /\ synced \in Nat /\ LastSynced <= Syncing /\ Syncing < open
      /\ LastSynced <= Cleaned /\ LastSynced \in Int /\ Syncing \in Nat
      /\ open <= LastSynced + TXG_CONCURRENT_STATES
  BY DEF ZilInv, PoolInv, LastSynced, Syncing, Cleaned
<1>2. \A t : Holds(t) => Live(t)
  BY <1>1 DEF Holds, Live
<1>3. CASE phase = "running"
  <2>1. RunInv
    BY <1>3 DEF ZilInv
  <2>2. \A i \in 0 .. TXG_SIZE - 1 :
          LET t == itxg[i].txg IN t \in Nat /\ (t = 0 \/ (Cleaned < t /\ t <= open))
    BY <2>1 DEF RunInv, QueueInv, Itxgs
  <2>3. Cleaned \in Int
    BY <1>1 DEF Cleaned
  <2>4. \A i \in 0 .. TXG_SIZE - 1 : Live(itxg[i].txg)
    BY <1>1, <2>2, <2>3 DEF Live
  <2>5. DOMAIN itxg = 0 .. TXG_SIZE - 1
    BY <2>1 DEF RunInv, QueueInv
  <2> QED BY <1>1, <1>2, <2>1, <2>4, <2>5 DEF RunInv, HeldInv, GroupsLive
<1>4. CASE phase # "running"
  BY <1>1, <1>4 DEF ZilInv, DownInv, GroupsLive, Live, EmptyItxg
<1> QED BY <1>3, <1>4

LEMMA InvWaiterLwbLive == ZilInv => WaiterLwbLive
BY DEF ZilInv, RunInv, DownInv, WaiterInv, WaiterLwbLive, InFlight

(* A stalled writer that may go on finds nothing left of the log.          *)
LEMMA StallOver ==
  ASSUME PoolInv, LwbInv, DeadInv, NEW th \in Threads, pc[th] \in Stalls,
         LastSynced >= Head(pos[th])
  PROVE  lwb_list = <<>> /\ zh_log = 0
<1>1. Dead(th) /\ Stop(th) = Head(pos[th]) /\ Head(pos[th]) \in Nat
  BY DEF Dead, Stop, DeadInv
<1>2. /\ synced \in Nat /\ LastSynced \in Int /\ LastSynced <= Syncing
      /\ LastSynced <= synced /\ Syncing \in Nat
  BY DEF PoolInv, LastSynced, Syncing
<1>3. \A d \in dirty : Syncing < d => ~(d < Stop(th))
  BY <1>1, <1>2 DEF PoolInv
<1> QED BY <1>1, <1>2, <1>3 DEF DeadInv, Emptied

LEMMA InvLwbListAsserted == ZilInv => LwbListAsserted
<1> SUFFICES ASSUME ZilInv PROVE LwbListAsserted OBVIOUS
<1>1. CASE phase = "running"
  <2>1. RunInv /\ PoolInv
    BY <1>1 DEF ZilInv
  <2>2. \A th \in Threads : pc[th] \in Stalls /\ LastSynced >= Head(pos[th]) =>
            lwb_list = <<>> /\ zh_log = 0
    BY <2>1, StallOver DEF RunInv
  <2>3. issuer = NoThread => \A th \in Threads : pc[th] \notin IssuerPcs
    BY <2>1, ZilAssumption DEF RunInv, IssuerInv
  <2>4. issuer = NoThread => \A th \in Threads : ~Dead(th)
    BY <2>3 DEF Dead, IssuerPcs, Stalls
  <2>5. issuer = NoThread /\ lwb_list # <<>> => lwb[Last(lwb_list)].state \in Fillable
    BY <2>1, <2>4 DEF RunInv, DeadInv
  <2> QED BY <2>2, <2>5 DEF LwbListAsserted, Stalls, Fillable
<1>2. CASE phase # "running"
  BY <1>2 DEF ZilInv, DownInv, LwbListAsserted
<1> QED BY <1>1, <1>2

-----------------------------------------------------------------------------
(* Sequences and minima                                                    *)

LEMMA AppendIs ==
  ASSUME NEW l, NEW n \in Nat, l = [b \in 1 .. n |-> l[b]], NEW e
  PROVE  /\ Len(l) = n /\ Len(Append(l, e)) = n + 1
         /\ Append(l, e) = [b \in 1 .. n + 1 |-> IF b = n + 1 THEN e ELSE l[b]]
<1>1. PICK S : S = {l[b] : b \in 1 .. n} \cup {e}
  OBVIOUS
<1>2. l \in Seq(S)
  BY <1>1
<1> QED BY <1>1, <1>2

LEMMA MinIs ==
  ASSUME NEW S, S \subseteq Nat, S # {}
  PROVE  Min(S) \in S /\ \A y \in S : Min(S) <= y
<1>1. \E m \in S : \A y \in S : ~(<<y, m>> \in OpToRel(<, Nat))
  BY NatLessThanWellFounded, WFMin, Zenon
<1>2. PICK m \in S : \A y \in S : ~(y < m)
  BY <1>1 DEF OpToRel
<1>3. m \in S /\ \A y \in S : m <= y
  BY <1>2
<1> QED BY <1>3 DEF Min

LEMMA SeqGrows ==
  ASSUME NEW S, NEW T, S \subseteq T, NEW s \in Seq(S)
  PROVE  s \in Seq(T)
OBVIOUS

LEMMA ItxgsGrow ==
  ASSUME NEW g \in Nat, NEW h \in Nat, g <= h
  PROVE  Seq(UpTo(g)) \subseteq Seq(UpTo(h)) /\ Itxgs(g) \subseteq Itxgs(h)
<1>1. UpTo(g) \subseteq UpTo(h)
  BY DEF UpTo, Itxs
<1>2. Seq(UpTo(g)) \subseteq Seq(UpTo(h))
  BY <1>1, SeqGrows
<1> QED BY <1>2 DEF Itxgs

-----------------------------------------------------------------------------
LEMMA ZilInvInit == ReplayInit => ZilInv
<1> SUFFICES ASSUME ReplayInit PROVE ZilInv OBVIOUS
<1> USE DEF ReplayInit, Init
<1>1. PoolInv
  BY DEF PoolInv, Syncing, LastSynced, TXG0, TXG_CONCURRENT_STATES
<1>2. zh_log \in {0, 1} /\ Len(lwb) = zh_log /\ lwb = [b \in 1 .. zh_log |-> NoLwb]
  <2>1. zh_log \in {0, 1} /\ lwb = [b \in 1 .. zh_log |-> NoLwb]
    BY ZilAssumption
  <2>2. lwb = [b \in 1 .. zh_log |-> lwb[b]]
    BY <2>1
  <2> QED BY <2>1, <2>2, AppendIs
<1>3. HeldInv
  BY <1>2 DEF HeldInv, Holds, Blocks, NoLwb
<1>4. QueueInv
  BY ZilAssumption DEF QueueInv, BudgetOk, Itxgs, EmptyItxg
<1>5. LwbInv
  <2>1. LwbOk(NoLwb) /\ NoLwb.state = "FREE"
    BY <1>1 DEF LwbOk, NoLwb, LwbFields, LwbStates, Fillable, InFlight, PoolInv
  <2> QED BY <1>2, <2>1 DEF LwbInv, Listed
<1>6. IssuerInv /\ DeadInv
  BY ZilAssumption DEF IssuerInv, DeadInv, Pcs, IssuerPcs, Dead, Stalls
<1>7. WaiterInv
  BY DEF WaiterInv, NewWaiter
<1> QED BY <1>1, <1>3, <1>4, <1>5, <1>6, <1>7 DEF ZilInv, RunInv

-----------------------------------------------------------------------------
(* Steps of a thread that has not zl_issuer_lock                           *)

(* What such a step leaves alone.                                          *)
LogKept == UNCHANGED <<open, synced, spa, zh_log, zh_syncing, lwb_list, lwb, last_opened,
                       issuer, cur>>

LEMMA OutsideMove ==
  ASSUME PoolInv, HeldInv, LwbInv, IssuerInv, DeadInv, NEW th \in Threads, NEW l, NEW p,
         l \in Pcs \ IssuerPcs, pc[th] \notin IssuerPcs, pc' = [pc EXCEPT ![th] = l],
         pos' = [pos EXCEPT ![th] = p], LogKept,
         dirty' = dirty \/ dirty' = dirty \cup {tx[th]}
  PROVE  PoolInv' /\ LwbInv' /\ IssuerInv' /\ DeadInv'
<1>1. /\ pc \in [Threads -> Pcs] /\ pos = [u \in Threads |-> pos[u]]
      /\ \A u \in Threads : u # th => pc'[u] = pc[u] /\ pos'[u] = pos[u]
      /\ pc'[th] = l /\ pc' \in [Threads -> Pcs] /\ pos' = [u \in Threads |-> pos'[u]]
  BY DEF IssuerInv
<1>2. PoolInv'
  BY DEF PoolInv, HeldInv, Holds, LogKept, Syncing, LastSynced
<1>3. LwbInv'
  BY DEF LwbInv, LogKept, LwbOk, Listed
<1>4. issuer # th /\ issuer' = issuer /\ cur' = cur
  BY DEF IssuerInv, LogKept
<1>5. IssuerInv'
  BY <1>1, <1>4, ZilAssumption DEF IssuerInv, LogKept, IssuerPcs
<1>6. /\ ~Dead(th) /\ ~Dead(th)' /\ pc'[th] \notin Stalls
      /\ \A u \in Threads : u # th => /\ Dead(u)' <=> Dead(u)
                                      /\ Stop(u)' = Stop(u)
  BY <1>1, <1>4 DEF Dead, Stop, Stalls, IssuerPcs, LogKept
<1>7. /\ dirty \subseteq dirty' /\ Syncing' = Syncing /\ open' = open
      /\ \A d : Emptying(d)' <=> Emptying(d)
      /\ \A u \in Threads : u # th => (Emptied(u)' <=> Emptied(u))
  BY <1>6 DEF Syncing, LogKept, Emptying, Emptied
<1>8. DeadInv'
  BY <1>1, <1>6, <1>7 DEF DeadInv, LogKept
<1> QED BY <1>2, <1>3, <1>5, <1>8

LEMMA SlotType == \A t \in Nat : Slot(t) \in 0 .. TXG_SIZE - 1
BY DEF Slot, TXG_SIZE

LEMMA PoolFacts ==
  ASSUME PoolInv
  PROVE  /\ open \in Nat /\ synced \in Nat /\ Syncing \in Nat /\ LastSynced \in Int
         /\ Cleaned \in Int /\ LastSynced <= Cleaned /\ Cleaned <= Syncing
         /\ Syncing < open
BY DEF PoolInv, Syncing, LastSynced, Cleaned

LEMMA AssignStep ==
  ASSUME PoolInv, QueueInv, NEW th \in Threads, NEW itx \in Itxs, Holds(itx.txg),
         itx.by = th, ItxAssign(th, itx), UNCHANGED <<open, synced, spa, commit_list>>,
         BudgetOk'
  PROVE  QueueInv'
<1> DEFINE s == Slot(itx.txg)
<1>0. /\ open \in Nat /\ itx.txg \in Nat /\ s \in 0 .. TXG_SIZE - 1 /\ itx.txg <= open
      /\ itx.txg = 0 \/ Cleaned < itx.txg
  BY PoolFacts, SlotType DEF Itxs, Holds
<1>1. itx \in UpTo(open)
  BY <1>0 DEF UpTo
<1>2. itxg \in [0 .. TXG_SIZE - 1 -> Itxgs(open)] /\ itxg[s] \in Itxgs(open)
  BY <1>0 DEF QueueInv
<1>3. /\ [EmptyItxg EXCEPT !.txg = itx.txg] \in Itxgs(open)
      /\ [EmptyItxg EXCEPT !.txg = itx.txg].txg = itx.txg
  <2>1. EmptyItxg \in Itxgs(open)
    BY DEF EmptyItxg, Itxgs
  <2> QED BY <1>0, <2>1 DEF Itxgs
<1>4. Assigned(itxg[s], itx) \in Itxgs(open) /\ Assigned(itxg[s], itx).txg = itx.txg
  <2>1. PICK g \in Itxgs(open) :
          /\ g.txg = itx.txg
          /\ Assigned(itxg[s], itx) = IF itx.sync THEN [g EXCEPT !.sync = Append(@, itx)]
                                      ELSE [g EXCEPT !.async[itx.by] = Append(@, itx)]
    BY <1>2, <1>3 DEF Assigned
  <2>2. /\ Append(g.sync, itx) \in Seq(UpTo(open)) /\ th \in DOMAIN g.async
        /\ Append(g.async[th], itx) \in Seq(UpTo(open))
    BY <1>1 DEF Itxgs
  <2>3. [g.async EXCEPT ![th] = Append(@, itx)] \in [Threads -> Seq(UpTo(open))]
    BY <2>2 DEF Itxgs
  <2>4. \/ Assigned(itxg[s], itx) = [g EXCEPT !.sync = Append(g.sync, itx)]
        \/ Assigned(itxg[s], itx) = [g EXCEPT !.async = [g.async EXCEPT ![th] = Append(@, itx)]]
    BY <2>1
  <2> QED BY <2>1, <2>2, <2>3, <2>4 DEF Itxgs
<1>5. itxg' = [itxg EXCEPT ![s] = Assigned(itxg[s], itx)]
  BY DEF ItxAssign
<1> HIDE DEF s
<1>6. itxg' \in [0 .. TXG_SIZE - 1 -> Itxgs(open)]
  BY <1>2, <1>4, <1>5
<1>7. \A i \in 0 .. TXG_SIZE - 1 : i # s => itxg'[i] = itxg[i]
  BY <1>2, <1>5
<1>8. itxg'[s].txg = itx.txg
  BY <1>0, <1>2, <1>4, <1>5
<1>9. \A i \in 0 .. TXG_SIZE - 1 : LET t == itxg'[i].txg IN
            t = 0 \/ (Slot(t) = i /\ Cleaned < t /\ t <= open)
  BY <1>0, <1>7, <1>8 DEF QueueInv, s
<1>10. Cleaned' = Cleaned /\ open' = open /\ commit_list' \in Seq(UpTo(open))
  BY DEF Cleaned, LastSynced, QueueInv
<1> QED BY <1>6, <1>9, <1>10 DEF QueueInv

LEMMA WaiterMove ==
  ASSUME WaiterInv, NEW th \in Threads, pc' = [pc EXCEPT ![th] = pc'[th]],
         pc \in [Threads -> Pcs], pc'[th] # "timeout", UNCHANGED <<lwb, zcw>>
  PROVE  WaiterInv'
BY DEF WaiterInv

LEMMA TxAssignStep ==
  ASSUME PoolInv, RunInv, NEW th \in Threads,
         TxAssign(th, "idle", "log") \/ TxAssign(th, "commit", "commit_itx")
  PROVE  PoolInv' /\ RunInv'
<1>1. PICK l \in {"log", "commit_itx"} :
        /\ pc[th] \in {"idle", "commit"} /\ pc' = [pc EXCEPT ![th] = l]
        /\ tx' = [tx EXCEPT ![th] = open]
        /\ UNCHANGED <<poolVars, queueVars, lwbVars, issuer, pos, zcw, cur, nolwb,
                       ghostVars>>
  BY DEF TxAssign, Goto
<1>2. /\ pc \in [Threads -> Pcs] /\ pos' = [pos EXCEPT ![th] = pos[th]]
      /\ LogKept /\ UNCHANGED <<dirty, itxg, commit_list, budget, zcw>>
  BY <1>1 DEF RunInv, IssuerInv, poolVars, queueVars, lwbVars, ghostVars, LogKept
<1>3. PoolInv' /\ LwbInv' /\ IssuerInv' /\ DeadInv'
  BY <1>1, <1>2, OutsideMove DEF RunInv, Pcs, IssuerPcs
<1>4. HeldInv'
  BY <1>1, <1>2, PoolFacts DEF RunInv, HeldInv, Holds, Syncing, LogKept, Blocks
<1>5. QueueInv'
  BY <1>2 DEF RunInv, QueueInv, BudgetOk, LogKept, Cleaned, LastSynced
<1>6. WaiterInv'
  BY <1>1, <1>2, WaiterMove DEF RunInv, LogKept
<1> QED BY <1>3, <1>4, <1>5, <1>6 DEF RunInv

LEMMA LogItxStep ==
  ASSUME PoolInv, RunInv, NEW th \in Threads, LogItx(th)
  PROVE  PoolInv' /\ RunInv'
<1>1. PICK sync \in BOOLEAN :
        ItxAssign(th, [by |-> th, n |-> budget.recs[th], sync |-> sync, txg |-> tx[th]])
  BY DEF LogItx
<1>2. /\ pc[th] = "log" /\ pc' = [pc EXCEPT ![th] = "idle"]
      /\ budget' = [budget EXCEPT !.recs[th] = @ - 1]
      /\ tx' = [tx EXCEPT ![th] = 0] /\ dirty' = dirty \cup {tx[th]}
      /\ UNCHANGED <<open, synced, spa, zh_log, zh_syncing, freed, commit_list, lwbVars,
                     issuer, pos, zcw, cur, nolwb, due, acked>>
  BY <1>1 DEF LogItx, Goto, ItxAssign
<1>3. /\ pc \in [Threads -> Pcs] /\ pos' = [pos EXCEPT ![th] = pos[th]]
      /\ LogKept /\ UNCHANGED zcw
  BY <1>2 DEF RunInv, IssuerInv, lwbVars, LogKept
<1>4. PoolInv' /\ LwbInv' /\ IssuerInv' /\ DeadInv'
  BY <1>2, <1>3, OutsideMove DEF RunInv, Pcs, IssuerPcs
<1>5. HeldInv'
  BY <1>2, <1>3 DEF RunInv, HeldInv, Holds, Syncing, LogKept, Blocks
<1>6. Holds(tx[th]) /\ tx[th] \in Nat /\ budget.recs[th] \in Int /\ BudgetOk'
  <2>1. BudgetOk
    BY DEF RunInv, QueueInv
  <2>2. PICK r \in [Threads -> Int] : budget' = [budget EXCEPT !.recs = r]
    <3>1. [budget.recs EXCEPT ![th] = @ - 1] \in [Threads -> Int]
      BY <2>1 DEF BudgetOk
    <3> QED BY <1>2, <3>1
  <2>3. BudgetOk'
    BY <2>1, <2>2 DEF BudgetOk
  <2> QED BY <2>1, <2>3 DEF RunInv, HeldInv, BudgetOk, Holds
<1>7. QueueInv'
  <2> DEFINE itx == [by |-> th, n |-> budget.recs[th], sync |-> sync, txg |-> tx[th]]
  <2>1. itx \in Itxs /\ itx.by = th /\ itx.txg = tx[th]
    BY <1>6 DEF Itxs
  <2> HIDE DEF itx
  <2>2. ItxAssign(th, itx)
    BY <1>1 DEF itx
  <2> QED BY <1>2, <1>6, <2>1, <2>2, AssignStep DEF RunInv
<1>8. WaiterInv'
  BY <1>2, <1>3, WaiterMove DEF RunInv, LogKept
<1> QED BY <1>4, <1>5, <1>7, <1>8 DEF RunInv

LEMMA CommitStep ==
  ASSUME PoolInv, RunInv, NEW th \in Threads, Commit(th)
  PROVE  PoolInv' /\ RunInv'
<1>1. PICK l \in {"commit", "async"} :
        /\ pc[th] = "idle" /\ pc' = [pc EXCEPT ![th] = l]
        /\ budget' = [budget EXCEPT !.commits[th] = @ - 1]
        /\ pos' = [pos EXCEPT ![th] = OwnGroups(th)]
        /\ UNCHANGED <<poolVars, queueVars, lwbVars, issuer, tx, zcw, cur, nolwb>>
  BY DEF Commit, Goto
<1>2. /\ pc \in [Threads -> Pcs] /\ LogKept
      /\ UNCHANGED <<zcw, dirty, tx, itxg, commit_list>>
  BY <1>1 DEF RunInv, IssuerInv, poolVars, queueVars, lwbVars, LogKept
<1>3. PoolInv' /\ LwbInv' /\ IssuerInv' /\ DeadInv'
  BY <1>1, <1>2, OutsideMove DEF RunInv, Pcs, IssuerPcs
<1>4. HeldInv'
  BY <1>2 DEF RunInv, HeldInv, Holds, Syncing, LogKept, Blocks
<1>5. QueueInv'
  BY <1>1, <1>2 DEF RunInv, QueueInv, BudgetOk, LogKept, Cleaned, LastSynced
<1>6. WaiterInv'
  BY <1>1, <1>2, WaiterMove DEF RunInv, LogKept
<1> QED BY <1>3, <1>4, <1>5, <1>6 DEF RunInv

LEMMA CommitItxStep ==
  ASSUME PoolInv, RunInv, NEW th \in Threads, CommitItx(th)
  PROVE  PoolInv' /\ RunInv'
<1> DEFINE itx == [by |-> th, n |-> 0, sync |-> TRUE, txg |-> tx[th]]
<1>1. /\ pc[th] = "commit_itx" /\ pc' = [pc EXCEPT ![th] = "writer"]
      /\ ItxAssign(th, itx)
      /\ tx' = [tx EXCEPT ![th] = 0] /\ zcw' = [zcw EXCEPT ![th] = NewWaiter]
      /\ UNCHANGED <<poolVars, commit_list, lwbVars, issuer, pos, cur, nolwb, logged,
                     acked, budget>>
  BY DEF CommitItx, Goto, ItxAssign
<1>2. /\ pc \in [Threads -> Pcs] /\ pos' = [pos EXCEPT ![th] = pos[th]]
      /\ LogKept /\ UNCHANGED <<dirty, budget, commit_list>>
  BY <1>1 DEF RunInv, IssuerInv, poolVars, lwbVars, LogKept
<1>3. PoolInv' /\ LwbInv' /\ IssuerInv' /\ DeadInv'
  BY <1>1, <1>2, OutsideMove DEF RunInv, Pcs, IssuerPcs
<1>4. HeldInv'
  BY <1>1, <1>2 DEF RunInv, HeldInv, Holds, Syncing, LogKept, Blocks
<1>5. Holds(tx[th]) /\ tx[th] \in Nat /\ BudgetOk'
  BY <1>2 DEF RunInv, HeldInv, QueueInv, BudgetOk, Holds
<1>6. QueueInv'
  <2>1. itx \in Itxs /\ itx.by = th /\ itx.txg = tx[th]
    BY <1>5 DEF Itxs
  <2> HIDE DEF itx
  <2> QED BY <1>1, <1>2, <1>5, <2>1, AssignStep DEF RunInv, LogKept
<1>7. WaiterInv'
  <2>1. zcw' \in [Threads -> [lwb : Nat, done : BOOLEAN, error : BOOLEAN]]
        /\ zcw'[th].lwb = 0 /\ \A u \in Threads : u # th => zcw'[u] = zcw[u]
    BY <1>1 DEF RunInv, WaiterInv, NewWaiter
  <2> QED BY <1>1, <1>2, <2>1 DEF RunInv, WaiterInv, LogKept
<1> QED BY <1>3, <1>4, <1>6, <1>7 DEF RunInv

LEMMA AsyncToSyncStep ==
  ASSUME PoolInv, RunInv, NEW th \in Threads, AsyncToSync(th)
  PROVE  PoolInv' /\ RunInv'
<1> DEFINE t == Head(pos[th])
           s == Slot(t)
<1>1. PICK l \in {"commit", "async"} :
        /\ pc[th] = "async" /\ pc' = [pc EXCEPT ![th] = l]
        /\ pos' = [pos EXCEPT ![th] = Tail(@)]
        /\ \/ itxg' = itxg
           \/ itxg' = [itxg EXCEPT ![s].sync = @ \o itxg[s].async[th],
                                   ![s].async[th] = <<>>]
        /\ UNCHANGED <<poolVars, cleaning, commit_list, lwbVars, issuer, tx, zcw, cur,
                       nolwb, ghostVars>>
  BY DEF AsyncToSync, Goto, RunInv, IssuerInv
<1> HIDE DEF t, s
<1>2. /\ pc \in [Threads -> Pcs] /\ LogKept
      /\ UNCHANGED <<zcw, dirty, tx, commit_list, budget>>
  BY <1>1 DEF RunInv, IssuerInv, poolVars, lwbVars, ghostVars, LogKept
<1>3. PoolInv' /\ LwbInv' /\ IssuerInv' /\ DeadInv'
  BY <1>1, <1>2, OutsideMove DEF RunInv, Pcs, IssuerPcs
<1>4. HeldInv'
  BY <1>2 DEF RunInv, HeldInv, Holds, Syncing, LogKept, Blocks
<1>5. QueueInv'
  <2>1. itxg \in [0 .. TXG_SIZE - 1 -> Itxgs(open)]
    BY DEF RunInv, QueueInv
  <2>2. CASE s \notin 0 .. TXG_SIZE - 1
    <3>1. itxg' = itxg
      BY <1>1, <2>1, <2>2
    <3> QED BY <1>2, <3>1 DEF RunInv, QueueInv, BudgetOk, LogKept, Cleaned, LastSynced
  <2>3. CASE s \in 0 .. TXG_SIZE - 1
    <3>1. itxg[s] \in Itxgs(open)
      BY <2>1, <2>3
    <3>2. /\ itxg[s].sync \o itxg[s].async[th] \in Seq(UpTo(open))
          /\ [itxg[s].async EXCEPT ![th] = <<>>] \in [Threads -> Seq(UpTo(open))]
      BY <3>1 DEF Itxgs
    <3>3. PICK e \in Itxgs(open) : e.txg = itxg[s].txg /\ itxg' = [itxg EXCEPT ![s] = e]
      <4>1. PICK f : f = [itxg EXCEPT ![s].sync = @ \o itxg[s].async[th]]
        OBVIOUS
      <4>2. /\ f \in [0 .. TXG_SIZE - 1 -> Itxgs(open)] /\ f[s].txg = itxg[s].txg
            /\ f[s].async = itxg[s].async /\ \A i \in 0 .. TXG_SIZE - 1 : i # s => f[i] = itxg[i]
        BY <2>1, <2>3, <3>1, <3>2, <4>1 DEF Itxgs
      <4>3. PICK e : e = [f[s] EXCEPT !.async[th] = <<>>]
        OBVIOUS
      <4>4. e \in Itxgs(open) /\ e.txg = itxg[s].txg
        BY <2>3, <3>2, <4>2, <4>3 DEF Itxgs
      <4>5. itxg' = itxg \/ itxg' = [f EXCEPT ![s] = e]
        BY <1>1, <4>1, <4>3
      <4>6. itxg' = [itxg EXCEPT ![s] = itxg[s]] \/ itxg' = [itxg EXCEPT ![s] = e]
        BY <2>1, <4>2, <4>5
      <4> QED BY <3>1, <4>4, <4>6
    <3>4. /\ itxg' \in [0 .. TXG_SIZE - 1 -> Itxgs(open)]
          /\ \A i \in 0 .. TXG_SIZE - 1 : itxg'[i].txg = itxg[i].txg
      BY <2>1, <2>3, <3>3
    <3> QED BY <1>2, <3>4 DEF RunInv, QueueInv, BudgetOk, LogKept, Cleaned, LastSynced
  <2> QED BY <2>2, <2>3
<1>6. WaiterInv'
  BY <1>1, <1>2, WaiterMove DEF RunInv, LogKept
<1> QED BY <1>3, <1>4, <1>5, <1>6 DEF RunInv

(* A waiter looks at its lwb and times out, comes too late for that, or is *)
(* done.                                                                   *)
LEMMA WaitStep ==
  ASSUME PoolInv, RunInv, NEW th \in Threads,
         WaiterTimeout(th) \/ TimeoutLate(th) \/ Return(th)
  PROVE  PoolInv' /\ RunInv'
<1>0. PICK l \in {"timeout", "wait", "error", "idle"} : \E p :
        /\ pc[th] \in {"wait", "timeout"} /\ pc' = [pc EXCEPT ![th] = l]
        /\ pos' = [pos EXCEPT ![th] = p]
        /\ l = "timeout" => zcw[th].lwb # 0
  <2>1. pos = [pos EXCEPT ![th] = pos[th]]
    BY DEF RunInv, IssuerInv
  <2> QED BY <2>1 DEF WaiterTimeout, TimeoutLate, Return, Goto
<1>1. PICK p :
        /\ pc[th] \in {"wait", "timeout"} /\ pc' = [pc EXCEPT ![th] = l]
        /\ pos' = [pos EXCEPT ![th] = p]
        /\ l = "timeout" => zcw[th].lwb # 0
  BY <1>0
<1>2. UNCHANGED <<poolVars, queueVars, lwbVars, issuer, tx, zcw, cur, nolwb, budget>>
  BY DEF WaiterTimeout, TimeoutLate, Return, ghostVars
<1>3. /\ pc \in [Threads -> Pcs] /\ LogKept
      /\ UNCHANGED <<zcw, dirty, tx, itxg, commit_list, budget>>
  BY <1>2 DEF RunInv, IssuerInv, poolVars, queueVars, lwbVars, LogKept
<1>4. PoolInv' /\ LwbInv' /\ IssuerInv' /\ DeadInv'
  BY <1>1, <1>3, OutsideMove DEF RunInv, Pcs, IssuerPcs
<1>5. HeldInv'
  BY <1>3 DEF RunInv, HeldInv, Holds, Syncing, LogKept, Blocks
<1>6. QueueInv'
  BY <1>3 DEF RunInv, QueueInv, BudgetOk, LogKept, Cleaned, LastSynced
<1>7. WaiterInv'
  BY <1>1, <1>3 DEF RunInv, WaiterInv, LogKept
<1> QED BY <1>4, <1>5, <1>6, <1>7 DEF RunInv

-----------------------------------------------------------------------------
(* Steps of the thread that has zl_issuer_lock, or gets it                 *)

PoolKept == UNCHANGED <<open, synced, spa, zh_log, zh_syncing, lwb_list, lwb, last_opened,
                        dirty, tx>>
QueueKept == UNCHANGED <<itxg, commit_list, budget>>

LEMMA LogFrame ==
  ASSUME PoolInv, RunInv, PoolKept
  PROVE  /\ PoolInv' /\ HeldInv' /\ LwbInv'
         /\ QueueKept => QueueInv'
         /\ \A d : Emptying(d)' <=> Emptying(d)
<1>1. PoolInv' /\ HeldInv'
  BY DEF RunInv, PoolInv, HeldInv, Holds, PoolKept, Syncing, LastSynced, Blocks
<1>2. LwbInv'
  BY DEF RunInv, LwbInv, PoolKept, LwbOk, Listed
<1>3. QueueKept => QueueInv'
  BY DEF RunInv, QueueInv, BudgetOk, PoolKept, QueueKept, Cleaned, LastSynced
<1>4. \A d : Emptying(d)' <=> Emptying(d)
  BY DEF Emptying, PoolKept
<1> QED BY <1>1, <1>2, <1>3, <1>4

(* The list of lwbs is left alone; no lwb gets more to write or to hold.   *)
ChainKept ==
    /\ UNCHANGED <<open, synced, spa, zh_log, zh_syncing, lwb_list, dirty>>
    /\ \A d \in dirty : Emptying(d) => Emptying(d)'
    /\ lwb_list # <<>> /\ lwb[Last(lwb_list)].state \in Fillable =>
            lwb'[Last(lwb_list)].state \in Fillable

LEMMA PoolKeptChain ==
  ASSUME PoolInv, RunInv, PoolKept
  PROVE  ChainKept
BY LogFrame DEF PoolKept, ChainKept

(* Who is at work on the log, and nobody else.                             *)
LEMMA OneIssuer ==
  ASSUME IssuerInv, NEW th \in Threads, pc[th] \in IssuerPcs \/ issuer = NoThread
  PROVE  \A u \in Threads : u # th => pc[u] \notin IssuerPcs /\ ~Dead(u)
BY ZilAssumption DEF IssuerInv, Dead, IssuerPcs, Stalls

(* The thread goes on, and the chain is as good as before.                 *)
LEMMA InsideMove ==
  ASSUME PoolInv, RunInv, ChainKept, NEW th \in Threads, NEW l, NEW p,
         l \in Pcs, pc' = [pc EXCEPT ![th] = l],
         pos' = [pos EXCEPT ![th] = p],
         pc[th] \in IssuerPcs \/ issuer = NoThread,
         issuer' = IF l \in IssuerPcs THEN th ELSE NoThread,
         cur' # 0 => /\ l \in {"create_wait", "process", "next", "eio"}
                     /\ lwb_list # <<>> /\ cur' = Last(lwb_list),
         l = "create" => lwb_list = <<>>, l \in {"next", "eio"} => cur' # 0,
         l = "scan" => p \in Seq(Nat) \ {<<>>},
         ~Dead(th) => ~Dead(th)',
         Dead(th) => \/ Dead(th)' /\ l \notin Stalls /\ pc[th] \notin Stalls
                     \/ ~Dead(th)' /\ lwb_list = <<>>
  PROVE  IssuerInv' /\ DeadInv'
<1>1. /\ pc \in [Threads -> Pcs] /\ pos = [u \in Threads |-> pos[u]]
      /\ \A u \in Threads : u # th => pc'[u] = pc[u] /\ pos'[u] = pos[u]
      /\ pc'[th] = l /\ pc' \in [Threads -> Pcs] /\ pos' = [u \in Threads |-> pos'[u]]
  BY DEF RunInv, IssuerInv
<1>2. \A u \in Threads : u # th => pc[u] \notin IssuerPcs /\ ~Dead(u)
  BY OneIssuer DEF RunInv
<1>3. IssuerInv'
  <2>1. \A u \in Threads : pc'[u] \in IssuerPcs <=> issuer' = u
    BY <1>1, <1>2, ZilAssumption
  <2>2. issuer' \in Threads \cup {NoThread}
    OBVIOUS
  <2>3. cur' # 0 => /\ issuer' # NoThread
                    /\ pc'[issuer'] \in {"create_wait", "process", "next", "eio"}
                    /\ lwb_list' # <<>> /\ cur' = Last(lwb_list')
    BY <1>1, ZilAssumption DEF IssuerPcs, ChainKept
  <2>4. \A u \in Threads : /\ pc'[u] = "create" => lwb_list' = <<>>
                           /\ pc'[u] \in {"next", "eio"} => cur' # 0
                           /\ pc'[u] = "scan" => pos'[u] \in Seq(Nat) \ {<<>>}
    BY <1>1, <1>2 DEF IssuerPcs, ChainKept
  <2> QED BY <1>1, <2>1, <2>2, <2>3, <2>4 DEF IssuerInv
<1>4. DeadInv'
  <2>1. \A u \in Threads : u # th => ~Dead(u)' /\ pc'[u] \notin Stalls
    BY <1>1, <1>2 DEF Dead, IssuerPcs, Stalls
  <2>2. l \in Stalls => Dead(th)'
    BY <1>1 DEF Dead
  <2>3. l \in Stalls => Dead(th)
    BY <2>2
  <2>4. l \notin Stalls
    BY <2>2, <2>3
  <2>5. Dead(th)' => \/ Emptied(th)'
                     \/ \E d \in dirty' : Syncing' < d /\ d <= open' /\ d < Stop(th)'
                                          /\ Emptying(d)'
    <3>1. SUFFICES ASSUME Dead(th)'
                   PROVE  \/ Emptied(th)'
                          \/ \E d \in dirty' : Syncing' < d /\ d <= open' /\ d < Stop(th)'
                                               /\ Emptying(d)'
      OBVIOUS
    <3>2. Dead(th) /\ pc[th] \notin Stalls
      BY <3>1
    <3>3. Stop(th)' = Stop(th)
      BY <1>1, <2>4, <3>2 DEF Stop, ChainKept
    <3>4. Emptied(th)' <=> Emptied(th)
      BY <3>3 DEF Emptied, ChainKept
    <3> QED BY <3>2, <3>3, <3>4 DEF RunInv, DeadInv, ChainKept, Syncing
  <2>6. lwb_list' # <<>> /\ (\A u \in Threads : ~Dead(u)') =>
            lwb'[Last(lwb_list')].state \in Fillable
    BY <1>2 DEF RunInv, DeadInv, ChainKept
  <2> QED BY <1>1, <2>1, <2>4, <2>5, <2>6 DEF DeadInv
<1> QED BY <1>3, <1>4

LEMMA ChainFrame ==
  ASSUME PoolInv, RunInv, ChainKept, UNCHANGED <<pc, pos, issuer, cur>>
  PROVE  PoolInv' /\ IssuerInv' /\ DeadInv'
<1>1. PoolInv'
  BY DEF PoolInv, ChainKept, Syncing, LastSynced
<1>2. IssuerInv'
  BY DEF RunInv, IssuerInv, ChainKept
<1>3. \A th \in Threads : /\ Dead(th)' <=> Dead(th)
                          /\ Stop(th)' = Stop(th)
                          /\ Emptied(th)' <=> Emptied(th)
  BY DEF Dead, Stop, Emptied, ChainKept
<1>4. DeadInv'
  BY <1>3 DEF RunInv, DeadInv, ChainKept, Syncing
<1> QED BY <1>1, <1>2, <1>4

LEMMA WriterStep ==
  ASSUME PoolInv, RunInv, NEW th \in Threads, Writer(th)
  PROVE  PoolInv' /\ RunInv'
<1>0. cur = 0 /\ issuer = NoThread /\ pc[th] = "writer" /\ cur' = cur
  BY DEF Writer, RunInv, IssuerInv
<1>a. PICK l \in {"wait", "scan"} : \E p :
        /\ pc' = [pc EXCEPT ![th] = l] /\ pos' = [pos EXCEPT ![th] = p]
        /\ issuer' = IF l = "scan" THEN th ELSE NoThread
        /\ l = "scan" => p \in Seq(Nat) \ {<<>>}
  <2>1. pos = [pos EXCEPT ![th] = pos[th]]
    BY DEF RunInv, IssuerInv
  <2>2. LiveGroups \in Seq(Nat) \ {<<>>}
    <3>1. \A i \in 1 .. 3 : LastSynced + i \in Nat
      BY DEF PoolInv, LastSynced
    <3> QED BY <3>1 DEF LiveGroups, TXG_CONCURRENT_STATES
  <2>3. CASE zcw[th].lwb # 0 \/ zcw[th].done
    <3>1. pc' = [pc EXCEPT ![th] = "wait"] /\ issuer' = NoThread /\ pos' = pos
      BY <1>0, <2>3 DEF Writer, Goto
    <3> QED BY <2>1, <3>1
  <2>4. CASE ~(zcw[th].lwb # 0 \/ zcw[th].done)
    <3>1. /\ pc' = [pc EXCEPT ![th] = "scan"] /\ issuer' = th
          /\ pos' = [pos EXCEPT ![th] = LiveGroups]
      BY <2>4 DEF Writer, Goto
    <3> QED BY <2>2, <3>1
  <2> QED BY <2>3, <2>4
<1>1. PICK p :
        /\ pc' = [pc EXCEPT ![th] = l] /\ pos' = [pos EXCEPT ![th] = p]
        /\ issuer' = IF l = "scan" THEN th ELSE NoThread
        /\ l = "scan" => p \in Seq(Nat) \ {<<>>}
  BY <1>a
<1>2. PoolKept /\ QueueKept /\ UNCHANGED zcw /\ pc \in [Threads -> Pcs]
  BY DEF Writer, PoolKept, QueueKept, poolVars, queueVars, lwbVars, ghostVars, RunInv, IssuerInv
<1>3. ~Dead(th)'
  BY <1>1, <1>2 DEF Dead, Stalls
<1>4. ~Dead(th)
  BY <1>0 DEF Dead, Stalls
<1>5. IssuerInv' /\ DeadInv'
  <2>1. issuer' = IF l \in IssuerPcs THEN th ELSE NoThread
    BY <1>1 DEF IssuerPcs
  <2>2. l \in Pcs /\ l # "create" /\ l \notin {"next", "eio"} /\ cur' = 0
    BY <1>0, <1>1 DEF Pcs
  <2>3. l = "scan" => p \in Seq(Nat) \ {<<>>}
    BY <1>1
  <2>4. pc' = [pc EXCEPT ![th] = l] /\ pos' = [pos EXCEPT ![th] = p]
    BY <1>1
  <2> QED BY <1>0, <1>2, <1>3, <1>4, <2>1, <2>2, <2>3, <2>4, InsideMove, PoolKeptChain
<1>6. WaiterInv'
  BY <1>1, <1>2, WaiterMove DEF RunInv, PoolKept
<1> QED BY <1>2, <1>5, <1>6, LogFrame DEF RunInv

LEMMA GetCommitListStep ==
  ASSUME PoolInv, RunInv, NEW th \in Threads, GetCommitList(th)
  PROVE  PoolInv' /\ RunInv'
<1> DEFINE t == Head(pos[th])
           s == Slot(t)
<1>0. pc[th] = "scan" /\ issuer' = issuer /\ cur' = cur
  BY DEF GetCommitList
<1>1. PICK l \in {"scan", "prune"} :
        /\ pc' = [pc EXCEPT ![th] = l] /\ pos' = [pos EXCEPT ![th] = Tail(@)]
        /\ l = "scan" => Len(pos[th]) # 1
        /\ \/ UNCHANGED <<commit_list, itxg>>
           \/ /\ commit_list' = commit_list \o itxg[s].sync
              /\ itxg' = [itxg EXCEPT ![s].sync = <<>>]
  <2>1. pc = [pc EXCEPT ![th] = "scan"]
    BY <1>0 DEF RunInv, IssuerInv
  <2> QED BY <2>1 DEF GetCommitList, Goto
<1>a. pos[th] \in Seq(Nat) \ {<<>>} /\ pos' = [pos EXCEPT ![th] = Tail(pos[th])]
  BY <1>0, <1>1 DEF RunInv, IssuerInv
<1>b. s \in 0 .. TXG_SIZE - 1
  <2>1. t \in Nat
    BY <1>a
  <2> HIDE DEF t
  <2> QED BY <2>1, SlotType
<1>c. l = "scan" => Tail(pos[th]) \in Seq(Nat) \ {<<>>}
  <2>1. Len(pos[th]) \in Nat /\ Len(pos[th]) # 0 /\ Len(Tail(pos[th])) = Len(pos[th]) - 1
        /\ Tail(pos[th]) \in Seq(Nat)
    BY <1>a
  <2>2. Tail(pos[th]) = <<>> => Len(Tail(pos[th])) = 0
    BY <2>1, EmptySeq
  <2>3. Tail(pos[th]) = <<>> => Len(pos[th]) = 1
    BY <2>1, <2>2
  <2> QED BY <1>1, <2>1, <2>3
<1> HIDE DEF t, s
<1>2. PoolKept /\ UNCHANGED <<zcw, budget>> /\ pc \in [Threads -> Pcs]
  BY DEF GetCommitList, PoolKept, poolVars, lwbVars, ghostVars, RunInv, IssuerInv
<1>3. ~Dead(th)' /\ ~Dead(th) /\ issuer = th /\ cur = 0
  BY <1>0, <1>1, <1>2, ZilAssumption DEF Dead, Stalls, RunInv, IssuerInv, IssuerPcs
<1>4. IssuerInv' /\ DeadInv'
  <2>1. l \in Pcs /\ l \in IssuerPcs /\ l # "create" /\ l \notin {"next", "eio"} /\ cur' = 0
    BY <1>0, <1>1, <1>3 DEF Pcs, IssuerPcs
  <2>2. pc' = [pc EXCEPT ![th] = l] /\ issuer' = th
    BY <1>0, <1>1, <1>3
  <2>3. pc[th] \in IssuerPcs
    BY <1>0 DEF IssuerPcs
  <2> QED BY <1>a, <1>c, <1>2, <1>3, <2>1, <2>2, <2>3, InsideMove, PoolKeptChain
<1>5. QueueInv'
  <2>1. itxg \in [0 .. TXG_SIZE - 1 -> Itxgs(open)] /\ commit_list \in Seq(UpTo(open))
    BY DEF RunInv, QueueInv
  <2>2. CASE UNCHANGED <<commit_list, itxg>>
    BY <1>2, <2>2 DEF RunInv, QueueInv, BudgetOk, PoolKept, Cleaned, LastSynced
  <2>3. CASE /\ commit_list' = commit_list \o itxg[s].sync
             /\ itxg' = [itxg EXCEPT ![s].sync = <<>>]
    <3>1. /\ itxg' \in [0 .. TXG_SIZE - 1 -> Itxgs(open)]
          /\ \A i \in 0 .. TXG_SIZE - 1 : itxg'[i].txg = itxg[i].txg
      <4>1. PICK e : e = [itxg[s] EXCEPT !.sync = <<>>]
        OBVIOUS
      <4>2. e \in Itxgs(open) /\ e.txg = itxg[s].txg
        <5>1. itxg[s] \in Itxgs(open) /\ <<>> \in Seq(UpTo(open))
          BY <1>b, <2>1
        <5> QED BY <4>1, <5>1 DEF Itxgs
      <4>3. itxg' = [itxg EXCEPT ![s] = e]
        BY <2>3, <4>1
      <4> QED BY <1>b, <2>1, <4>2, <4>3
    <3>2. commit_list' \in Seq(UpTo(open))
      BY <1>b, <2>1, <2>3 DEF Itxgs
    <3> QED BY <1>2, <3>1, <3>2 DEF RunInv, QueueInv, BudgetOk, PoolKept, Cleaned, LastSynced
  <2> QED BY <1>1, <2>2, <2>3
<1>6. WaiterInv'
  BY <1>1, <1>2, WaiterMove DEF RunInv, PoolKept
<1> QED BY <1>2, <1>4, <1>5, <1>6, LogFrame DEF RunInv

LEMMA LastFacts ==
  ASSUME LwbInv, lwb_list # <<>>
  PROVE  /\ Len(lwb_list) \in DOMAIN lwb_list /\ Last(lwb_list) = lwb_list[Len(lwb_list)]
         /\ Last(lwb_list) \in 1 .. Len(lwb) /\ Last(lwb_list) # 0
<1>1. Len(lwb_list) \in Nat \ {0} /\ lwb_list \in Seq(1 .. Len(lwb)) /\ Len(lwb) \in Nat
  BY EmptySeq DEF LwbInv
<1> QED BY <1>1 DEF Last

LEMMA PruneEndStep ==
  ASSUME PoolInv, RunInv, NEW th \in Threads, PruneEnd(th)
  PROVE  PoolInv' /\ RunInv'
<1>0. /\ pc[th] = "prune" /\ pos' = pos /\ UNCHANGED zcw
      /\ PoolKept /\ QueueKept /\ pc \in [Threads -> Pcs]
  BY DEF PruneEnd, PoolKept, QueueKept, poolVars, queueVars, lwbVars, ghostVars, RunInv,
         IssuerInv
<1>1. issuer = th /\ cur = 0 /\ pos' = [pos EXCEPT ![th] = pos[th]] /\ pc[th] \in IssuerPcs
  BY <1>0, ZilAssumption DEF RunInv, IssuerInv, IssuerPcs
<1>2. PICK l \in {"wait", "create", "process"} :
        /\ pc' = [pc EXCEPT ![th] = l] /\ issuer' = IF l = "wait" THEN NoThread ELSE th
        /\ cur' = IF l = "process" THEN Last(lwb_list) ELSE 0
        /\ l = "create" => lwb_list = <<>>
        /\ l = "process" => lwb_list # <<>>
  BY <1>1 DEF PruneEnd, Goto
<1>3. l = "process" => cur' # 0
  BY <1>2, LastFacts DEF RunInv
<1>4. ~Dead(th) /\ ~Dead(th)'
  BY <1>0, <1>2, <1>3 DEF Dead, Stalls
<1>5. IssuerInv' /\ DeadInv'
  <2>1. /\ l \in Pcs /\ l \notin {"next", "eio"} /\ l # "scan"
        /\ issuer' = IF l \in IssuerPcs THEN th ELSE NoThread
        /\ cur' # 0 => /\ l \in {"create_wait", "process", "next", "eio"}
                       /\ lwb_list # <<>> /\ cur' = Last(lwb_list)
    BY <1>2 DEF Pcs, IssuerPcs
  <2>2. pc' = [pc EXCEPT ![th] = l] /\ (l = "create" => lwb_list = <<>>)
    BY <1>2
  <2> QED BY <1>0, <1>1, <1>4, <2>1, <2>2, InsideMove, PoolKeptChain
<1>6. WaiterInv'
  BY <1>0, <1>2, WaiterMove DEF RunInv, PoolKept
<1> QED BY <1>0, <1>5, <1>6, LogFrame DEF RunInv

(* The writer stalls: it will wait past every group that is open now.      *)
LEMMA StallMove ==
  ASSUME PoolInv, RunInv, PoolKept, NEW th \in Threads, pc[th] = "process", cur = 0,
         pc' = [pc EXCEPT ![th] = "stall"], pos' = [pos EXCEPT ![th] = SyncAll],
         issuer' = issuer, cur' = 0
  PROVE  IssuerInv' /\ DeadInv'
<1>1. /\ pc \in [Threads -> Pcs] /\ pos = [u \in Threads |-> pos[u]]
      /\ \A u \in Threads : u # th => pc'[u] = pc[u] /\ pos'[u] = pos[u]
      /\ pc'[th] = "stall" /\ pc' \in [Threads -> Pcs] /\ pos' = [u \in Threads |-> pos'[u]]
      /\ pos'[th] = <<open + 2>>
  BY DEF RunInv, IssuerInv, Pcs, SyncAll, TXG_DEFER_SIZE
<1>2. pc[th] \in IssuerPcs /\ \A u \in Threads : u # th => pc[u] \notin IssuerPcs /\ ~Dead(u)
  BY OneIssuer DEF RunInv, IssuerPcs
<1>3. IssuerInv'
  BY <1>1, <1>2 DEF RunInv, IssuerInv, IssuerPcs, PoolKept
<1>4. DeadInv'
  <2>1. /\ \A u \in Threads : u # th => ~Dead(u)' /\ pc'[u] \notin Stalls
        /\ Dead(th)' /\ Dead(th) /\ Head(pos'[th]) = open + 2
    BY <1>1, <1>2 DEF Dead, IssuerPcs, Stalls
  <2>2. /\ open \in Nat /\ synced \in Nat /\ synced < open /\ dirty \subseteq Nat
        /\ Stop(th) = open + 1 /\ Stop(th)' = open + 2 /\ open' = open
    BY <1>1, <2>1 DEF PoolInv, Syncing, Stop, Stalls, PoolKept
  <2>3. Emptied(th) => Emptied(th)'
    BY <2>2 DEF Emptied, PoolKept
  <2>4. \A d \in dirty : d < Stop(th) => d < Stop(th)'
    BY <2>2
  <2>5. \/ Emptied(th)'
        \/ \E d \in dirty' : Syncing' < d /\ d <= open' /\ d < Stop(th)' /\ Emptying(d)'
    BY <2>1, <2>3, <2>4, LogFrame DEF RunInv, DeadInv, PoolKept, Syncing
  <2> QED BY <1>1, <2>1, <2>2, <2>5 DEF DeadInv
<1> QED BY <1>3, <1>4

LEMMA ProcessEndStep ==
  ASSUME PoolInv, RunInv, NEW th \in Threads, ProcessEnd(th)
  PROVE  PoolInv' /\ RunInv'
<1>0. /\ pc[th] = "process" /\ UNCHANGED zcw /\ cur' = 0
      /\ PoolKept /\ QueueKept /\ pc \in [Threads -> Pcs]
  BY DEF ProcessEnd, PoolKept, QueueKept, poolVars, queueVars, lwbVars, ghostVars, RunInv,
         IssuerInv
<1>1. issuer = th /\ pc[th] \in IssuerPcs /\ pos = [pos EXCEPT ![th] = pos[th]]
  BY <1>0, ZilAssumption DEF RunInv, IssuerInv, IssuerPcs
<1>2. IssuerInv' /\ DeadInv'
  <2>1. CASE cur = 0
    BY <1>0, <2>1, StallMove DEF ProcessEnd, MustStall, Goto
  <2>2. CASE cur # 0
    <3>1. /\ pc' = [pc EXCEPT ![th] = "wait"] /\ issuer' = NoThread
          /\ pos' = [pos EXCEPT ![th] = pos[th]]
      BY <1>1, <2>2 DEF ProcessEnd, MustStall, Goto
    <3>2. ~Dead(th) /\ ~Dead(th)' /\ "wait" \in Pcs /\ "wait" \notin IssuerPcs
      BY <1>0, <2>2, <3>1 DEF Dead, Stalls, Pcs, IssuerPcs
    <3> QED BY <1>0, <1>1, <3>1, <3>2, InsideMove, PoolKeptChain
  <2> QED BY <2>1, <2>2
<1>3. WaiterInv'
  BY <1>0, WaiterMove DEF RunInv, PoolKept, ProcessEnd, Goto
<1> QED BY <1>0, <1>2, <1>3, LogFrame DEF RunInv

LEMMA SkipKeeps ==
  ASSUME WaiterInv, NEW W, Skip(W), lwb' = lwb,
         \A th \in Threads : pc'[th] = "timeout" => pc[th] = "timeout"
  PROVE  WaiterInv'
<1>1. /\ zcw' \in [Threads -> [lwb : Nat, done : BOOLEAN, error : BOOLEAN]]
      /\ \A th \in Threads : /\ zcw'[th].lwb = zcw[th].lwb
                             /\ zcw[th].done => zcw'[th].done
  BY DEF Skip, WaiterInv
<1> QED BY <1>1 DEF WaiterInv

(* txg_wait_synced returns.                                                *)
LEMMA SyncedStep ==
  ASSUME PoolInv, RunInv, NEW th \in Threads, Synced(th)
  PROVE  PoolInv' /\ RunInv'
<1>0. /\ Waiting(th) /\ LastSynced >= Head(pos[th]) /\ pos' = [pos EXCEPT ![th] = <<>>]
      /\ PoolKept /\ QueueKept /\ UNCHANGED cur /\ pc \in [Threads -> Pcs]
  BY DEF Synced, PoolKept, QueueKept, poolVars, queueVars, lwbVars, RunInv, IssuerInv
<1>1. CASE pc[th] \in {"create_wait", "eio"}
  <2>1. pc' = [pc EXCEPT ![th] = "process"] /\ UNCHANGED <<issuer, zcw>>
    BY <1>1 DEF Synced, Goto
  <2>2. issuer = th /\ pc[th] \in IssuerPcs /\ "process" \in IssuerPcs /\ "process" \in Pcs
    BY <1>1, ZilAssumption DEF RunInv, IssuerInv, IssuerPcs, Pcs
  <2>3. /\ pc[th] \notin Stalls /\ "process" \notin Stalls
        /\ Dead(th)' => Dead(th)
        /\ Dead(th) => Dead(th)'
    BY <1>0, <1>1, <2>1 DEF Dead, Stalls, RunInv, IssuerInv
  <2>4. cur' # 0 => lwb_list # <<>> /\ cur' = Last(lwb_list)
    BY <1>0 DEF RunInv, IssuerInv
  <2>5. IssuerInv' /\ DeadInv'
    BY <1>0, <2>1, <2>2, <2>3, <2>4, InsideMove, PoolKeptChain
  <2>6. WaiterInv'
    BY <1>0, <2>1, WaiterMove DEF RunInv, PoolKept
  <2> QED BY <1>0, <2>5, <2>6, LogFrame DEF RunInv
<1>2. CASE pc[th] \in Stalls
  <2>1. pc' = [pc EXCEPT ![th] = "wait"] /\ issuer' = NoThread /\ Skip(nolwb)
    BY <1>2 DEF Synced, Goto, Stalls
  <2>2. /\ issuer = th /\ pc[th] \in IssuerPcs /\ "wait" \notin IssuerPcs /\ "wait" \in Pcs
        /\ cur = 0
    BY <1>2, ZilAssumption DEF RunInv, IssuerInv, IssuerPcs, Pcs, Stalls
  <2>3. lwb_list = <<>>
    BY <1>0, <1>2, StallOver DEF RunInv
  <2>4. ~Dead(th)'
    BY <1>0, <2>1 DEF Dead, Stalls
  <2>5. IssuerInv' /\ DeadInv'
    BY <1>0, <2>1, <2>2, <2>3, <2>4, InsideMove, PoolKeptChain
  <2>6. WaiterInv'
    BY <1>0, <2>1, SkipKeeps DEF RunInv, PoolKept
  <2> QED BY <1>0, <2>5, <2>6, LogFrame DEF RunInv
<1>3. CASE pc[th] = "error"
  <2>1. pc' = [pc EXCEPT ![th] = "idle"] /\ UNCHANGED <<issuer, zcw>>
    BY <1>3 DEF Synced, Goto
  <2>2. LogKept /\ dirty' = dirty
    BY <1>0, <2>1 DEF LogKept, PoolKept
  <2>3. pc[th] \notin IssuerPcs /\ "idle" \in Pcs \ IssuerPcs
    BY <1>3 DEF Pcs, IssuerPcs
  <2>4. IssuerInv' /\ DeadInv'
    BY <1>0, <2>1, <2>2, <2>3, OutsideMove DEF RunInv
  <2>5. WaiterInv'
    BY <1>0, <2>1, WaiterMove DEF RunInv, PoolKept
  <2> QED BY <1>0, <2>4, <2>5, LogFrame DEF RunInv
<1> QED BY <1>0, <1>1, <1>2, <1>3 DEF Waiting, Stalls

-----------------------------------------------------------------------------
(* Steps that change an lwb                                                *)

(* What matters here of an lwb other than b is left alone.                 *)
OthersKept(b) ==
    /\ Len(lwb') = Len(lwb) /\ lwb' = [c \in 1 .. Len(lwb) |-> lwb'[c]]
    /\ \A c \in 1 .. Len(lwb) : c # b =>
        /\ lwb'[c] = [f \in LwbFields |-> lwb'[c][f]]
        /\ lwb'[c].state = lwb[c].state /\ lwb'[c].buf = lwb[c].buf
        /\ lwb'[c].tx = lwb[c].tx /\ lwb'[c].max_txg = lwb[c].max_txg
        /\ lwb'[c].waiters = lwb[c].waiters

LEMMA LwbUpdate ==
  ASSUME PoolInv, RunInv, NEW b \in 1 .. Len(lwb), OthersKept(b),
         UNCHANGED <<open, synced, spa, zh_log, zh_syncing, lwb_list, dirty, tx>>,
         LwbOk(lwb'[b]), lwb[b].state = "FREE" <=> lwb'[b].state = "FREE",
         lwb'[b].state = "CLOSED" => lwb[b].state = "CLOSED",
         lwb[b].state \in Fillable <=> lwb'[b].state \in Fillable,
         lwb'[b].tx = lwb[b].tx \/ lwb'[b].tx = 0,
         lwb[b].state \notin Fillable => lwb'[b].max_txg = lwb[b].max_txg,
         \/ last_opened' = last_opened
         \/ last_opened' = b /\ lwb'[b].state \notin {"FREE", "CLOSED"}
  PROVE  HeldInv' /\ LwbInv' /\ ChainKept
<1>1. HeldInv'
  <2>1. \A c \in 1 .. Len(lwb) : Holds(lwb[c].tx)
    BY DEF RunInv, HeldInv, LwbInv, Blocks
  <2>2. \A c \in 1 .. Len(lwb) : Holds(lwb'[c].tx)
    BY <2>1 DEF OthersKept, Holds
  <2>3. \A t : Holds(t)' <=> Holds(t)
    BY DEF Holds, Syncing
  <2>4. Blocks' = 1 .. Len(lwb)
    BY DEF OthersKept, Blocks
  <2> QED BY <2>2, <2>3, <2>4 DEF RunInv, HeldInv
<1>2. /\ \A c \in 1 .. Len(lwb) : LwbOk(lwb'[c])
      /\ \A c \in 1 .. Len(lwb) : lwb'[c].state = "FREE" <=> lwb[c].state = "FREE"
      /\ \A c \in 1 .. Len(lwb) : lwb'[c].state \in Fillable <=> lwb[c].state \in Fillable
  <2>1. SUFFICES ASSUME NEW c \in 1 .. Len(lwb)
                 PROVE  /\ LwbOk(lwb'[c])
                        /\ lwb'[c].state = "FREE" <=> lwb[c].state = "FREE"
                        /\ lwb'[c].state \in Fillable <=> lwb[c].state \in Fillable
    OBVIOUS
  <2>2. CASE c = b
    BY <2>2
  <2>3. CASE c # b
    <3>1. LwbOk(lwb[c])
      BY DEF RunInv, LwbInv
    <3> QED BY <2>3, <3>1 DEF LwbOk, OthersKept
  <2> QED BY <2>2, <2>3
<1>3. LwbInv'
  <2>1. Len(lwb') = Len(lwb) /\ Len(lwb) \in Nat /\ lwb' = [c \in 1 .. Len(lwb) |-> lwb'[c]]
    BY DEF RunInv, LwbInv, OthersKept
  <2>2. \A c \in 1 .. Len(lwb) : Listed(c)' <=> Listed(c)
    BY DEF Listed
  <2>3. last_opened' # 0 => /\ last_opened' \in 1 .. Len(lwb)
                            /\ lwb'[last_opened'].state \notin {"FREE", "CLOSED"}
    BY DEF RunInv, LwbInv, OthersKept
  <2>4. \A i \in DOMAIN lwb_list : lwb_list[i] \in 1 .. Len(lwb)
    BY DEF RunInv, LwbInv
  <2>5. \A c : LwbOk(lwb[c])' <=> LwbOk(lwb'[c])
    BY DEF LwbOk
  <2>6. \A c \in 1 .. Len(lwb) : LwbOk(lwb[c])' /\ (lwb'[c].state = "FREE" <=> ~Listed(c)')
    BY <1>2, <2>2, <2>5 DEF RunInv, LwbInv
  <2>7. \A i \in DOMAIN lwb_list : i < Len(lwb_list) => lwb'[lwb_list[i]].state \notin Fillable
    BY <1>2, <2>4 DEF RunInv, LwbInv
  <2>8. /\ lwb_list \in Seq(1 .. Len(lwb)) /\ zh_syncing \in 0 .. Len(lwb)
        /\ \A i, j \in DOMAIN lwb_list : lwb_list[i] = lwb_list[j] => i = j
        /\ spa # "sync" => zh_log = zh_syncing
    BY DEF RunInv, LwbInv
  <2> QED BY <2>1, <2>3, <2>6, <2>7, <2>8 DEF LwbInv
<1>4. ChainKept
  <2>1. \A d \in dirty : Emptying(d) => Emptying(d)'
    <3>1. SUFFICES ASSUME NEW d \in dirty, Emptying(d) PROVE Emptying(d)'
      OBVIOUS
    <3>2. \A c \in 1 .. Len(lwb) : /\ lwb'[c].state \notin Fillable
                                   /\ lwb'[c].max_txg = lwb[c].max_txg
                                   /\ lwb'[c].tx = lwb[c].tx \/ lwb'[c].tx = 0
      BY <1>2, <3>1 DEF Emptying, OthersKept
    <3>3. 0 <= d
      BY DEF PoolInv
    <3> QED BY <3>1, <3>2, <3>3 DEF Emptying, OthersKept
  <2>2. lwb_list # <<>> => Last(lwb_list) \in 1 .. Len(lwb)
    BY LastFacts DEF RunInv
  <2> QED BY <1>2, <2>1, <2>2 DEF ChainKept
<1> QED BY <1>1, <1>3, <1>4

LEMMA OneLwb ==
  ASSUME LwbInv, NEW b \in 1 .. Len(lwb), NEW e, e = [f \in LwbFields |-> e[f]],
         lwb' = [lwb EXCEPT ![b] = e]
  PROVE  OthersKept(b) /\ lwb'[b] = e
<1>1. Len(lwb) \in Nat /\ lwb = [c \in 1 .. Len(lwb) |-> lwb[c]]
  BY DEF LwbInv
<1>2. lwb' = [c \in 1 .. Len(lwb) |-> lwb'[c]] /\ lwb'[b] = e
  BY <1>1
<1>3. Len(lwb') = Len(lwb)
  BY <1>1, <1>2, AppendIs
<1>4. \A c \in 1 .. Len(lwb) : c # b => lwb'[c] = lwb[c]
  BY <1>1
<1>5. \A c \in 1 .. Len(lwb) : lwb[c] = [f \in LwbFields |-> lwb[c][f]]
  BY DEF LwbInv, LwbOk
<1>6. \A c \in 1 .. Len(lwb) : c # b => lwb'[c] = [f \in LwbFields |-> lwb'[c][f]]
  BY <1>4, <1>5
<1> QED BY <1>2, <1>3, <1>4, <1>6 DEF OthersKept

(* No waiter loses the lwb it is linked to.                                *)
Pending == {"OPENED"} \cup InFlight
LEMMA WaitersStay ==
  ASSUME LwbInv, WaiterInv, NEW b \in 1 .. Len(lwb), OthersKept(b), UNCHANGED zcw,
         \A th \in Threads : pc'[th] = "timeout" => pc[th] = "timeout",
         lwb[b].waiters \subseteq lwb'[b].waiters,
         lwb[b].state \in Pending => lwb'[b].state \in Pending
  PROVE  WaiterInv'
<1>1. \A c \in 1 .. Len(lwb) : /\ lwb[c].waiters \subseteq lwb'[c].waiters
                               /\ lwb[c].state \in Pending => lwb'[c].state \in Pending
  BY DEF OthersKept
<1> QED BY <1>1 DEF WaiterInv, OthersKept, Pending

LEMMA WriteDoneStep ==
  ASSUME PoolInv, RunInv, NEW b \in Blocks, WriteDone(b)
  PROVE  PoolInv' /\ RunInv'
<1>0. LwbInv /\ b \in 1 .. Len(lwb) /\ LwbOk(lwb[b]) /\ lwb[b].state = "ISSUED"
  BY DEF RunInv, LwbInv, Blocks, WriteDone
<1>1. PICK error \in BOOLEAN : lwb' = [lwb EXCEPT ![b].state = "WRITE_DONE", ![b].cb = "flush",
                                                  ![b].error = error]
  BY DEF WriteDone
<1>2. PICK e : e = [lwb[b] EXCEPT !.state = "WRITE_DONE", !.cb = "flush", !.error = error]
  OBVIOUS
<1>3. lwb' = [lwb EXCEPT ![b] = e]
  BY <1>0, <1>1, <1>2 DEF LwbInv
<1>4. /\ e = [f \in LwbFields |-> e[f]] /\ e.state = "WRITE_DONE" /\ e.buf = lwb[b].buf
      /\ e.tx = lwb[b].tx /\ e.max_txg = lwb[b].max_txg /\ e.waiters = lwb[b].waiters
  BY <1>0, <1>2 DEF LwbOk, LwbFields
<1>5. OthersKept(b) /\ lwb'[b] = e
  BY <1>0, <1>3, <1>4, OneLwb
<1>6. LwbOk(lwb'[b])
  BY <1>0, <1>4, <1>5 DEF LwbOk, LwbStates, Fillable, InFlight
<1>7. /\ UNCHANGED <<open, synced, spa, zh_log, zh_syncing, lwb_list, dirty, tx, last_opened>>
      /\ UNCHANGED <<pc, pos, issuer, cur, zcw, itxg, commit_list>>
  BY DEF WriteDone, poolVars, queueVars, threadVars
<1>8. HeldInv' /\ LwbInv' /\ ChainKept
  BY <1>0, <1>4, <1>5, <1>6, <1>7, LwbUpdate DEF Fillable
<1>9. PoolInv' /\ IssuerInv' /\ DeadInv'
  BY <1>7, <1>8, ChainFrame
<1>10. WaiterInv'
  BY <1>0, <1>4, <1>5, <1>7, WaitersStay DEF RunInv, Pending, InFlight
<1>11. QueueInv'
  <2>1. BudgetOk'
    BY DEF WriteDone, RunInv, QueueInv, BudgetOk
  <2> QED BY <1>7, <2>1 DEF RunInv, QueueInv, Cleaned, LastSynced
<1> QED BY <1>8, <1>9, <1>10, <1>11 DEF RunInv

LEMMA FlushVdevsStep ==
  ASSUME PoolInv, RunInv, NEW b \in Blocks, FlushVdevs(b)
  PROVE  PoolInv' /\ RunInv'
<1>0. /\ LwbInv /\ b \in 1 .. Len(lwb) /\ Len(lwb) \in Nat
      /\ lwb = [c \in 1 .. Len(lwb) |-> lwb[c]]
      /\ \A c \in 1 .. Len(lwb) : LwbOk(lwb[c])
  BY DEF RunInv, LwbInv, Blocks
<1>1. /\ UNCHANGED <<open, synced, spa, zh_log, zh_syncing, lwb_list, dirty, tx, last_opened>>
      /\ UNCHANGED <<pc, pos, issuer, cur, zcw, itxg, commit_list>>
      /\ budget' = budget \/ budget' = [budget EXCEPT !.fails = @ - 1]
  BY DEF FlushVdevs, poolVars, queueVars, threadVars
<1>2. PICK tree : \/ lwb' = [lwb EXCEPT ![b].cb = "over", ![b].tree = {}]
                  \/ lwb' = [lwb EXCEPT ![b].cb = "over", ![b].tree = {}, ![b + 1].tree = tree]
  BY DEF FlushVdevs
<1>3. /\ lwb' = [c \in 1 .. Len(lwb) |-> lwb'[c]]
      /\ \A c \in 1 .. Len(lwb) :
            /\ lwb'[c] = [f \in LwbFields |-> lwb'[c][f]]
            /\ lwb'[c].state = lwb[c].state /\ lwb'[c].buf = lwb[c].buf
            /\ lwb'[c].tx = lwb[c].tx /\ lwb'[c].max_txg = lwb[c].max_txg
            /\ lwb'[c].waiters = lwb[c].waiters
  <2>1. lwb' = [c \in 1 .. Len(lwb) |-> lwb'[c]]
    BY <1>0, <1>2
  <2>2. \A c \in 1 .. Len(lwb) : \/ lwb'[c] = lwb[c]
                                 \/ lwb'[c] = [lwb[c] EXCEPT !.cb = "over", !.tree = {}]
                                 \/ lwb'[c] = [lwb[c] EXCEPT !.tree = tree]
    <3>1. PICK e : e = [lwb[b] EXCEPT !.cb = "over", !.tree = {}]
      OBVIOUS
    <3>2. PICK g : g = [lwb[b + 1] EXCEPT !.tree = tree]
      OBVIOUS
    <3>3. b # b + 1
      BY <1>0
    <3>4. lwb' = [lwb EXCEPT ![b] = e] \/ lwb' = [lwb EXCEPT ![b] = e, ![b + 1] = g]
      BY <1>0, <1>2, <3>1, <3>2, <3>3
    <3>5. \A c \in 1 .. Len(lwb) : \/ lwb'[c] = lwb[c]
                                   \/ c = b /\ lwb'[c] = e
                                   \/ c = b + 1 /\ lwb'[c] = g
      BY <1>0, <3>3, <3>4
    <3> QED BY <3>1, <3>2, <3>5
  <2>3. SUFFICES ASSUME NEW c \in 1 .. Len(lwb)
                 PROVE  /\ lwb'[c] = [f \in LwbFields |-> lwb'[c][f]]
                        /\ lwb'[c].state = lwb[c].state /\ lwb'[c].buf = lwb[c].buf
                        /\ lwb'[c].tx = lwb[c].tx /\ lwb'[c].max_txg = lwb[c].max_txg
                        /\ lwb'[c].waiters = lwb[c].waiters
    BY <2>1
  <2>4. lwb[c] = [f \in LwbFields |-> lwb[c][f]]
    BY <1>0 DEF LwbOk
  <2>5. CASE lwb'[c] = lwb[c]
    BY <2>4, <2>5
  <2>6. CASE lwb'[c] = [lwb[c] EXCEPT !.cb = "over", !.tree = {}]
    BY <2>4, <2>6 DEF LwbFields
  <2>7. CASE lwb'[c] = [lwb[c] EXCEPT !.tree = tree]
    BY <2>4, <2>7 DEF LwbFields
  <2> QED BY <2>2, <2>5, <2>6, <2>7, Zenon
<1>4. Len(lwb') = Len(lwb)
  BY <1>0, <1>3, AppendIs
<1>5. OthersKept(b) /\ LwbOk(lwb'[b])
  BY <1>0, <1>3, <1>4 DEF OthersKept, LwbOk
<1>6. HeldInv' /\ LwbInv' /\ ChainKept
  BY <1>0, <1>1, <1>3, <1>5, LwbUpdate
<1>7. PoolInv' /\ IssuerInv' /\ DeadInv'
  BY <1>1, <1>6, ChainFrame
<1>8. WaiterInv'
  BY <1>0, <1>1, <1>3, <1>5, WaitersStay DEF RunInv
<1>9. QueueInv'
  <2>1. BudgetOk'
    BY <1>1 DEF RunInv, QueueInv, BudgetOk
  <2> QED BY <1>1, <2>1 DEF RunInv, QueueInv, Cleaned, LastSynced
<1> QED BY <1>6, <1>7, <1>8, <1>9 DEF RunInv

LEMMA FlushVdevsDoneStep ==
  ASSUME PoolInv, RunInv, NEW b \in Blocks, FlushVdevsDone(b)
  PROVE  PoolInv' /\ RunInv'
<1>0. LwbInv /\ b \in 1 .. Len(lwb) /\ LwbOk(lwb[b]) /\ lwb[b].state = "WRITE_DONE"
  BY DEF RunInv, LwbInv, Blocks, FlushVdevsDone
<1>1. /\ UNCHANGED <<open, synced, spa, zh_log, zh_syncing, lwb_list, dirty, tx, last_opened>>
      /\ UNCHANGED <<pc, pos, issuer, cur, itxg, commit_list, budget>>
  BY DEF FlushVdevsDone, poolVars, queueVars, ghostVars
<1>2. PICK e : e = [lwb[b] EXCEPT !.state = "FLUSH_DONE", !.buf = FALSE, !.tx = 0,
                                  !.waiters = {}]
  OBVIOUS
<1>3. lwb' = [lwb EXCEPT ![b] = e]
  BY <1>0, <1>2 DEF LwbInv, FlushVdevsDone
<1>4. /\ e = [f \in LwbFields |-> e[f]] /\ e.state = "FLUSH_DONE" /\ e.buf = FALSE
      /\ e.tx = 0 /\ e.max_txg = lwb[b].max_txg
  BY <1>0, <1>2 DEF LwbOk, LwbFields
<1>5. OthersKept(b) /\ lwb'[b] = e
  BY <1>0, <1>3, <1>4, OneLwb
<1>6. LwbOk(lwb'[b])
  BY <1>0, <1>4, <1>5 DEF LwbOk, LwbStates, Fillable, InFlight
<1>7. HeldInv' /\ LwbInv' /\ ChainKept
  BY <1>0, <1>1, <1>4, <1>5, <1>6, LwbUpdate DEF Fillable
<1>8. PoolInv' /\ IssuerInv' /\ DeadInv'
  BY <1>1, <1>7, ChainFrame
<1>9. WaiterInv'
  <2>1. zcw' = [th \in Threads |-> IF th \in lwb[b].waiters
                                   THEN [lwb |-> 0, done |-> TRUE, error |-> RootError(b)]
                                   ELSE zcw[th]]
    BY DEF FlushVdevsDone
  <2>2. RootError(b) \in BOOLEAN
    BY DEF RootError, ZIO_FLAG_DONT_PROPAGATE
  <2>3. zcw' \in [Threads -> [lwb : Nat, done : BOOLEAN, error : BOOLEAN]]
    BY <2>1, <2>2 DEF RunInv, WaiterInv
  <2>4. \A th \in Threads : \/ zcw'[th].lwb = 0 /\ zcw'[th].done = TRUE
                            \/ zcw'[th] = zcw[th] /\ zcw[th].lwb # b
    <3>1. \A th \in Threads : zcw[th].lwb = b => th \in lwb[b].waiters
      BY <1>0 DEF RunInv, WaiterInv
    <3>2. SUFFICES ASSUME NEW th \in Threads
                   PROVE  \/ zcw'[th].lwb = 0 /\ zcw'[th].done = TRUE
                          \/ zcw'[th] = zcw[th] /\ zcw[th].lwb # b
      OBVIOUS
    <3>3. CASE th \in lwb[b].waiters
      <4>1. zcw'[th] = [lwb |-> 0, done |-> TRUE, error |-> RootError(b)]
        BY <2>1, <3>3
      <4> QED BY <4>1
    <3>4. CASE th \notin lwb[b].waiters
      BY <2>1, <3>1, <3>4
    <3> QED BY <3>3, <3>4
  <2>5. \A th \in Threads : zcw'[th].lwb # 0 =>
            /\ zcw'[th].lwb \in 1 .. Len(lwb')
            /\ lwb'[zcw'[th].lwb].state \in {"OPENED"} \cup InFlight
            /\ th \in lwb'[zcw'[th].lwb].waiters
    BY <1>5, <2>4 DEF RunInv, WaiterInv, OthersKept
  <2>6. \A th \in Threads : pc'[th] = "timeout" /\ ~zcw'[th].done => zcw'[th].lwb # 0
    BY <1>1, <2>4 DEF RunInv, WaiterInv
  <2> QED BY <2>3, <2>5, <2>6 DEF WaiterInv
<1>10. QueueInv'
  BY <1>1 DEF RunInv, QueueInv, BudgetOk, Cleaned, LastSynced
<1> QED BY <1>7, <1>8, <1>9, <1>10 DEF RunInv

-----------------------------------------------------------------------------
(* Steps that fill an lwb from the commit list                             *)

LEMMA HeadFacts ==
  ASSUME QueueInv, commit_list # <<>>
  PROVE  /\ Head(commit_list).by \in Threads /\ Head(commit_list).txg \in Nat
         /\ Head(commit_list).txg <= open /\ Tail(commit_list) \in Seq(UpTo(open))
<1>1. commit_list \in Seq(UpTo(open))
  BY DEF QueueInv
<1>2. Head(commit_list) \in UpTo(open) /\ Tail(commit_list) \in Seq(UpTo(open))
  BY <1>1
<1> QED BY <1>2 DEF UpTo, Itxs

LEMMA TailQueue ==
  ASSUME QueueInv, commit_list # <<>>, commit_list' = Tail(commit_list), BudgetOk',
         UNCHANGED <<itxg, open, synced, spa>>
  PROVE  QueueInv'
BY HeadFacts DEF QueueInv, Cleaned, LastSynced

LEMMA WaitersLinked ==
  ASSUME LwbInv, WaiterInv, NEW b \in 1 .. Len(lwb), OthersKept(b), NEW w \in Threads,
         LinkWaiter(b, w), UNCHANGED pc, lwb'[b].waiters = lwb[b].waiters \cup {w},
         lwb'[b].state \in Pending
  PROVE  WaiterInv'
<1>0. Len(lwb) \in Nat /\ b # 0 /\ b \in Nat
  BY DEF LwbInv
<1>1. PICK r : r = [zcw[w] EXCEPT !.lwb = b]
  OBVIOUS
<1>2. zcw' = [zcw EXCEPT ![w] = r]
  BY <1>1 DEF LinkWaiter, WaiterInv
<1>3. r \in [lwb : Nat, done : BOOLEAN, error : BOOLEAN] /\ r.lwb = b /\ r.done = zcw[w].done
  BY <1>0, <1>1 DEF WaiterInv
<1>4. zcw' \in [Threads -> [lwb : Nat, done : BOOLEAN, error : BOOLEAN]]
  BY <1>2, <1>3 DEF WaiterInv
<1>5. \A th \in Threads : IF th = w THEN zcw'[th] = r ELSE zcw'[th] = zcw[th]
  BY <1>2 DEF WaiterInv
<1>6. \A th \in Threads : zcw'[th].lwb # 0 =>
        /\ zcw'[th].lwb \in 1 .. Len(lwb')
        /\ lwb'[zcw'[th].lwb].state \in {"OPENED"} \cup InFlight
        /\ th \in lwb'[zcw'[th].lwb].waiters
  <2>1. SUFFICES ASSUME NEW th \in Threads, zcw'[th].lwb # 0
                 PROVE  /\ zcw'[th].lwb \in 1 .. Len(lwb')
                        /\ lwb'[zcw'[th].lwb].state \in {"OPENED"} \cup InFlight
                        /\ th \in lwb'[zcw'[th].lwb].waiters
    OBVIOUS
  <2>2. CASE th = w
    BY <1>3, <1>5, <2>2 DEF OthersKept, Pending
  <2>3. CASE th # w /\ zcw[th].lwb = b
    BY <1>0, <1>5, <2>3 DEF OthersKept, Pending, WaiterInv
  <2>4. CASE th # w /\ zcw[th].lwb # b
    BY <1>5, <2>1, <2>4 DEF OthersKept, WaiterInv
  <2> QED BY <2>2, <2>3, <2>4
<1>7. \A th \in Threads : pc'[th] = "timeout" /\ ~zcw'[th].done => zcw'[th].lwb # 0
  BY <1>0, <1>3, <1>5 DEF WaiterInv
<1> QED BY <1>4, <1>6, <1>7 DEF WaiterInv

LEMMA PruneCommitStep ==
  ASSUME PoolInv, RunInv, NEW th \in Threads, PruneCommit(th)
  PROVE  PoolInv' /\ RunInv'
<1>0. /\ UNCHANGED <<open, synced, spa, zh_log, zh_syncing, lwb_list, dirty, tx, last_opened>>
      /\ UNCHANGED <<pc, pos, issuer, cur, itxg, budget>>
      /\ commit_list # <<>> /\ commit_list' = Tail(commit_list)
  BY DEF PruneCommit, HeadIsCommit, poolVars, ghostVars
<1>1. QueueInv'
  BY <1>0, TailQueue DEF RunInv, QueueInv, BudgetOk
<1>2. CASE NothingPending
  <2>1. Skip({Head(commit_list).by}) /\ lwb' = lwb
    BY <1>2 DEF PruneCommit
  <2>2. PoolKept
    BY <1>0, <2>1 DEF PoolKept
  <2>3. WaiterInv'
    BY <1>0, <2>1, SkipKeeps DEF RunInv
  <2> QED BY <1>0, <1>1, <2>2, <2>3, LogFrame, PoolKeptChain, ChainFrame DEF RunInv
<1>3. CASE ~NothingPending
  <2> DEFINE w == Head(commit_list).by
             b == last_opened
  <2>1. LinkWaiter(b, w) /\ lwb' = [lwb EXCEPT ![b].waiters = @ \cup {w}] /\ w \in Threads
    BY <1>0, <1>3, HeadFacts DEF PruneCommit, Linked, RunInv
  <2>2. /\ LwbInv /\ b \in 1 .. Len(lwb) /\ LwbOk(lwb[b])
        /\ lwb[b].state \in Pending
    BY <1>3 DEF NothingPending, RunInv, LwbInv, Pending, InFlight, LwbOk, LwbStates
  <2> HIDE DEF w, b
  <2>3. PICK e : e = [lwb[b] EXCEPT !.waiters = lwb[b].waiters \cup {w}]
    OBVIOUS
  <2>4. lwb' = [lwb EXCEPT ![b] = e]
    BY <2>1, <2>2, <2>3 DEF LwbInv
  <2>5. /\ e = [f \in LwbFields |-> e[f]] /\ e.state = lwb[b].state /\ e.buf = lwb[b].buf
        /\ e.tx = lwb[b].tx /\ e.max_txg = lwb[b].max_txg
        /\ e.waiters = lwb[b].waiters \cup {w}
    BY <2>2, <2>3 DEF LwbOk, LwbFields
  <2>6. OthersKept(b) /\ lwb'[b] = e
    BY <2>2, <2>4, <2>5, OneLwb
  <2>7. LwbOk(lwb'[b])
    BY <2>2, <2>5, <2>6 DEF LwbOk
  <2>8. HeldInv' /\ LwbInv' /\ ChainKept
    BY <1>0, <2>2, <2>5, <2>6, <2>7, LwbUpdate
  <2>9. WaiterInv'
    BY <1>0, <2>1, <2>2, <2>5, <2>6, WaitersLinked DEF RunInv
  <2> QED BY <1>0, <1>1, <2>8, <2>9, ChainFrame DEF RunInv
<1> QED BY <1>2, <1>3

(* The block the issuer fills is the last of the list.                     *)
LEMMA CurFacts ==
  ASSUME RunInv, cur # 0
  PROVE  /\ lwb_list # <<>> /\ cur = Last(lwb_list) /\ cur \in 1 .. Len(lwb)
         /\ LwbOk(lwb[cur]) /\ lwb[cur].state \in Fillable
<1>1. /\ issuer \in Threads /\ pc[issuer] \in {"create_wait", "process", "next", "eio"}
      /\ lwb_list # <<>> /\ cur = Last(lwb_list) /\ cur \in 1 .. Len(lwb)
  BY LastFacts DEF RunInv, IssuerInv
<1>2. pc[issuer] \in IssuerPcs /\ pc[issuer] \notin Stalls
  BY <1>1 DEF IssuerPcs, Stalls
<1>3. \A u \in Threads : ~Dead(u)
  BY <1>1, <1>2, OneIssuer DEF Dead, RunInv
<1> QED BY <1>1, <1>3 DEF RunInv, DeadInv, LwbInv

LEMMA OpenedFacts ==
  ASSUME LwbInv, NEW b \in 1 .. Len(lwb)
  PROVE  \E r : /\ Opened(b) = [lwb EXCEPT ![b] = r] /\ r = [f \in LwbFields |-> r[f]]
                /\ r.state = "OPENED" /\ r.buf = lwb[b].buf /\ r.tx = lwb[b].tx
                /\ r.max_txg = lwb[b].max_txg /\ r.waiters = lwb[b].waiters
                /\ r.recs = lwb[b].recs
<1>1. lwb = [c \in 1 .. Len(lwb) |-> lwb[c]] /\ lwb[b] = [f \in LwbFields |-> lwb[b][f]]
  BY DEF LwbInv, LwbOk
<1>2. CASE lwb[b].state = "OPENED"
  <2>1. Opened(b) = [lwb EXCEPT ![b] = lwb[b]]
    BY <1>1, <1>2 DEF Opened
  <2> QED BY <1>1, <1>2, <2>1
<1>3. CASE lwb[b].state # "OPENED"
  <2>1. PICK r : r = [lwb[b] EXCEPT !.state = "OPENED",
                                    !.write_after = WriteAfter(last_opened),
                                    !.root_after = RootAfter(last_opened)]
    OBVIOUS
  <2>2. Opened(b) = [lwb EXCEPT ![b] = r]
    BY <1>1, <1>3, <2>1 DEF Opened
  <2>3. /\ r = [f \in LwbFields |-> r[f]]
        /\ r.state = "OPENED" /\ r.buf = lwb[b].buf /\ r.tx = lwb[b].tx
        /\ r.max_txg = lwb[b].max_txg /\ r.waiters = lwb[b].waiters
        /\ r.recs = lwb[b].recs
    BY <1>1, <2>1 DEF LwbFields
  <2> QED BY <2>2, <2>3
<1> QED BY <1>2, <1>3

LEMMA CurStep ==
  ASSUME PoolInv, RunInv, cur # 0, NEW e, e = [f \in LwbFields |-> e[f]],
         lwb' = [lwb EXCEPT ![cur] = e], e.state = "OPENED", e.buf = lwb[cur].buf,
         e.tx = lwb[cur].tx, e.max_txg \in Nat, e.max_txg <= open, last_opened' = cur,
         UNCHANGED <<open, synced, spa, zh_log, zh_syncing, lwb_list, dirty, tx>>
  PROVE  /\ HeldInv' /\ LwbInv' /\ ChainKept
         /\ cur \in 1 .. Len(lwb) /\ OthersKept(cur) /\ lwb'[cur] = e
<1>1. /\ LwbInv /\ cur \in 1 .. Len(lwb) /\ LwbOk(lwb[cur]) /\ lwb[cur].state \in Fillable
  BY CurFacts DEF RunInv
<1>2. OthersKept(cur) /\ lwb'[cur] = e
  BY <1>1, OneLwb
<1>3. LwbOk(lwb'[cur])
  BY <1>1, <1>2 DEF LwbOk, LwbStates, Fillable, InFlight
<1>4. HeldInv' /\ LwbInv' /\ ChainKept
  <2>1. lwb[cur].state # "FREE"
    BY <1>1 DEF Fillable
  <2>2. lwb'[cur].state \in Fillable /\ lwb'[cur].state = "OPENED"
    BY <1>2 DEF Fillable
  <2>3. lwb'[cur].tx = lwb[cur].tx
    BY <1>2
  <2> QED BY <1>1, <1>2, <1>3, <2>1, <2>2, <2>3, LwbUpdate
<1> QED BY <1>1, <1>2, <1>4

LEMMA ProcessCommitStep ==
  ASSUME PoolInv, RunInv, NEW th \in Threads, ProcessCommit(th)
  PROVE  PoolInv' /\ RunInv'
<1> DEFINE w == Head(commit_list).by
<1>0. /\ UNCHANGED <<open, synced, spa, zh_log, zh_syncing, lwb_list, dirty, tx>>
      /\ UNCHANGED <<pc, pos, issuer, cur, itxg, budget>>
      /\ commit_list # <<>> /\ commit_list' = Tail(commit_list)
  BY DEF ProcessCommit, poolVars, ghostVars
<1>1. QueueInv' /\ w \in Threads
  BY <1>0, TailQueue, HeadFacts DEF RunInv, QueueInv, BudgetOk
<1>2. CASE UNCHANGED <<lwb, last_opened, zcw>>
  <2>1. PoolKept
    BY <1>0, <1>2 DEF PoolKept
  <2>2. WaiterInv'
    BY <1>0, <1>2 DEF RunInv, WaiterInv
  <2> QED BY <1>0, <1>1, <2>1, <2>2, LogFrame, PoolKeptChain, ChainFrame DEF RunInv
<1>3. CASE /\ cur # 0 /\ lwb' = Linked(Opened(cur), cur, w)
           /\ last_opened' = cur /\ LinkWaiter(cur, w)
  <2> HIDE DEF w
  <2>1. /\ LwbInv /\ cur \in 1 .. Len(lwb) /\ LwbOk(lwb[cur])
        /\ lwb = [c \in 1 .. Len(lwb) |-> lwb[c]]
    BY <1>3, CurFacts DEF RunInv, LwbInv
  <2>2. PICK r : /\ Opened(cur) = [lwb EXCEPT ![cur] = r] /\ r = [f \in LwbFields |-> r[f]]
                 /\ r.state = "OPENED" /\ r.buf = lwb[cur].buf /\ r.tx = lwb[cur].tx
                 /\ r.max_txg = lwb[cur].max_txg /\ r.waiters = lwb[cur].waiters
    BY <2>1, OpenedFacts
  <2>3. PICK e : e = [r EXCEPT !.waiters = r.waiters \cup {w}]
    OBVIOUS
  <2>4. lwb' = [lwb EXCEPT ![cur] = e]
    BY <1>3, <2>1, <2>2, <2>3 DEF Linked
  <2>5. /\ e = [f \in LwbFields |-> e[f]] /\ e.state = "OPENED" /\ e.buf = lwb[cur].buf
        /\ e.tx = lwb[cur].tx /\ e.max_txg = lwb[cur].max_txg
        /\ e.waiters = lwb[cur].waiters \cup {w}
    BY <2>2, <2>3 DEF LwbFields
  <2>6. e.max_txg \in Nat /\ e.max_txg <= open
    BY <2>1, <2>5 DEF LwbOk
  <2>7. HeldInv' /\ LwbInv' /\ ChainKept /\ OthersKept(cur) /\ lwb'[cur] = e
    BY <1>0, <1>3, <2>4, <2>5, <2>6, CurStep
  <2>8. WaiterInv'
    BY <1>0, <1>1, <1>3, <2>1, <2>5, <2>7, WaitersLinked DEF RunInv, Pending
  <2> QED BY <1>0, <1>1, <2>7, <2>8, ChainFrame DEF RunInv
<1> QED BY <1>2, <1>3 DEF ProcessCommit

(* The issuer goes on with the block it fills.                             *)
LEMMA FillMove ==
  ASSUME PoolInv, RunInv, ChainKept, NEW th \in Threads, pc[th] \in {"process", "next"},
         cur # 0, cur' = cur, issuer' = issuer, NEW l \in {"process", "eio"}, NEW p,
         pc' = [pc EXCEPT ![th] = l], pos' = [pos EXCEPT ![th] = p]
  PROVE  PoolInv' /\ IssuerInv' /\ DeadInv'
<1>1. issuer = th /\ pc[th] \in IssuerPcs /\ l \in IssuerPcs /\ l \in Pcs /\ l \notin Stalls
  BY ZilAssumption DEF RunInv, IssuerInv, IssuerPcs, Pcs, Stalls
<1>2. ~Dead(th) /\ ~Dead(th)'
  BY DEF Dead, Stalls, RunInv, IssuerInv
<1>3. lwb_list # <<>> /\ cur' = Last(lwb_list) /\ cur' # 0
  BY CurFacts
<1>4. IssuerInv' /\ DeadInv'
  BY <1>1, <1>2, <1>3, InsideMove
<1>5. PoolInv'
  BY DEF PoolInv, ChainKept, Syncing, LastSynced
<1> QED BY <1>4, <1>5

LEMMA ProcessRecordStep ==
  ASSUME PoolInv, RunInv, NEW th \in Threads, ProcessRecord(th)
  PROVE  PoolInv' /\ RunInv'
<1> DEFINE itx == Head(commit_list)
<1>0. /\ UNCHANGED <<open, synced, spa, zh_log, zh_syncing, lwb_list, dirty, tx>>
      /\ UNCHANGED <<pos, issuer, cur, itxg, budget, zcw>>
      /\ commit_list # <<>> /\ commit_list' = Tail(commit_list)
      /\ cur # 0 /\ pc[th] \in {"process", "next"} /\ pc' = [pc EXCEPT ![th] = "process"]
      /\ last_opened' = cur
      /\ lwb' = [Opened(cur) EXCEPT
                    ![cur].recs = Append(@, itx),
                    ![cur].max_txg = IF itx.txg > @ THEN itx.txg ELSE @]
  BY DEF ProcessRecord, HasRoom, Goto, poolVars, ghostVars
<1>1. QueueInv' /\ itx.txg \in Nat /\ itx.txg <= open
  BY <1>0, TailQueue, HeadFacts DEF RunInv, QueueInv, BudgetOk
<1> HIDE DEF itx
<1>2. /\ LwbInv /\ cur \in 1 .. Len(lwb) /\ LwbOk(lwb[cur])
      /\ lwb = [c \in 1 .. Len(lwb) |-> lwb[c]]
  BY <1>0, CurFacts DEF RunInv, LwbInv
<1>3. PICK r : /\ Opened(cur) = [lwb EXCEPT ![cur] = r] /\ r = [f \in LwbFields |-> r[f]]
               /\ r.state = "OPENED" /\ r.buf = lwb[cur].buf /\ r.tx = lwb[cur].tx
               /\ r.max_txg = lwb[cur].max_txg /\ r.waiters = lwb[cur].waiters
  BY <1>2, OpenedFacts
<1>4. PICK m : m = IF itx.txg > r.max_txg THEN itx.txg ELSE r.max_txg
  OBVIOUS
<1>5. PICK e : e = [r EXCEPT !.recs = Append(r.recs, itx), !.max_txg = m]
  OBVIOUS
<1>6. lwb' = [lwb EXCEPT ![cur] = e]
  BY <1>0, <1>2, <1>3, <1>4, <1>5
<1>7. /\ e = [f \in LwbFields |-> e[f]] /\ e.state = "OPENED" /\ e.buf = lwb[cur].buf
      /\ e.tx = lwb[cur].tx /\ e.max_txg = m /\ e.waiters = lwb[cur].waiters
  BY <1>3, <1>5 DEF LwbFields
<1>8. e.max_txg \in Nat /\ e.max_txg <= open
  BY <1>1, <1>2, <1>3, <1>4, <1>7 DEF LwbOk
<1>9. HeldInv' /\ LwbInv' /\ ChainKept /\ OthersKept(cur) /\ lwb'[cur] = e
  BY <1>0, <1>6, <1>7, <1>8, CurStep
<1>10. WaiterInv'
  <2>1. \A u \in Threads : pc'[u] = "timeout" => pc[u] = "timeout"
    BY <1>0 DEF RunInv, IssuerInv
  <2> QED BY <1>0, <1>2, <1>7, <1>9, <2>1, WaitersStay DEF RunInv, Pending
<1>11. PoolInv' /\ IssuerInv' /\ DeadInv'
  <2>1. pos' = [pos EXCEPT ![th] = pos[th]]
    BY <1>0 DEF RunInv, IssuerInv
  <2> QED BY <1>0, <1>9, <2>1, FillMove
<1> QED BY <1>1, <1>9, <1>10, <1>11 DEF RunInv

LEMMA ProcessEIOStep ==
  ASSUME PoolInv, RunInv, NEW th \in Threads, ProcessEIO(th)
  PROVE  PoolInv' /\ RunInv'
<1>0. /\ UNCHANGED <<open, synced, spa, zh_log, zh_syncing, lwb_list, dirty, tx>>
      /\ UNCHANGED <<issuer, cur, itxg, zcw>>
      /\ commit_list # <<>> /\ commit_list' = Tail(commit_list)
      /\ cur # 0 /\ pc[th] \in {"process", "next"} /\ pc' = [pc EXCEPT ![th] = "eio"]
      /\ pos' = [pos EXCEPT ![th] = <<Head(commit_list).txg>>]
      /\ last_opened' = cur /\ lwb' = Opened(cur)
      /\ budget' = [budget EXCEPT !.fails = @ - 1]
  BY DEF ProcessEIO, HasRoom, Goto, poolVars
<1>1. QueueInv'
  BY <1>0, TailQueue DEF RunInv, QueueInv, BudgetOk
<1>2. /\ LwbInv /\ cur \in 1 .. Len(lwb) /\ LwbOk(lwb[cur])
  BY <1>0, CurFacts DEF RunInv
<1>3. PICK r : /\ Opened(cur) = [lwb EXCEPT ![cur] = r] /\ r = [f \in LwbFields |-> r[f]]
               /\ r.state = "OPENED" /\ r.buf = lwb[cur].buf /\ r.tx = lwb[cur].tx
               /\ r.max_txg = lwb[cur].max_txg /\ r.waiters = lwb[cur].waiters
  BY <1>2, OpenedFacts
<1>4. r.max_txg \in Nat /\ r.max_txg <= open
  BY <1>2, <1>3 DEF LwbOk
<1>5. HeldInv' /\ LwbInv' /\ ChainKept /\ OthersKept(cur) /\ lwb'[cur] = r
  BY <1>0, <1>3, <1>4, CurStep
<1>6. WaiterInv'
  <2>1. \A u \in Threads : pc'[u] = "timeout" => pc[u] = "timeout"
    BY <1>0 DEF RunInv, IssuerInv
  <2> QED BY <1>0, <1>2, <1>3, <1>5, <2>1, WaitersStay DEF RunInv, Pending
<1> QED BY <1>0, <1>1, <1>5, <1>6, FillMove DEF RunInv

LEMMA ProcessGoneStep ==
  ASSUME PoolInv, RunInv, NEW th \in Threads, ProcessGone(th)
  PROVE  PoolInv' /\ RunInv'
<1>0. /\ UNCHANGED <<open, synced, spa, zh_log, zh_syncing, lwb_list, dirty, tx>>
      /\ UNCHANGED <<pos, issuer, cur, itxg, zcw>>
      /\ commit_list # <<>> /\ commit_list' = Tail(commit_list)
      /\ cur # 0 /\ pc[th] \in {"process", "next"} /\ pc' = [pc EXCEPT ![th] = "process"]
      /\ last_opened' = cur /\ lwb' = Opened(cur)
      /\ budget' = [budget EXCEPT !.fails = @ - 1]
  BY DEF ProcessGone, HasRoom, Goto, poolVars
<1>1. QueueInv'
  BY <1>0, TailQueue DEF RunInv, QueueInv, BudgetOk
<1>2. /\ LwbInv /\ cur \in 1 .. Len(lwb) /\ LwbOk(lwb[cur])
  BY <1>0, CurFacts DEF RunInv
<1>3. PICK r : /\ Opened(cur) = [lwb EXCEPT ![cur] = r] /\ r = [f \in LwbFields |-> r[f]]
               /\ r.state = "OPENED" /\ r.buf = lwb[cur].buf /\ r.tx = lwb[cur].tx
               /\ r.max_txg = lwb[cur].max_txg /\ r.waiters = lwb[cur].waiters
  BY <1>2, OpenedFacts
<1>4. r.max_txg \in Nat /\ r.max_txg <= open
  BY <1>2, <1>3 DEF LwbOk
<1>5. HeldInv' /\ LwbInv' /\ ChainKept /\ OthersKept(cur) /\ lwb'[cur] = r
  BY <1>0, <1>3, <1>4, CurStep
<1>6. WaiterInv'
  <2>1. \A u \in Threads : pc'[u] = "timeout" => pc[u] = "timeout"
    BY <1>0 DEF RunInv, IssuerInv
  <2> QED BY <1>0, <1>2, <1>3, <1>5, <2>1, WaitersStay DEF RunInv, Pending
<1>7. PoolInv' /\ IssuerInv' /\ DeadInv'
  <2>1. pos' = [pos EXCEPT ![th] = pos[th]]
    BY <1>0 DEF RunInv, IssuerInv
  <2> QED BY <1>0, <1>5, <2>1, FillMove
<1> QED BY <1>1, <1>5, <1>6, <1>7 DEF RunInv

-----------------------------------------------------------------------------
(* Steps that add an lwb to the list, or fail to                           *)

(* The lwbs when none of them is to be filled any more.                    *)
Sealed(l) ==
    /\ l = [c \in 1 .. Len(lwb) |-> l[c]]
    /\ \A c \in 1 .. Len(lwb) :
        /\ LwbOk(l[c]) /\ Holds(l[c].tx) /\ l[c].state \notin Fillable
        /\ l[c].state = "FREE" <=> lwb[c].state = "FREE"
        /\ l[c].waiters = lwb[c].waiters
        /\ lwb[c].state \in Pending => l[c].state \in Pending

(* The waiters keep what they are linked to.                               *)
LwbsGrow ==
    /\ Len(lwb') \in Nat /\ Len(lwb) <= Len(lwb')
    /\ \A c \in 1 .. Len(lwb) :
        /\ lwb'[c].waiters = lwb[c].waiters
        /\ lwb[c].state \in Pending => lwb'[c].state \in Pending

LEMMA WaitersGrow ==
  ASSUME LwbInv, WaiterInv, LwbsGrow, UNCHANGED zcw,
         \A th \in Threads : pc'[th] = "timeout" => pc[th] = "timeout"
  PROVE  WaiterInv'
<1>1. Len(lwb) \in Nat /\ \A c \in 1 .. Len(lwb) : c \in 1 .. Len(lwb')
  BY DEF LwbInv, LwbsGrow
<1> QED BY <1>1 DEF WaiterInv, LwbsGrow, Pending

LEMMA FreshFacts ==
  ASSUME PoolInv, NEW t \in Nat, t <= open, NEW v
  PROVE  /\ LwbOk(Fresh(t, v)) /\ Holds(Fresh(t, v).tx)
         /\ Fresh(t, v).state = "CLOSED" /\ Fresh(t, v).waiters = {}
<1>1. PICK e : e = Fresh(t, v)
  OBVIOUS
<1>2. /\ e = [f \in LwbFields |-> e[f]] /\ e.state = "CLOSED" /\ e.buf = TRUE /\ e.tx = 0
      /\ e.max_txg = t /\ e.waiters = {}
  BY <1>1 DEF Fresh, NoLwb, LwbFields
<1> QED BY <1>1, <1>2 DEF LwbOk, LwbStates, Fillable, InFlight, Holds

LEMMA AllocAdds ==
  ASSUME PoolInv, HeldInv, LwbInv, NEW l, Sealed(l), NEW v,
         lwb' = Append(l, Fresh(open, v)), lwb_list' = Append(lwb_list, Len(lwb) + 1),
         UNCHANGED <<open, synced, spa, zh_log, zh_syncing, tx, last_opened>>
  PROVE  /\ HeldInv' /\ LwbInv' /\ LwbsGrow /\ Len(lwb') = Len(lwb) + 1
         /\ lwb_list' # <<>> /\ Last(lwb_list') = Len(lwb')
         /\ lwb'[Len(lwb')].state \in Fillable
<1> DEFINE e == Fresh(open, v)
<1>a. PICK n : n = Len(lwb)
  OBVIOUS
<1>b. PICK k : k = Len(lwb_list)
  OBVIOUS
<1>1. /\ n \in Nat /\ lwb_list \in Seq(1 .. n) /\ k \in Nat
      /\ \A i \in DOMAIN lwb_list : lwb_list[i] \in 1 .. n
      /\ DOMAIN lwb_list = 1 .. k /\ open \in Nat
  BY <1>a, <1>b DEF LwbInv, PoolInv
<1>2. /\ LwbOk(e) /\ Holds(e.tx) /\ e.state = "CLOSED" /\ e.waiters = {}
  BY <1>1, FreshFacts
<1> HIDE DEF e
<1>3. lwb' = [b \in 1 .. n + 1 |-> IF b = n + 1 THEN e ELSE l[b]] /\ Len(lwb') = n + 1
  <2>1. l = [c \in 1 .. n |-> l[c]]
    BY <1>a DEF Sealed
  <2> QED BY <1>1, <2>1, AppendIs DEF e
<1>4. /\ lwb' = [b \in 1 .. n + 1 |-> lwb'[b]] /\ lwb'[n + 1] = e
      /\ \A c \in 1 .. n : lwb'[c] = l[c] /\ c # n + 1 /\ c \in 1 .. n + 1
      /\ \A c \in 1 .. n + 1 : c \in 1 .. n \/ c = n + 1
  BY <1>1, <1>3
<1>5. /\ lwb_list' \in Seq(1 .. n + 1) /\ Len(lwb_list') = k + 1
      /\ lwb_list'[k + 1] = n + 1 /\ DOMAIN lwb_list' = 1 .. k + 1
      /\ \A i \in 1 .. k : lwb_list'[i] = lwb_list[i]
      /\ lwb_list' # <<>> /\ Last(lwb_list') = n + 1
  <2>1. lwb_list' = Append(lwb_list, n + 1)
    BY <1>a
  <2>2. n + 1 \in 1 .. n + 1 /\ lwb_list \in Seq(1 .. n + 1)
    BY <1>1
  <2>3. /\ lwb_list' \in Seq(1 .. n + 1) /\ Len(lwb_list') = k + 1
        /\ lwb_list'[k + 1] = n + 1
        /\ \A i \in 1 .. k : lwb_list'[i] = lwb_list[i]
    BY <1>b, <1>1, <2>1, <2>2
  <2>4. DOMAIN lwb_list' = 1 .. k + 1
    BY <2>3
  <2>5. lwb_list' # <<>>
    <3>1. k + 1 # 0
      BY <1>1
    <3> QED BY <2>3, <3>1, EmptySeq
  <2> QED BY <2>3, <2>4, <2>5 DEF Last
<1>6. HeldInv'
  <2>1. \A t : Holds(t)' <=> Holds(t)
    BY DEF Holds, Syncing
  <2>2. \A b \in 1 .. n + 1 : Holds(lwb'[b].tx)
    BY <1>a, <1>2, <1>4 DEF Sealed
  <2> QED BY <1>4, <2>1, <2>2 DEF HeldInv, Blocks
<1>7. LwbInv'
  <2>1. \A c : LwbOk(lwb[c])' <=> LwbOk(lwb'[c])
    BY DEF LwbOk
  <2>2. \A c \in 1 .. n + 1 : LwbOk(lwb[c])'
    BY <1>a, <1>2, <1>4, <2>1 DEF Sealed
  <2>3. Listed(n + 1)' /\ \A c \in 1 .. n : Listed(c)' <=> Listed(c)
    BY <1>1, <1>4, <1>5 DEF Listed
  <2>4. \A c \in 1 .. n + 1 : lwb'[c].state = "FREE" <=> ~Listed(c)'
    BY <1>a, <1>2, <1>4, <2>3 DEF Sealed, LwbInv
  <2>5. \A i, j \in DOMAIN lwb_list' : lwb_list'[i] = lwb_list'[j] => i = j
    <3>1. \A i \in 1 .. k + 1 : i = k + 1 \/ i \in 1 .. k
      BY <1>1
    <3>2. \A i, j \in 1 .. k : lwb_list[i] = lwb_list[j] => i = j
      BY <1>1 DEF LwbInv
    <3> QED BY <1>1, <1>4, <1>5, <3>1, <3>2
  <2>6. \A i \in DOMAIN lwb_list' : i < Len(lwb_list') => lwb'[lwb_list'[i]].state \notin Fillable
    <3>1. \A i \in 1 .. k + 1 : i < k + 1 => i \in 1 .. k
      BY <1>1
    <3>2. \A c \in 1 .. n : lwb'[c].state \notin Fillable
      BY <1>a, <1>4 DEF Sealed
    <3> QED BY <1>1, <1>5, <3>1, <3>2
  <2>7. last_opened' # 0 => /\ last_opened' \in 1 .. Len(lwb')
                            /\ lwb'[last_opened'].state \notin {"FREE", "CLOSED"}
    BY <1>a, <1>3, <1>4 DEF LwbInv, Sealed, Fillable
  <2>8. zh_syncing' \in 0 .. Len(lwb') /\ (spa' # "sync" => zh_log' = zh_syncing')
    BY <1>a, <1>1, <1>3 DEF LwbInv
  <2>9. Len(lwb') \in Nat
    BY <1>1, <1>3
  <2> QED BY <1>3, <1>4, <1>5, <2>2, <2>4, <2>5, <2>6, <2>7, <2>8, <2>9 DEF LwbInv
<1>8. LwbsGrow
  BY <1>a, <1>1, <1>3, <1>4 DEF LwbsGrow, Sealed
<1> QED BY <1>a, <1>2, <1>3, <1>4, <1>5, <1>6, <1>7, <1>8 DEF Fillable

(* No block could be allocated: the open group, when it is synced, finds   *)
(* nothing to keep.                                                        *)
LEMMA AllocFails ==
  ASSUME PoolInv, HeldInv, LwbInv, NEW l, Sealed(l), lwb' = l,
         UNCHANGED <<open, synced, spa, zh_log, zh_syncing, tx, last_opened, lwb_list>>
  PROVE  /\ HeldInv' /\ LwbInv' /\ LwbsGrow /\ Len(lwb') = Len(lwb)
         /\ lwb_list # <<>> => \A d : d = open => Emptying(d)'
<1>1. Len(lwb) \in Nat /\ lwb' = [c \in 1 .. Len(lwb) |-> lwb'[c]]
  BY DEF LwbInv, Sealed
<1>2. Len(lwb') = Len(lwb)
  BY <1>1, AppendIs
<1>3. HeldInv'
  <2>1. \A t : Holds(t)' <=> Holds(t)
    BY DEF Holds, Syncing
  <2> QED BY <1>1, <2>1 DEF HeldInv, Blocks, Sealed
<1>4. LwbInv'
  <2>1. \A c : LwbOk(lwb[c])' <=> LwbOk(lwb'[c])
    BY DEF LwbOk
  <2>2. \A c \in 1 .. Len(lwb) : /\ LwbOk(lwb[c])'
                                 /\ lwb'[c].state = "FREE" <=> ~Listed(c)'
    BY <2>1 DEF Sealed, Listed, LwbInv
  <2>3. \A i \in DOMAIN lwb_list : lwb'[lwb_list[i]].state \notin Fillable
    BY DEF Sealed, LwbInv
  <2>4. last_opened # 0 => /\ last_opened \in 1 .. Len(lwb)
                           /\ lwb'[last_opened].state \notin {"FREE", "CLOSED"}
    BY DEF Sealed, LwbInv, Fillable
  <2> QED BY <1>1, <1>2, <2>2, <2>3, <2>4 DEF LwbInv
<1>5. LwbsGrow
  BY <1>1, <1>2 DEF LwbsGrow, Sealed
<1>6. lwb_list # <<>> => \A d : d = open => Emptying(d)'
  <2>1. open \in Nat
    BY DEF PoolInv
  <2>2. \A c \in 1 .. Len(lwb) : /\ lwb'[c].state \notin Fillable
                                 /\ lwb'[c].max_txg <= open /\ lwb'[c].tx <= open
    BY <2>1 DEF Sealed, LwbOk, Holds
  <2> QED BY <1>2, <2>2 DEF Emptying
<1> QED BY <1>2, <1>3, <1>4, <1>5, <1>6

LEMMA IssuedSealed ==
  ASSUME PoolInv, RunInv, lwb_list # <<>>, NEW b, b = Last(lwb_list), NEW e,
         e = [f \in LwbFields |-> e[f]], e.state = "ISSUED", e.tx = open,
         e.buf = lwb[b].buf, e.max_txg = lwb[b].max_txg, e.waiters = lwb[b].waiters,
         lwb[b].state \in Fillable
  PROVE  Sealed([lwb EXCEPT ![b] = e])
<1>0. /\ LwbInv /\ b \in 1 .. Len(lwb) /\ LwbOk(lwb[b]) /\ lwb[b].state \in Fillable
      /\ Len(lwb_list) \in DOMAIN lwb_list /\ b = lwb_list[Len(lwb_list)]
      /\ lwb = [c \in 1 .. Len(lwb) |-> lwb[c]]
  BY LastFacts DEF RunInv, LwbInv
<1>1. PICK l : l = [lwb EXCEPT ![b] = e]
  OBVIOUS
<1>2. /\ l = [c \in 1 .. Len(lwb) |-> l[c]] /\ l[b] = e
      /\ \A c \in 1 .. Len(lwb) : c # b => l[c] = lwb[c]
  BY <1>0, <1>1
<1>3. /\ LwbOk(e) /\ Holds(e.tx) /\ e.state \notin Fillable /\ e.state \in Pending
      /\ e.state # "FREE" /\ lwb[b].state # "FREE"
  BY <1>0, PoolFacts DEF LwbOk, LwbStates, Holds, Fillable, InFlight, Pending
<1>4. \A c \in 1 .. Len(lwb) : c # b => lwb[c].state \notin Fillable
  <2>1. SUFFICES ASSUME NEW c \in 1 .. Len(lwb), c # b, lwb[c].state \in Fillable
                 PROVE  FALSE
    OBVIOUS
  <2>2. Listed(c)
    BY <1>0, <2>1 DEF LwbInv, Fillable
  <2>3. PICK i \in DOMAIN lwb_list : lwb_list[i] = c
    BY <2>2 DEF Listed
  <2>4. i # Len(lwb_list)
    BY <1>0, <2>1, <2>3
  <2>5. i < Len(lwb_list)
    <3>1. lwb_list \in Seq(1 .. Len(lwb))
      BY <1>0 DEF LwbInv
    <3> QED BY <2>4, <3>1
  <2> QED BY <1>0, <2>1, <2>3, <2>5 DEF LwbInv
<1>5. \A c \in 1 .. Len(lwb) : LwbOk(lwb[c]) /\ Holds(lwb[c].tx)
  BY <1>0 DEF RunInv, LwbInv, HeldInv, Blocks
<1>6. Sealed(l)
  BY <1>2, <1>3, <1>4, <1>5 DEF Sealed
<1> QED BY <1>1, <1>6

(* zil_lwb_write_issue of the last lwb                                     *)
LEMMA WriteIssueStep ==
  ASSUME PoolInv, RunInv, lwb_list # <<>>, NEW b, b = Last(lwb_list), WriteIssue(b),
         lwb[b].state \in Fillable,
         UNCHANGED <<open, synced, spa, zh_log, zh_syncing, tx, last_opened>>
  PROVE  /\ HeldInv' /\ LwbInv' /\ LwbsGrow /\ BudgetOk' /\ dirty' = dirty \cup {open}
         /\ \/ /\ Allocated /\ lwb_list' # <<>> /\ Last(lwb_list') = Len(lwb')
               /\ lwb'[Len(lwb')].state \in Fillable
            \/ ~Allocated /\ lwb_list' = lwb_list /\ (\A d : d = open => Emptying(d)')
<1>0. /\ LwbInv /\ b \in 1 .. Len(lwb) /\ LwbOk(lwb[b]) /\ Len(lwb) \in Nat
      /\ lwb = [c \in 1 .. Len(lwb) |-> lwb[c]] /\ HeldInv
  BY LastFacts DEF RunInv, LwbInv
<1>1. PICK e : e = [lwb[b] EXCEPT !.state = "ISSUED", !.tx = open,
                                  !.tree = lwb[b].tree \cup {lwb[b].vdev}]
  OBVIOUS
<1>2. PICK g : g = [e EXCEPT !.next = Len(lwb) + 1]
  OBVIOUS
<1>3. AllocZil([lwb EXCEPT ![b] = g], [lwb EXCEPT ![b] = e]) /\ dirty' = dirty \cup {open}
  <2>1. PICK issued : issued = [lwb EXCEPT ![b].state = "ISSUED", ![b].tx = open,
                                           ![b].tree = @ \cup {lwb[b].vdev}]
    OBVIOUS
  <2>2. issued = [lwb EXCEPT ![b] = e]
    BY <1>0, <1>1, <2>1
  <2>3. [issued EXCEPT ![b].next = Len(lwb) + 1] = [lwb EXCEPT ![b] = g]
    BY <1>0, <1>2, <2>2
  <2>4. AllocZil([issued EXCEPT ![b].next = Len(lwb) + 1], issued) /\ dirty' = dirty \cup {open}
    BY <2>1 DEF WriteIssue
  <2> QED BY <2>2, <2>3, <2>4
<1>4. /\ e = [f \in LwbFields |-> e[f]] /\ e.state = "ISSUED" /\ e.buf = lwb[b].buf
      /\ e.tx = open /\ e.max_txg = lwb[b].max_txg /\ e.waiters = lwb[b].waiters
  BY <1>0, <1>1 DEF LwbOk, LwbFields
<1>5. /\ g = [f \in LwbFields |-> g[f]] /\ g.state = "ISSUED" /\ g.buf = lwb[b].buf
      /\ g.tx = open /\ g.max_txg = lwb[b].max_txg /\ g.waiters = lwb[b].waiters
  BY <1>2, <1>4 DEF LwbFields
<1>6. Sealed([lwb EXCEPT ![b] = g])
  BY <1>5, IssuedSealed
<1>7. Sealed([lwb EXCEPT ![b] = e])
  BY <1>4, IssuedSealed
<1>8. BudgetOk'
  BY <1>3 DEF AllocZil, RunInv, QueueInv, BudgetOk
<1>9. CASE \E v \in Vdevs : /\ lwb' = Append([lwb EXCEPT ![b] = g], Fresh(open, v))
                            /\ lwb_list' = Append(lwb_list, Len(lwb) + 1)
  <2>1. PICK v \in Vdevs : /\ lwb' = Append([lwb EXCEPT ![b] = g], Fresh(open, v))
                           /\ lwb_list' = Append(lwb_list, Len(lwb) + 1)
    BY <1>9
  <2>2. /\ HeldInv' /\ LwbInv' /\ LwbsGrow /\ Len(lwb') = Len(lwb) + 1
        /\ lwb_list' # <<>> /\ Last(lwb_list') = Len(lwb')
        /\ lwb'[Len(lwb')].state \in Fillable
    BY <1>0, <1>6, <2>1, AllocAdds
  <2>3. Allocated
    BY <1>0, <2>2 DEF Allocated
  <2> QED BY <1>3, <1>8, <2>2, <2>3
<1>10. CASE lwb' = [lwb EXCEPT ![b] = e] /\ UNCHANGED lwb_list
  <2>1. /\ HeldInv' /\ LwbInv' /\ LwbsGrow /\ Len(lwb') = Len(lwb)
        /\ \A d : d = open => Emptying(d)'
    BY <1>0, <1>7, <1>10, AllocFails
  <2>2. ~Allocated
    BY <1>0, <2>1 DEF Allocated
  <2> QED BY <1>3, <1>8, <1>10, <2>1, <2>2
<1> QED BY <1>3, <1>9, <1>10 DEF AllocZil

(* The thread has done something to the end of the list.                   *)
LEMMA EndMove ==
  ASSUME IssuerInv, NEW th \in Threads, NEW l, NEW p, l \in Pcs \ {"scan", "create"},
         pc' = [pc EXCEPT ![th] = l], pos' = [pos EXCEPT ![th] = p],
         pc[th] \in IssuerPcs \/ issuer = NoThread,
         issuer' = IF l \in IssuerPcs THEN th ELSE NoThread,
         cur' # 0 => /\ l \in {"create_wait", "process", "next", "eio"}
                     /\ lwb_list' # <<>> /\ cur' = Last(lwb_list'),
         l \in {"next", "eio"} => cur' # 0,
         l \in Stalls => Head(p) \in Nat,
         Dead(th)' => \/ Emptied(th)'
                      \/ \E d \in dirty' : Syncing' < d /\ d <= open' /\ d < Stop(th)'
                                           /\ Emptying(d)',
         ~Dead(th)' /\ lwb_list' # <<>> => lwb'[Last(lwb_list')].state \in Fillable
  PROVE  IssuerInv' /\ DeadInv'
<1>1. /\ pc \in [Threads -> Pcs] /\ pos = [u \in Threads |-> pos[u]]
      /\ \A u \in Threads : u # th => pc'[u] = pc[u] /\ pos'[u] = pos[u]
      /\ pc'[th] = l /\ pc' \in [Threads -> Pcs] /\ pos' = [u \in Threads |-> pos'[u]]
      /\ pos'[th] = p
  BY DEF IssuerInv
<1>2. \A u \in Threads : u # th => pc[u] \notin IssuerPcs /\ ~Dead(u)
  BY OneIssuer
<1>3. IssuerInv'
  <2>1. \A u \in Threads : pc'[u] \in IssuerPcs <=> issuer' = u
    BY <1>1, <1>2, ZilAssumption
  <2>2. issuer' \in Threads \cup {NoThread}
    OBVIOUS
  <2>3. cur' # 0 => /\ issuer' # NoThread
                    /\ pc'[issuer'] \in {"create_wait", "process", "next", "eio"}
                    /\ lwb_list' # <<>> /\ cur' = Last(lwb_list')
    BY <1>1, ZilAssumption DEF IssuerPcs
  <2>4. \A u \in Threads : /\ pc'[u] # "create" /\ pc'[u] # "scan"
                           /\ pc'[u] \in {"next", "eio"} => cur' # 0
    BY <1>1, <1>2 DEF IssuerPcs
  <2> QED BY <1>1, <2>1, <2>2, <2>3, <2>4 DEF IssuerInv
<1>4. DeadInv'
  <2>1. \A u \in Threads : u # th => ~Dead(u)' /\ pc'[u] \notin Stalls
    BY <1>1, <1>2 DEF Dead, IssuerPcs, Stalls
  <2> QED BY <1>1, <2>1 DEF DeadInv
<1> QED BY <1>3, <1>4

LEMMA PoolDirty ==
  ASSUME PoolInv, dirty' = dirty \cup {open}, UNCHANGED <<open, synced, spa>>
  PROVE  PoolInv' /\ Syncing' < open /\ Syncing' = Syncing
BY DEF PoolInv, Syncing, LastSynced

LEMMA QueueFrame ==
  ASSUME QueueInv, BudgetOk', UNCHANGED <<open, synced, spa, itxg>>,
         commit_list' = commit_list \/ (commit_list # <<>> /\ commit_list' = Tail(commit_list))
  PROVE  QueueInv'
BY TailQueue DEF QueueInv, Cleaned, LastSynced

LEMMA ProcessFullStep ==
  ASSUME PoolInv, RunInv, NEW th \in Threads, ProcessFull(th)
  PROVE  PoolInv' /\ RunInv'
<1>0. /\ UNCHANGED <<open, synced, spa, zh_log, zh_syncing, tx, last_opened>>
      /\ UNCHANGED <<pos, issuer, itxg, zcw>> /\ commit_list # <<>>
      /\ cur # 0 /\ pc[th] = "process" /\ WriteIssue(cur)
  BY DEF ProcessFull
<1>1. lwb_list # <<>> /\ cur = Last(lwb_list) /\ lwb[cur].state \in Fillable
  BY <1>0, CurFacts
<1>2. /\ HeldInv' /\ LwbInv' /\ LwbsGrow /\ BudgetOk' /\ dirty' = dirty \cup {open}
      /\ \/ /\ Allocated /\ lwb_list' # <<>> /\ Last(lwb_list') = Len(lwb')
            /\ lwb'[Len(lwb')].state \in Fillable
         \/ ~Allocated /\ lwb_list' = lwb_list /\ (\A d : d = open => Emptying(d)')
  BY <1>0, <1>1, WriteIssueStep
<1>3. PoolInv' /\ Syncing' < open /\ open \in Nat
  BY <1>0, <1>2, PoolDirty DEF PoolInv
<1>4. QueueInv'
  BY <1>0, <1>2, QueueFrame DEF ProcessFull, RunInv
<1>5. /\ issuer = th /\ pc[th] \in IssuerPcs /\ pos' = [pos EXCEPT ![th] = pos[th]]
      /\ pc \in [Threads -> Pcs] /\ IssuerInv
  BY <1>0, ZilAssumption DEF RunInv, IssuerInv, IssuerPcs
<1>6. PICK l \in {"next", "process"} :
        /\ pc' = [pc EXCEPT ![th] = l]
        /\ \/ Allocated /\ l = "next" /\ cur' = Len(lwb')
           \/ ~Allocated /\ l = "process" /\ cur' = 0
  BY <1>0, <1>5 DEF ProcessFull, Goto
<1>7. l \in Pcs \ {"scan", "create"} /\ l \in IssuerPcs /\ l \notin Stalls /\ pc'[th] = l
  BY <1>5, <1>6 DEF Pcs, IssuerPcs, Stalls
<1>8. WaiterInv'
  <2>1. \A u \in Threads : pc'[u] = "timeout" => pc[u] = "timeout"
    BY <1>5, <1>6
  <2> QED BY <1>0, <1>2, <2>1, WaitersGrow DEF RunInv
<1>9. CASE Allocated
  <2>1. cur' = Len(lwb') /\ l = "next" /\ lwb_list' # <<>> /\ Last(lwb_list') = Len(lwb')
        /\ lwb'[Len(lwb')].state \in Fillable
    BY <1>2, <1>6, <1>9
  <2>2. cur' # 0
    BY <1>2, <2>1, LastFacts DEF LwbInv
  <2>3. ~Dead(th)'
    BY <1>7, <2>1, <2>2 DEF Dead
  <2>4. IssuerInv' /\ DeadInv'
    BY <1>0, <1>5, <1>6, <1>7, <2>1, <2>2, <2>3, EndMove
  <2> QED BY <1>2, <1>3, <1>4, <1>8, <2>4 DEF RunInv
<1>10. CASE ~Allocated
  <2>1. cur' = 0 /\ l = "process" /\ (\A d : d = open => Emptying(d)')
    BY <1>2, <1>6, <1>10
  <2>2. Dead(th)' /\ Stop(th)' = open + 1
    BY <1>0, <1>7, <2>1 DEF Dead, Stop
  <2>3. \E d \in dirty' : Syncing' < d /\ d <= open' /\ d < Stop(th)' /\ Emptying(d)'
    BY <1>0, <1>2, <1>3, <2>1, <2>2
  <2>4. IssuerInv' /\ DeadInv'
    BY <1>0, <1>5, <1>6, <1>7, <2>1, <2>2, <2>3, EndMove
  <2> QED BY <1>2, <1>3, <1>4, <1>8, <2>4 DEF RunInv
<1> QED BY <1>9, <1>10

(* An lwb that can be filled is the last one.                              *)
LEMMA FillableLast ==
  ASSUME LwbInv, NEW b \in 1 .. Len(lwb), lwb[b].state \in Fillable
  PROVE  lwb_list # <<>> /\ b = Last(lwb_list)
<1>1. PICK i \in DOMAIN lwb_list : lwb_list[i] = b
  BY DEF LwbInv, Listed, Fillable
<1>2. lwb_list \in Seq(1 .. Len(lwb)) /\ ~(i < Len(lwb_list))
  BY <1>1 DEF LwbInv
<1>3. i = Len(lwb_list) /\ lwb_list # <<>>
  BY <1>2
<1> QED BY <1>1, <1>3 DEF Last

LEMMA TimeoutIssueStep ==
  ASSUME PoolInv, RunInv, NEW th \in Threads, TimeoutIssue(th)
  PROVE  PoolInv' /\ RunInv'
<1> DEFINE b == zcw[th].lwb
<1>0. /\ UNCHANGED <<open, synced, spa, zh_log, zh_syncing, tx, last_opened>>
      /\ UNCHANGED <<itxg, zcw, cur, commit_list>> /\ issuer = NoThread
      /\ pc[th] = "timeout" /\ WriteIssue(b) /\ StillOpen(th)
  BY DEF TimeoutIssue, queueVars
<1>1. /\ b \in 1 .. Len(lwb) /\ lwb[b].state \in Fillable
      /\ lwb_list # <<>> /\ b = Last(lwb_list)
  <2>1. b \in 1 .. Len(lwb) /\ lwb[b].state \in Fillable
    BY <1>0 DEF StillOpen, RunInv, WaiterInv, Fillable
  <2> QED BY <2>1, FillableLast DEF RunInv
<1> HIDE DEF b
<1>2. /\ HeldInv' /\ LwbInv' /\ LwbsGrow /\ BudgetOk' /\ dirty' = dirty \cup {open}
      /\ \/ /\ Allocated /\ lwb_list' # <<>> /\ Last(lwb_list') = Len(lwb')
            /\ lwb'[Len(lwb')].state \in Fillable
         \/ ~Allocated /\ lwb_list' = lwb_list /\ (\A d : d = open => Emptying(d)')
  <2>1. PICK c : c = b
    OBVIOUS
  <2> QED BY <1>0, <1>1, <2>1, WriteIssueStep
<1>3. PoolInv' /\ Syncing' < open /\ open \in Nat
  BY <1>0, <1>2, PoolDirty DEF PoolInv
<1>4. QueueInv'
  BY <1>0, <1>2, QueueFrame DEF RunInv
<1>5. cur = 0 /\ pc \in [Threads -> Pcs] /\ pos = [pos EXCEPT ![th] = pos[th]] /\ IssuerInv
  BY <1>0 DEF RunInv, IssuerInv
<1>6. CASE Allocated
  <2>1. /\ pc' = [pc EXCEPT ![th] = "wait"] /\ pos' = [pos EXCEPT ![th] = pos[th]]
        /\ issuer' = NoThread /\ lwb'[Last(lwb_list')].state \in Fillable
    BY <1>0, <1>2, <1>5, <1>6 DEF TimeoutIssue, Goto
  <2>2. "wait" \in Pcs \ {"scan", "create"} /\ "wait" \notin IssuerPcs /\ "wait" \notin Stalls
    BY DEF Pcs, IssuerPcs, Stalls
  <2>3. ~Dead(th)'
    BY <1>5, <2>1 DEF Dead, Stalls
  <2>4. IssuerInv' /\ DeadInv'
    BY <1>0, <1>5, <2>1, <2>2, <2>3, EndMove
  <2>5. \A u \in Threads : pc'[u] = "timeout" => pc[u] = "timeout"
    BY <1>5, <2>1
  <2> QED BY <1>0, <1>2, <1>3, <1>4, <2>4, <2>5, WaitersGrow DEF RunInv
<1>7. CASE ~Allocated
  <2>1. /\ pc' = [pc EXCEPT ![th] = "timeout_stall"] /\ pos' = [pos EXCEPT ![th] = SyncAll]
        /\ issuer' = th /\ (\A d : d = open => Emptying(d)')
    BY <1>0, <1>2, <1>7 DEF TimeoutIssue, Goto
  <2>2. /\ "timeout_stall" \in Pcs \ {"scan", "create"} /\ "timeout_stall" \in IssuerPcs
        /\ "timeout_stall" \in Stalls
    BY DEF Pcs, IssuerPcs, Stalls
  <2>3. Head(SyncAll) = open + 2 /\ Head(SyncAll) \in Nat
    BY <1>3 DEF SyncAll, TXG_DEFER_SIZE
  <2>4. Stop(th)' = open + 2
    BY <1>5, <2>1, <2>2, <2>3 DEF Stop, IssuerInv
  <2>5. \E d \in dirty' : Syncing' < d /\ d <= open' /\ d < Stop(th)' /\ Emptying(d)'
    BY <1>0, <1>2, <1>3, <2>1, <2>4
  <2>6. Dead(th)'
    BY <1>5, <2>1, <2>2 DEF Dead
  <2>7. IssuerInv' /\ DeadInv'
    BY <1>0, <1>5, <2>1, <2>2, <2>3, <2>5, <2>6, EndMove
  <2>8. \A u \in Threads : pc'[u] = "timeout" => pc[u] = "timeout"
    BY <1>5, <2>1
  <2> QED BY <1>0, <1>2, <1>3, <1>4, <2>7, <2>8, WaitersGrow DEF RunInv
<1> QED BY <1>6, <1>7

LEMMA AllFree ==
  ASSUME PoolInv, RunInv, lwb_list = <<>>
  PROVE  Sealed(lwb) /\ \A c \in 1 .. Len(lwb) : lwb[c].state = "FREE"
<1>1. \A c \in 1 .. Len(lwb) : LwbOk(lwb[c]) /\ lwb[c].state = "FREE" /\ Holds(lwb[c].tx)
  BY DEF RunInv, LwbInv, Listed, HeldInv, Blocks
<1> QED BY <1>1 DEF Sealed, RunInv, LwbInv, Fillable

LEMMA CreateStep ==
  ASSUME PoolInv, RunInv, NEW th \in Threads, Create(th)
  PROVE  PoolInv' /\ RunInv'
<1>0. /\ UNCHANGED <<open, synced, spa, zh_log, zh_syncing, tx, last_opened>>
      /\ UNCHANGED <<itxg, zcw, commit_list, issuer>> /\ zh_syncing = 0
      /\ pc[th] = "create" /\ AllocZil(lwb, lwb) /\ dirty' = dirty \cup {open}
      /\ pc' = [pc EXCEPT ![th] = "create_wait"] /\ pos' = [pos EXCEPT ![th] = <<open>>]
      /\ cur' = IF Allocated THEN Len(lwb') ELSE 0
  BY DEF Create, queueVars, Goto
<1>1. /\ lwb_list = <<>> /\ LwbInv /\ HeldInv /\ IssuerInv /\ pc \in [Threads -> Pcs]
      /\ issuer = th /\ pc[th] \in IssuerPcs /\ Len(lwb) \in Nat
      /\ pos = [u \in Threads |-> pos[u]]
  BY <1>0, ZilAssumption DEF RunInv, IssuerInv, IssuerPcs, LwbInv
<1>2. PoolInv' /\ open \in Nat /\ synced < open /\ synced \in Nat
  BY <1>0, PoolDirty DEF PoolInv, Syncing
<1>3. QueueInv'
  <2>1. BudgetOk'
    BY <1>0 DEF AllocZil, RunInv, QueueInv, BudgetOk
  <2> QED BY <1>0, <2>1, QueueFrame DEF RunInv
<1>4. /\ "create_wait" \in Pcs \ {"scan", "create"} /\ "create_wait" \in IssuerPcs
      /\ "create_wait" \notin Stalls /\ pc'[th] = "create_wait"
  BY <1>0, <1>1 DEF Pcs, IssuerPcs, Stalls
<1>5. \A u \in Threads : pc'[u] = "timeout" => pc[u] = "timeout"
  BY <1>0, <1>1
<1>6. CASE \E v \in Vdevs : /\ lwb' = Append(lwb, Fresh(open, v))
                            /\ lwb_list' = Append(lwb_list, Len(lwb) + 1)
  <2>1. PICK v \in Vdevs : /\ lwb' = Append(lwb, Fresh(open, v))
                           /\ lwb_list' = Append(lwb_list, Len(lwb) + 1)
    BY <1>6
  <2>2. /\ HeldInv' /\ LwbInv' /\ LwbsGrow /\ Len(lwb') = Len(lwb) + 1
        /\ lwb_list' # <<>> /\ Last(lwb_list') = Len(lwb')
        /\ lwb'[Len(lwb')].state \in Fillable
    BY <1>0, <1>1, <2>1, AllFree, AllocAdds
  <2>3. Allocated /\ cur' = Len(lwb') /\ cur' # 0
    BY <1>0, <1>1, <2>2 DEF Allocated
  <2>4. ~Dead(th)'
    BY <1>4, <2>3 DEF Dead
  <2>5. IssuerInv' /\ DeadInv'
    BY <1>0, <1>1, <1>4, <2>2, <2>3, <2>4, EndMove
  <2> QED BY <1>0, <1>1, <1>2, <1>3, <1>5, <2>2, <2>5, WaitersGrow DEF RunInv
<1>7. CASE lwb' = lwb /\ UNCHANGED lwb_list
  <2>1. cur' = 0
    BY <1>0, <1>1, <1>7 DEF Allocated
  <2>2. HeldInv' /\ LwbInv' /\ LwbsGrow
    BY <1>0, <1>1, <1>7, AllFree, AllocFails
  <2>3. Stop(th)' = open + 1
    BY <1>0, <1>4 DEF Stop
  <2>4. Emptied(th)'
    BY <1>0, <1>1, <1>2, <1>7, <2>3 DEF Emptied
  <2>5. lwb_list' = <<>>
    BY <1>1, <1>7
  <2>6. IssuerInv' /\ DeadInv'
    BY <1>0, <1>1, <1>4, <2>1, <2>4, <2>5, EndMove
  <2> QED BY <1>0, <1>1, <1>2, <1>3, <1>5, <2>2, <2>6, WaitersGrow DEF RunInv
<1> QED BY <1>0, <1>6, <1>7 DEF AllocZil

LEMMA CreateKeptStep ==
  ASSUME PoolInv, RunInv, NEW th \in Threads, CreateKept(th)
  PROVE  PoolInv' /\ RunInv'
<1>0. /\ UNCHANGED <<open, synced, spa, zh_log, zh_syncing, dirty, tx, last_opened>>
      /\ UNCHANGED <<itxg, zcw, commit_list, issuer, pos, budget>> /\ zh_syncing # 0
      /\ pc[th] = "create" /\ pc' = [pc EXCEPT ![th] = "process"]
      /\ cur' = zh_syncing /\ lwb_list' = <<zh_syncing>>
  BY DEF CreateKept, poolVars, queueVars, ghostVars, Goto
<1>1. /\ lwb_list = <<>> /\ LwbInv /\ HeldInv /\ IssuerInv /\ pc \in [Threads -> Pcs]
      /\ issuer = th /\ pc[th] \in IssuerPcs /\ Len(lwb) \in Nat
      /\ pos' = [pos EXCEPT ![th] = pos[th]] /\ zh_syncing \in 1 .. Len(lwb)
      /\ lwb = [c \in 1 .. Len(lwb) |-> lwb[c]] /\ WaiterInv
  BY <1>0, ZilAssumption DEF RunInv, IssuerInv, IssuerPcs, LwbInv
<1>2. PICK v : lwb' = [lwb EXCEPT ![zh_syncing] = Fresh(0, v)]
  BY DEF CreateKept
<1>3. PICK b : b = zh_syncing
  OBVIOUS
<1>4. PICK e : e = Fresh(0, v)
  OBVIOUS
<1>5. /\ LwbOk(e) /\ Holds(e.tx) /\ e.state = "CLOSED"
  BY <1>4, FreshFacts DEF PoolInv
<1>6. /\ lwb' = [c \in 1 .. Len(lwb) |-> lwb'[c]] /\ lwb'[b] = e
      /\ \A c \in 1 .. Len(lwb) : c # b => lwb'[c] = lwb[c]
  BY <1>1, <1>2, <1>3, <1>4
<1>7. Len(lwb') = Len(lwb)
  BY <1>1, <1>6, AppendIs
<1>8. \A c \in 1 .. Len(lwb) : LwbOk(lwb[c]) /\ lwb[c].state = "FREE" /\ Holds(lwb[c].tx)
  BY <1>1, AllFree DEF LwbInv, HeldInv, Blocks
<1>9. /\ lwb_list' \in Seq(1 .. Len(lwb)) /\ lwb_list' # <<>> /\ Last(lwb_list') = b
      /\ Len(lwb_list') = 1 /\ DOMAIN lwb_list' = {1} /\ lwb_list'[1] = b
  <2>1. lwb_list' = <<b>> /\ b \in 1 .. Len(lwb)
    BY <1>0, <1>1, <1>3
  <2> QED BY <2>1 DEF Last
<1>10. PoolInv'
  BY <1>0 DEF PoolInv, Syncing, LastSynced
<1>11. HeldInv'
  <2>1. \A t : Holds(t)' <=> Holds(t)
    BY <1>0 DEF Holds, Syncing
  <2>2. \A c \in 1 .. Len(lwb) : Holds(lwb'[c].tx)
    BY <1>5, <1>6, <1>8
  <2> QED BY <1>0, <1>1, <1>6, <2>1, <2>2 DEF HeldInv, Blocks
<1>12. LwbInv'
  <2>1. \A c : LwbOk(lwb[c])' <=> LwbOk(lwb'[c])
    BY <1>0 DEF LwbOk
  <2>2. \A c \in 1 .. Len(lwb) : Listed(c)' <=> c = b
    BY <1>9 DEF Listed
  <2>3. \A c \in 1 .. Len(lwb) : LwbOk(lwb[c])' /\ (lwb'[c].state = "FREE" <=> ~Listed(c)')
    BY <1>5, <1>6, <1>8, <2>1, <2>2
  <2>4. last_opened = 0
    BY <1>1, <1>8 DEF LwbInv
  <2>5. zh_syncing' \in 0 .. Len(lwb) /\ (spa' # "sync" => zh_log' = zh_syncing')
    BY <1>0, <1>1 DEF LwbInv
  <2> QED BY <1>0, <1>1, <1>6, <1>7, <1>9, <2>3, <2>4, <2>5 DEF LwbInv
<1>13. WaiterInv'
  <2>1. \A u \in Threads : zcw[u].lwb = 0
    BY <1>1, <1>8 DEF WaiterInv, InFlight
  <2>2. \A u \in Threads : pc'[u] = "timeout" => pc[u] = "timeout"
    BY <1>0, <1>1
  <2> QED BY <1>0, <1>1, <2>1, <2>2 DEF WaiterInv
<1>14. IssuerInv' /\ DeadInv'
  <2>1. /\ "process" \in Pcs \ {"scan", "create"} /\ "process" \in IssuerPcs
        /\ "process" \notin Stalls /\ pc'[th] = "process"
    BY <1>0, <1>1 DEF Pcs, IssuerPcs, Stalls
  <2>2. cur' = b /\ b # 0 /\ ~Dead(th)'
    BY <1>0, <1>3, <2>1 DEF Dead
  <2>3. lwb'[Last(lwb_list')].state \in Fillable
    BY <1>5, <1>6, <1>9 DEF Fillable
  <2> QED BY <1>0, <1>1, <1>9, <2>1, <2>2, <2>3, EndMove
<1>15. QueueInv'
  BY <1>0 DEF RunInv, QueueInv, BudgetOk, Cleaned, LastSynced
<1> QED BY <1>10, <1>11, <1>12, <1>13, <1>14, <1>15 DEF RunInv

-----------------------------------------------------------------------------
(* Steps of the pool                                                       *)

LEMMA OpenNextStep ==
  ASSUME PoolInv, RunInv, OpenNext
  PROVE  PoolInv' /\ RunInv'
<1>0. /\ open' = open + 1 /\ open - LastSynced < (IF spa = "idle" THEN 2 ELSE 3)
      /\ UNCHANGED <<synced, spa, zh_log, zh_syncing, dirty, tx, last_opened, lwb, lwb_list>>
      /\ UNCHANGED <<itxg, zcw, commit_list, issuer, pos, pc, cur, budget>>
  BY DEF OpenNext, queueVars, lwbVars, threadVars, ghostVars
<1>1. /\ open \in Nat /\ open' \in Nat /\ Syncing \in Nat /\ LastSynced \in Int
      /\ Syncing' = Syncing /\ LastSynced' = LastSynced /\ Cleaned' = Cleaned
      /\ open < open' /\ open <= open'
  BY <1>0, PoolFacts DEF Syncing, LastSynced, Cleaned
<1>2. PoolInv'
  BY <1>0, <1>1 DEF PoolInv, TXG_CONCURRENT_STATES
<1>3. HeldInv'
  <2>1. \A t : Holds(t) => Holds(t)'
    BY <1>0, <1>1 DEF Holds
  <2> QED BY <1>0, <2>1 DEF RunInv, HeldInv, Blocks
<1>4. QueueInv'
  <2>1. itxg' \in [0 .. TXG_SIZE - 1 -> Itxgs(open')] /\ commit_list' \in Seq(UpTo(open'))
    BY <1>0, <1>1, ItxgsGrow DEF RunInv, QueueInv
  <2>2. \A i \in 0 .. TXG_SIZE - 1 : itxg[i].txg \in Nat
    BY DEF RunInv, QueueInv, Itxgs
  <2> QED BY <1>0, <1>1, <2>1, <2>2 DEF RunInv, QueueInv, BudgetOk
<1>5. LwbInv'
  <2>1. \A b \in 1 .. Len(lwb) : LwbOk(lwb[b])'
    BY <1>0, <1>1 DEF RunInv, LwbInv, LwbOk
  <2> QED BY <1>0, <2>1 DEF RunInv, LwbInv, Listed
<1>6. IssuerInv'
  BY <1>0 DEF RunInv, IssuerInv
<1>7. DeadInv'
  <2>1. \A th \in Threads : /\ Dead(th)' <=> Dead(th)
                            /\ Stop(th)' = Stop(th) \/ (Stop(th) = open + 1 /\ Stop(th)' = open + 2)
    BY <1>0, <1>1 DEF Dead, Stop
  <2>2. \A d : Emptying(d)' <=> Emptying(d)
    BY <1>0 DEF Emptying
  <2>3. \A th \in Threads : Emptied(th) => Emptied(th)'
    <3>1. synced \in Nat /\ synced < open
      BY PoolFacts DEF PoolInv, Syncing
    <3> QED BY <1>0, <1>1, <2>1, <3>1 DEF Emptied
  <2>4. \A d \in dirty, th \in Threads : d \in Nat /\ (d < Stop(th) => d < Stop(th)')
    BY <1>1, <2>1 DEF PoolInv
  <2>5. \A d \in dirty : d <= open => d <= open'
    BY <1>1 DEF PoolInv
  <2> QED BY <1>0, <1>1, <2>1, <2>2, <2>3, <2>4, <2>5 DEF RunInv, DeadInv
<1>8. WaiterInv'
  BY <1>0 DEF RunInv, WaiterInv
<1> QED BY <1>2, <1>3, <1>4, <1>5, <1>6, <1>7, <1>8 DEF RunInv

LEMMA SyncDoneStep ==
  ASSUME PoolInv, RunInv, SyncDone
  PROVE  PoolInv' /\ RunInv'
<1>0. /\ spa = "sync" /\ spa' = "clean" /\ synced' = synced + 1 /\ zh_log' = zh_syncing
      /\ UNCHANGED <<open, zh_syncing, dirty, tx, last_opened, lwb, lwb_list>>
      /\ UNCHANGED <<itxg, zcw, commit_list, issuer, pos, pc, cur, budget>>
  BY DEF SyncDone, queueVars, threadVars, ghostVars
<1>1. /\ Syncing' = Syncing /\ LastSynced' = LastSynced /\ Cleaned' = Cleaned
  BY <1>0 DEF Syncing, LastSynced, Cleaned, PoolInv
<1>2. PoolInv'
  BY <1>0, <1>1 DEF PoolInv
<1>3. HeldInv'
  BY <1>0, <1>1 DEF RunInv, HeldInv, Holds, Blocks
<1>4. QueueInv'
  BY <1>0, <1>1 DEF RunInv, QueueInv, BudgetOk
<1>5. LwbInv'
  BY <1>0 DEF RunInv, LwbInv, LwbOk, Listed
<1>6. IssuerInv'
  BY <1>0 DEF RunInv, IssuerInv
<1>7. DeadInv'
  <2>1. \A th \in Threads : /\ Dead(th)' <=> Dead(th)
                            /\ Stop(th)' = Stop(th)
                            /\ Emptied(th) => Emptied(th)'
    BY <1>0 DEF Dead, Stop, Emptied
  <2>2. \A d : Emptying(d)' <=> Emptying(d)
    BY <1>0 DEF Emptying
  <2> QED BY <1>0, <1>1, <2>1, <2>2 DEF RunInv, DeadInv
<1>8. WaiterInv'
  BY <1>0 DEF RunInv, WaiterInv
<1> QED BY <1>2, <1>3, <1>4, <1>5, <1>6, <1>7, <1>8 DEF RunInv

(* A step of the pool that leaves the log and the threads alone.           *)
LEMMA PoolFrame ==
  ASSUME PoolInv, RunInv, Syncing' = Syncing,
         UNCHANGED <<open, synced, dirty, zh_log, zh_syncing, tx, last_opened, lwb, lwb_list>>,
         UNCHANGED <<issuer, pos, pc, cur>>, spa' = "sync" <=> spa = "sync"
  PROVE  HeldInv' /\ LwbInv' /\ IssuerInv' /\ DeadInv'
<1>1. HeldInv'
  BY DEF RunInv, HeldInv, Holds, Blocks
<1>2. LwbInv'
  BY DEF RunInv, LwbInv, LwbOk, Listed
<1>3. IssuerInv'
  BY DEF RunInv, IssuerInv
<1>4. DeadInv'
  <2>1. \A th \in Threads : /\ Dead(th)' <=> Dead(th)
                            /\ Stop(th)' = Stop(th)
                            /\ Emptied(th) => Emptied(th)'
    BY DEF Dead, Stop, Emptied
  <2>2. \A d : Emptying(d)' <=> Emptying(d)
    BY DEF Emptying
  <2> QED BY <2>1, <2>2 DEF RunInv, DeadInv
<1> QED BY <1>1, <1>2, <1>3, <1>4

LEMMA ZilCleanStep ==
  ASSUME PoolInv, RunInv, ZilClean
  PROVE  PoolInv' /\ RunInv'
<1>0. /\ UNCHANGED <<open, synced, dirty, zh_log, zh_syncing, tx, last_opened, lwb, lwb_list>>
      /\ UNCHANGED <<issuer, pos, pc, cur, commit_list, budget, zcw>>
      /\ spa = "clean" /\ spa' = "done"
      /\ itxg' = [itxg EXCEPT ![Slot(synced)] = EmptyItxg]
  BY DEF ZilClean, CleanSlot, lwbVars, threadVars, ghostVars
<1>1. Syncing' = Syncing /\ LastSynced' = LastSynced /\ spa' # "sync" /\ spa # "sync"
  BY <1>0 DEF Syncing, LastSynced
<1>2. PoolInv'
  BY <1>0, <1>1 DEF PoolInv
<1>3. HeldInv' /\ LwbInv' /\ IssuerInv' /\ DeadInv'
  BY <1>0, <1>1, PoolFrame
<1>4. QueueInv'
  <2>1. synced \in Nat /\ Cleaned' = synced /\ Cleaned = synced - 1 /\ open \in Nat
    BY <1>0, PoolFacts DEF Cleaned, LastSynced
  <2>2. EmptyItxg \in Itxgs(open) /\ EmptyItxg.txg = 0
    BY DEF EmptyItxg, Itxgs
  <2>3. /\ itxg \in [0 .. TXG_SIZE - 1 -> Itxgs(open)] /\ Slot(synced) \in 0 .. TXG_SIZE - 1
    BY <2>1, SlotType DEF RunInv, QueueInv
  <2>4. \A i \in 0 .. TXG_SIZE - 1 : itxg[i].txg \in Nat
    BY <2>3 DEF Itxgs
  <2>5. \A i \in 0 .. TXG_SIZE - 1 :
            itxg'[i] = IF i = Slot(synced) THEN EmptyItxg ELSE itxg[i]
    BY <1>0, <2>3
  <2>6. \A i \in 0 .. TXG_SIZE - 1 : LET t == itxg'[i].txg IN
            t = 0 \/ (Slot(t) = i /\ synced < t /\ t <= open)
    <3>1. SUFFICES ASSUME NEW i \in 0 .. TXG_SIZE - 1, itxg'[i].txg # 0
                   PROVE  /\ Slot(itxg'[i].txg) = i /\ synced < itxg'[i].txg
                          /\ itxg'[i].txg <= open
      OBVIOUS
    <3>2. i # Slot(synced) /\ itxg'[i] = itxg[i]
      BY <2>2, <2>5, <3>1
    <3>3. /\ Slot(itxg[i].txg) = i /\ synced - 1 < itxg[i].txg /\ itxg[i].txg <= open
          /\ itxg[i].txg \in Nat
      BY <2>1, <2>4, <3>1, <3>2 DEF RunInv, QueueInv
    <3>4. itxg[i].txg # synced
      BY <3>2, <3>3
    <3> QED BY <2>1, <3>2, <3>3, <3>4
  <2>7. itxg' \in [0 .. TXG_SIZE - 1 -> Itxgs(open)]
    BY <1>0, <2>2, <2>3
  <2> QED BY <1>0, <2>1, <2>6, <2>7 DEF RunInv, QueueInv, BudgetOk
<1>5. WaiterInv'
  BY <1>0 DEF RunInv, WaiterInv
<1> QED BY <1>2, <1>3, <1>4, <1>5 DEF RunInv

LEMMA UbSyncStep ==
  ASSUME PoolInv, RunInv, UbSync
  PROVE  PoolInv' /\ RunInv'
<1>0. /\ UNCHANGED <<open, synced, dirty, zh_log, zh_syncing, tx, last_opened, lwb, lwb_list>>
      /\ UNCHANGED <<issuer, pos, pc, cur, commit_list, budget, zcw, itxg>>
      /\ spa = "done" /\ spa' = "idle"
  BY DEF UbSync, queueVars, lwbVars, threadVars, ghostVars
<1>1. Syncing' = Syncing /\ spa' # "sync" /\ spa # "sync" /\ Cleaned' = Cleaned
  BY <1>0 DEF Syncing, Cleaned, LastSynced
<1>2. PoolInv'
  BY <1>0, <1>1 DEF PoolInv, LastSynced, TXG_CONCURRENT_STATES
<1>3. HeldInv' /\ LwbInv' /\ IssuerInv' /\ DeadInv'
  BY <1>0, <1>1, PoolFrame
<1>4. QueueInv' /\ WaiterInv'
  BY <1>0, <1>1 DEF RunInv, QueueInv, BudgetOk, WaiterInv
<1> QED BY <1>2, <1>3, <1>4 DEF RunInv

LEMMA ItxgCleanStep ==
  ASSUME PoolInv, RunInv, ItxgClean
  PROVE  PoolInv' /\ RunInv'
<1>0. /\ PoolKept /\ QueueKept /\ UNCHANGED <<issuer, pos, pc, cur>>
      /\ \E W : Skip(W)
  BY DEF ItxgClean, PoolKept, QueueKept, poolVars, lwbVars, ghostVars
<1>1. WaiterInv'
  BY <1>0, SkipKeeps DEF RunInv, PoolKept
<1> QED BY <1>0, <1>1, LogFrame, PoolKeptChain, ChainFrame DEF RunInv

LEMMA SubSeqIs ==
  ASSUME NEW S, NEW s \in Seq(S), NEW m \in Nat, 1 <= m, m <= Len(s) + 1
  PROVE  /\ SubSeq(s, m, Len(s)) \in Seq(S) /\ Len(SubSeq(s, m, Len(s))) = Len(s) + 1 - m
         /\ \A i \in 1 .. Len(s) + 1 - m : SubSeq(s, m, Len(s))[i] = s[m + i - 1]
<1>1. Len(s) \in Nat /\ \A i \in m .. Len(s) : s[i] \in S
  OBVIOUS
<1>2. /\ SubSeq(s, m, Len(s)) \in Seq(S)
      /\ Len(SubSeq(s, m, Len(s))) = IF m <= Len(s) THEN Len(s) - m + 1 ELSE 0
      /\ \A i \in 1 .. Len(s) - m + 1 : SubSeq(s, m, Len(s))[i] = s[m + i - 1]
  BY <1>1, SubSeqProperties
<1> QED BY <1>1, <1>2

(* The lwbs zil_sync frees are those before the first one to keep.         *)
LEMMA FreeLwbs ==
  ASSUME PoolInv, RunInv, NEW t, NEW first \in 1 .. Len(lwb_list) + 1, NEW gone,
         gone = {lwb_list[i] : i \in 1 .. first - 1},
         \A i \in 1 .. first - 1 : Freeable(lwb_list[i], t),
         lwb' = [b \in Blocks |-> IF b \in gone THEN NoLwb ELSE lwb[b]],
         lwb_list' = SubSeq(lwb_list, first, Len(lwb_list)),
         last_opened' = IF last_opened \in gone THEN 0 ELSE last_opened,
         zh_syncing' \in 0 .. Len(lwb), spa' = "sync", open' = open
  PROVE  /\ LwbInv' /\ Len(lwb') = Len(lwb)
         /\ \A c \in 1 .. Len(lwb) : lwb'[c] = NoLwb \/ lwb'[c] = lwb[c]
         /\ \A c \in 1 .. Len(lwb) : lwb[c].buf => lwb'[c] = lwb[c]
         /\ lwb_list' # <<>> => /\ lwb_list # <<>> /\ Last(lwb_list') = Last(lwb_list)
                                /\ lwb'[Last(lwb_list)] = lwb[Last(lwb_list)]
<1>a. PICK n : n = Len(lwb)
  OBVIOUS
<1>b. PICK k : k = Len(lwb_list)
  OBVIOUS
<1>1. /\ n \in Nat /\ lwb_list \in Seq(1 .. n) /\ k \in Nat
      /\ \A i \in 1 .. k : lwb_list[i] \in 1 .. n
      /\ DOMAIN lwb_list = 1 .. k /\ LwbInv /\ Blocks = 1 .. n
      /\ first \in 1 .. k + 1 /\ first \in Nat
  <2>1. LwbInv /\ n \in Nat /\ lwb_list \in Seq(1 .. n) /\ Blocks = 1 .. n
    BY <1>a DEF RunInv, LwbInv, Blocks
  <2> QED BY <1>b, <2>1
<1>2. /\ lwb' = [b \in 1 .. n |-> lwb'[b]]
      /\ \A c \in 1 .. n : lwb'[c] = IF c \in gone THEN NoLwb ELSE lwb[c]
  BY <1>1
<1>3. Len(lwb') = n
  BY <1>1, <1>2, AppendIs
<1>4. /\ lwb_list' \in Seq(1 .. n) /\ Len(lwb_list') = k + 1 - first
      /\ DOMAIN lwb_list' = 1 .. k + 1 - first
      /\ \A i \in 1 .. k + 1 - first : lwb_list'[i] = lwb_list[first + i - 1]
  <2>1. 1 <= first /\ first <= k + 1
    BY <1>1
  <2>2. /\ lwb_list' \in Seq(1 .. n) /\ Len(lwb_list') = k + 1 - first
        /\ \A i \in 1 .. k + 1 - first : lwb_list'[i] = lwb_list[first + i - 1]
    BY <1>b, <1>1, <2>1, SubSeqIs
  <2> QED BY <2>2
<1>5. \A i, j \in 1 .. k : lwb_list[i] = lwb_list[j] => i = j
  BY <1>1 DEF LwbInv
<1>6. \A i \in 1 .. k : lwb_list[i] \in gone <=> i < first
  BY <1>1, <1>5
<1>7. \A c \in gone : c \in 1 .. n /\ ~lwb[c].buf
  BY <1>1 DEF Freeable
<1>8. \A c \in 1 .. n : Listed(c)' <=> (Listed(c) /\ c \notin gone)
  <2>1. SUFFICES ASSUME NEW c \in 1 .. n PROVE Listed(c)' <=> (Listed(c) /\ c \notin gone)
    OBVIOUS
  <2>2. ASSUME Listed(c)' PROVE Listed(c) /\ c \notin gone
    <3>1. PICK i \in 1 .. k + 1 - first : lwb_list'[i] = c
      BY <1>4, <2>2 DEF Listed
    <3>2. first + i - 1 \in 1 .. k /\ lwb_list[first + i - 1] = c /\ ~(first + i - 1 < first)
      BY <1>1, <1>4, <3>1
    <3> QED BY <1>1, <1>6, <3>2 DEF Listed
  <2>3. ASSUME Listed(c), c \notin gone PROVE Listed(c)'
    <3>1. PICK i \in 1 .. k : lwb_list[i] = c
      BY <1>1, <2>3 DEF Listed
    <3>2. ~(i < first)
      BY <1>6, <2>3, <3>1
    <3>3. i + 1 - first \in 1 .. k + 1 - first /\ first + (i + 1 - first) - 1 = i
      BY <1>1, <3>2
    <3>4. lwb_list'[i + 1 - first] = c
      BY <1>4, <3>1, <3>3
    <3> QED BY <1>4, <3>3, <3>4 DEF Listed
  <2> QED BY <2>2, <2>3
<1>9. lwb_list' # <<>> => /\ lwb_list # <<>> /\ Last(lwb_list') = Last(lwb_list)
                          /\ lwb'[Last(lwb_list)] = lwb[Last(lwb_list)]
  <2>1. SUFFICES ASSUME lwb_list' # <<>>
                 PROVE  /\ lwb_list # <<>> /\ Last(lwb_list') = Last(lwb_list)
                        /\ lwb'[Last(lwb_list)] = lwb[Last(lwb_list)]
    OBVIOUS
  <2>2. k + 1 - first \in Nat \ {0}
    <3>1. k + 1 - first \in Nat
      BY <1>1
    <3>2. Len(lwb_list') # 0
      BY <1>4, <2>1, EmptySeq
    <3> QED BY <1>4, <3>1, <3>2
  <2>3. k \in 1 .. k /\ ~(k < first) /\ k + 1 - first \in 1 .. k + 1 - first
        /\ first + (k + 1 - first) - 1 = k
    BY <1>1, <2>2
  <2>4. lwb_list'[k + 1 - first] = lwb_list[k]
    BY <1>4, <2>3
  <2>5. lwb_list # <<>>
    <3>1. k # 0
      BY <1>1, <2>3
    <3> QED BY <1>b, <3>1, EmptySeq
  <2>6. Last(lwb_list') = lwb_list[k] /\ Last(lwb_list) = lwb_list[k]
    BY <1>b, <1>4, <2>4 DEF Last
  <2> QED BY <1>1, <1>2, <1>6, <2>3, <2>5, <2>6
<1>10. LwbInv'
  <2>1. LwbOk(NoLwb) /\ NoLwb.state = "FREE"
    BY DEF LwbOk, NoLwb, LwbFields, LwbStates, Fillable, InFlight, PoolInv
  <2>2. \A c : LwbOk(lwb[c])' <=> LwbOk(lwb'[c])
    BY DEF LwbOk
  <2>3. \A c \in 1 .. n : LwbOk(lwb[c])' /\ (lwb'[c].state = "FREE" <=> ~Listed(c)')
    BY <1>a, <1>1, <1>2, <1>8, <2>1, <2>2 DEF LwbInv
  <2>4. \A i, j \in DOMAIN lwb_list' : lwb_list'[i] = lwb_list'[j] => i = j
    <3>1. SUFFICES ASSUME NEW i \in 1 .. k + 1 - first, NEW j \in 1 .. k + 1 - first,
                          lwb_list'[i] = lwb_list'[j]
                   PROVE  i = j
      BY <1>4
    <3>2. lwb_list[first + i - 1] = lwb_list[first + j - 1]
      BY <1>4, <3>1
    <3>3. first + i - 1 \in 1 .. k /\ first + j - 1 \in 1 .. k
      BY <1>1
    <3>4. first + i - 1 = first + j - 1
      BY <1>5, <3>2, <3>3
    <3> QED BY <1>1, <3>4
  <2>5. \A i \in DOMAIN lwb_list' : i < Len(lwb_list') => lwb'[lwb_list'[i]].state \notin Fillable
    <3>1. SUFFICES ASSUME NEW i \in 1 .. k + 1 - first, i < k + 1 - first
                   PROVE  lwb'[lwb_list'[i]].state \notin Fillable
      BY <1>4
    <3>2. first + i - 1 \in 1 .. k /\ first + i - 1 < k
      BY <1>1, <3>1
    <3>3. lwb_list'[i] \in 1 .. n /\ lwb[lwb_list'[i]].state \notin Fillable
      BY <1>b, <1>1, <1>4, <3>2 DEF LwbInv
    <3> QED BY <1>2, <2>1, <3>3 DEF Fillable
  <2>6. last_opened' # 0 => /\ last_opened' \in 1 .. n
                            /\ lwb'[last_opened'].state \notin {"FREE", "CLOSED"}
    <3>1. SUFFICES ASSUME last_opened' # 0
                   PROVE  /\ last_opened' \in 1 .. n
                          /\ lwb'[last_opened'].state \notin {"FREE", "CLOSED"}
      OBVIOUS
    <3>2. last_opened' = last_opened /\ last_opened \notin gone
      BY <3>1
    <3>3. last_opened \in 1 .. n /\ lwb[last_opened].state \notin {"FREE", "CLOSED"}
      BY <1>a, <1>1, <3>1, <3>2 DEF LwbInv
    <3> QED BY <1>2, <3>2, <3>3
  <2>7. Len(lwb') \in Nat /\ lwb' = [b \in 1 .. Len(lwb') |-> lwb'[b]]
    BY <1>1, <1>2, <1>3
  <2>8. lwb_list' \in Seq(1 .. Len(lwb')) /\ zh_syncing' \in 0 .. Len(lwb')
    BY <1>a, <1>3, <1>4
  <2>9. spa' # "sync" => zh_log' = zh_syncing'
    OBVIOUS
  <2> QED BY <1>3, <2>3, <2>4, <2>5, <2>6, <2>7, <2>8, <2>9 DEF LwbInv
<1> QED BY <1>a, <1>2, <1>3, <1>7, <1>9, <1>10

(* When zil_sync of group t has to keep something of the list, the last    *)
(* lwb is kept.  Of a list that was to be emptied by t nothing is kept:    *)
(* nobody holds t, so that every write is over.                            *)
LEMMA EmptiedBy ==
  ASSUME PoolInv, RunInv, spa = "idle", ~Held(synced + 1), Emptying(synced + 1),
         NEW i \in DOMAIN lwb_list
  PROVE  Freeable(lwb_list[i], synced + 1)
<1> DEFINE b == lwb_list[i]
<1>1. b \in 1 .. Len(lwb) /\ Blocks = 1 .. Len(lwb) /\ LwbOk(lwb[b]) /\ Holds(lwb[b].tx)
  BY DEF RunInv, LwbInv, HeldInv, Blocks
<1>2. /\ lwb[b].state \notin Fillable /\ lwb[b].max_txg <= synced + 1
      /\ lwb[b].tx <= synced + 1 /\ lwb[b].tx # synced + 1
  BY <1>1 DEF Emptying, Held
<1>3. lwb[b].tx = 0
  BY <1>1, <1>2 DEF Holds, Syncing, PoolInv
<1>4. ~lwb[b].buf
  BY <1>1, <1>2, <1>3 DEF LwbOk
<1> QED BY <1>2, <1>4 DEF Freeable

LEMMA ZilSyncStep ==
  ASSUME PoolInv, RunInv, ZilSync
  PROVE  PoolInv' /\ RunInv'
<1>1. PICK t, kept, first, gone :
        /\ t = synced + 1
        /\ kept = {i \in DOMAIN lwb_list : ~Freeable(lwb_list[i], t)}
        /\ first = IF kept = {} THEN Len(lwb_list) + 1 ELSE Min(kept)
        /\ gone = {lwb_list[i] : i \in 1 .. first - 1}
        /\ t < open /\ ~Held(t) /\ dirty' = dirty \ {t}
        /\ IF t \in dirty /\ lwb_list # <<>>
           THEN /\ lwb_list' = SubSeq(lwb_list, first, Len(lwb_list))
                /\ zh_syncing' = IF kept = {} THEN 0 ELSE lwb_list[first]
                /\ lwb' = [b \in Blocks |-> IF b \in gone THEN NoLwb ELSE lwb[b]]
                /\ last_opened' = IF last_opened \in gone THEN 0 ELSE last_opened
           ELSE UNCHANGED <<lwb_list, zh_syncing, lwb, last_opened>>
  BY DEF ZilSync
<1>2. /\ spa = "idle" /\ spa' = "sync" /\ UNCHANGED <<open, synced, zh_log, tx>>
      /\ UNCHANGED <<issuer, pos, pc, cur, commit_list, budget, zcw, itxg>>
  BY DEF ZilSync, queueVars, threadVars, ghostVars
<1>3. /\ Syncing = synced /\ Syncing' = t /\ LastSynced' = LastSynced /\ Cleaned' = Cleaned
      /\ synced \in Nat /\ open \in Nat /\ t \in Nat /\ t = synced + 1 /\ dirty \subseteq Nat
  BY <1>1, <1>2 DEF PoolInv, Syncing, LastSynced, Cleaned
<1>4. PoolInv'
  BY <1>1, <1>2, <1>3 DEF PoolInv
<1>5. QueueInv'
  BY <1>2, <1>3 DEF RunInv, QueueInv, BudgetOk
<1>6. /\ \A u : Holds(u) /\ u # t => Holds(u)'
      /\ \A th \in Threads : tx[th] # t
      /\ \A b \in 1 .. Len(lwb) : lwb[b].tx # t /\ Holds(lwb[b].tx)
  <2>1. \A u : Holds(u) /\ u # t => Holds(u)'
    BY <1>2, <1>3 DEF Holds
  <2> QED BY <1>1, <2>1 DEF RunInv, HeldInv, LwbInv, Blocks, Held
<1>7. /\ \A th \in Threads : Dead(th)' <=> Dead(th)
      /\ \A th \in Threads : Stop(th)' = Stop(th)
      /\ LwbInv /\ IssuerInv /\ DeadInv /\ HeldInv /\ WaiterInv
  BY <1>2 DEF Dead, Stop, RunInv
<1>8. CASE UNCHANGED <<lwb_list, zh_syncing, lwb,
                       last_opened>> /\ (t \notin dirty \/ lwb_list = <<>>)
  <2>1. HeldInv'
    BY <1>2, <1>6, <1>7, <1>8 DEF HeldInv, Blocks, LwbInv
  <2>2. LwbInv' /\ IssuerInv' /\ WaiterInv'
    BY <1>2, <1>7, <1>8 DEF LwbInv, LwbOk, Listed, IssuerInv, WaiterInv
  <2>3. DeadInv'
    <3>1. \A th \in Threads : Emptied(th) => Emptied(th)'
      BY <1>2, <1>7, <1>8 DEF Emptied
    <3>2. \A d : Emptying(d) <=> Emptying(d)'
      BY <1>8 DEF Emptying
    <3>3. \A d \in dirty : Syncing < d /\ Emptying(d) => d \in dirty' /\ Syncing' < d
      <4>1. SUFFICES ASSUME NEW d \in dirty, Syncing < d, Emptying(d)
                     PROVE  d \in dirty' /\ Syncing' < d
        OBVIOUS
      <4>2. d # t
        BY <1>8, <4>1 DEF Emptying
      <4> QED BY <1>1, <1>3, <4>1, <4>2
    <3> QED BY <1>2, <1>7, <1>8, <3>1, <3>2, <3>3 DEF DeadInv
  <2> QED BY <1>4, <1>5, <2>1, <2>2, <2>3 DEF RunInv
<1>9. CASE /\ lwb_list # <<>>
           /\ lwb_list' = SubSeq(lwb_list, first, Len(lwb_list))
           /\ zh_syncing' = IF kept = {} THEN 0 ELSE lwb_list[first]
           /\ lwb' = [b \in Blocks |-> IF b \in gone THEN NoLwb ELSE lwb[b]]
           /\ last_opened' = IF last_opened \in gone THEN 0 ELSE last_opened
  <2>1. /\ DOMAIN lwb_list = 1 .. Len(lwb_list) /\ Len(lwb_list) \in Nat
        /\ \A i \in DOMAIN lwb_list : lwb_list[i] \in 1 .. Len(lwb)
    <3>1. lwb_list \in Seq(1 .. Len(lwb))
      BY <1>7 DEF LwbInv
    <3> QED BY <3>1
  <2>2. /\ kept \subseteq Nat /\ kept \subseteq DOMAIN lwb_list
        /\ kept # {} => first \in kept /\ \A i \in kept : first <= i
    <3>1. kept \subseteq DOMAIN lwb_list /\ kept \subseteq Nat
      BY <1>1, <2>1
    <3>2. kept # {} => Min(kept) \in kept /\ \A i \in kept : Min(kept) <= i
      BY <3>1, MinIs
    <3> QED BY <1>1, <3>1, <3>2
  <2>3. first \in 1 .. Len(lwb_list) + 1 /\ zh_syncing' \in 0 .. Len(lwb)
    <3>1. CASE kept = {}
      BY <1>1, <1>7, <1>9, <2>1, <3>1 DEF LwbInv
    <3>2. CASE kept # {}
      <4>1. first \in 1 .. Len(lwb_list) /\ lwb_list[first] \in 1 .. Len(lwb)
        BY <2>1, <2>2, <3>2
      <4> QED BY <1>7, <1>9, <2>1, <3>2, <4>1 DEF LwbInv
    <3> QED BY <3>1, <3>2
  <2>4. \A i \in 1 .. first - 1 : Freeable(lwb_list[i], t)
    <3>1. SUFFICES ASSUME NEW i \in 1 .. first - 1, ~Freeable(lwb_list[i], t) PROVE FALSE
      OBVIOUS
    <3>2. i \in DOMAIN lwb_list /\ ~(first <= i)
      BY <2>1, <2>3
    <3>3. i \in kept
      BY <1>1, <3>1, <3>2
    <3> QED BY <2>2, <3>2, <3>3
  <2>5. /\ LwbInv' /\ Len(lwb') = Len(lwb)
        /\ \A c \in 1 .. Len(lwb) : lwb'[c] = NoLwb \/ lwb'[c] = lwb[c]
        /\ \A c \in 1 .. Len(lwb) : lwb[c].buf => lwb'[c] = lwb[c]
        /\ lwb_list' # <<>> => /\ lwb_list # <<>> /\ Last(lwb_list') = Last(lwb_list)
                               /\ lwb'[Last(lwb_list)] = lwb[Last(lwb_list)]
    <3>1. gone = {lwb_list[i] : i \in 1 .. first - 1}
      BY <1>1
    <3>2. lwb' = [b \in Blocks |-> IF b \in gone THEN NoLwb ELSE lwb[b]]
      BY <1>9
    <3>3. last_opened' = IF last_opened \in gone THEN 0 ELSE last_opened
      BY <1>9
    <3>4. lwb_list' = SubSeq(lwb_list, first, Len(lwb_list))
      BY <1>9
    <3>5. spa' = "sync" /\ open' = open
      BY <1>2
    <3> QED BY <2>3, <2>4, <3>1, <3>2, <3>3, <3>4, <3>5, FreeLwbs
  <2>6. NoLwb.tx = 0 /\ NoLwb.max_txg = 0 /\ NoLwb.state \notin Fillable
    BY DEF NoLwb, Fillable
  <2>7. HeldInv'
    <3>1. Holds(0)'
      BY DEF Holds
    <3>2. \A c \in 1 .. Len(lwb) : Holds(lwb[c].tx)'
      BY <1>6, <2>5, <2>6, <3>1
    <3>3. Blocks' = 1 .. Len(lwb)
      BY <2>5 DEF LwbInv, Blocks
    <3>4. tx' = [th \in Threads |-> tx'[th]] /\ \A th \in Threads : Holds(tx[th])'
      BY <1>2, <1>6, <1>7 DEF HeldInv
    <3> QED BY <3>2, <3>3, <3>4 DEF HeldInv
  <2>8. lwb_list' = <<>> <=> kept = {}
    <3>1. CASE kept = {}
      <4>1. first = Len(lwb_list) + 1 /\ Len(lwb_list) \in Nat
        BY <1>1, <2>1, <3>1
      <4> QED BY <1>9, <3>1, <4>1, SubSeqEmpty
    <3>2. CASE kept # {}
      <4>1. first \in 1 .. Len(lwb_list)
        BY <2>1, <2>2, <3>2
      <4>2. lwb_list \in Seq(1 .. Len(lwb)) /\ 1 <= first /\ first <= Len(lwb_list) + 1
            /\ first \in Nat
        BY <1>7, <2>1, <4>1 DEF LwbInv
      <4>3. Len(lwb_list') = Len(lwb_list) + 1 - first
        BY <1>9, <4>2, SubSeqIs
      <4>4. Len(lwb_list') # 0
        BY <2>1, <4>1, <4>3
      <4> QED BY <3>2, <4>4, EmptySeq
    <3> QED BY <3>1, <3>2
  <2>9. IssuerInv'
    <3>1. cur # 0 => lwb_list' # <<>>
      <4>1. SUFFICES ASSUME cur # 0 PROVE lwb_list' # <<>>
        OBVIOUS
      <4>2. PICK c \in 1 .. Len(lwb) : LwbOk(lwb[c]) /\ lwb[c].state \in Fillable
        BY <4>1, CurFacts
      <4>3. lwb[c].buf
        BY <4>2 DEF LwbOk
      <4>4. lwb'[c] = lwb[c] /\ lwb'[c].state # "FREE"
        BY <2>5, <4>2, <4>3 DEF Fillable
      <4>5. Listed(c)'
        BY <2>5, <4>2, <4>4 DEF LwbInv
      <4> QED BY <4>5 DEF Listed
    <3>2. cur' # 0 => /\ issuer' # NoThread
                      /\ pc'[issuer'] \in {"create_wait", "process", "next", "eio"}
                      /\ lwb_list' # <<>> /\ cur' = Last(lwb_list')
      BY <1>2, <1>7, <2>5, <3>1 DEF IssuerInv
    <3>3. \A th \in Threads : /\ pc'[th] = "create" => lwb_list' = <<>>
                              /\ pc'[th] \in {"next", "eio"} => cur' # 0
                              /\ pc'[th] = "scan" => pos'[th] \in Seq(Nat) \ {<<>>}
      BY <1>2, <1>7, <1>9 DEF IssuerInv
    <3> QED BY <1>2, <1>7, <3>2, <3>3 DEF IssuerInv
  <2>10. WaiterInv'
    <3>1. \A c \in 1 .. Len(lwb) : lwb[c].state \in {"OPENED"} \cup InFlight => lwb'[c] = lwb[c]
      BY <1>7, <2>5 DEF LwbInv, LwbOk, Fillable
    <3> QED BY <1>2, <1>7, <2>5, <3>1 DEF WaiterInv
  <2>11. DeadInv'
    <3>1. SUFFICES ASSUME NEW th \in Threads, Dead(th)
                   PROVE  \/ Emptied(th)'
                          \/ \E d \in dirty' : Syncing' < d /\ d <= open' /\ d < Stop(th)'
                                               /\ Emptying(d)'
      BY <1>2, <1>7, <2>5 DEF DeadInv
    <3>2. PICK d \in dirty : Syncing < d /\ d <= open /\ d < Stop(th) /\ Emptying(d)
      BY <1>7, <1>9, <3>1 DEF DeadInv, Emptied
    <3>a. d \in Nat /\ Stop(th) \in Nat /\ Stop(th)' = Stop(th) /\ synced < Stop(th)
      <4>1. d \in Nat /\ Stop(th) \in Nat
        BY <1>3, <1>7 DEF DeadInv, Stop
      <4> QED BY <1>3, <1>7, <3>2, <4>1
    <3>3. CASE lwb_list' = <<>>
      <4>1. zh_syncing' = 0
        BY <1>9, <2>8, <3>3
      <4> QED BY <1>2, <3>3, <3>a, <4>1 DEF Emptied
    <3>4. CASE lwb_list' # <<>>
      <4>1. d # t
        <5>1. SUFFICES ASSUME d = t PROVE kept = {}
          BY <2>8, <3>4
        <5>2. \A i \in DOMAIN lwb_list : Freeable(lwb_list[i], synced + 1)
          BY <1>1, <1>2, <3>2, <5>1, EmptiedBy
        <5> QED BY <1>1, <5>2
      <4>2. d \in dirty' /\ Syncing' < d
        BY <1>1, <1>3, <3>2, <3>a, <4>1
      <4>3. Emptying(d)'
        <5>1. \A c \in 1 .. Len(lwb) : /\ lwb'[c].state \notin Fillable
                                       /\ lwb'[c].max_txg <= d /\ lwb'[c].tx <= d
          BY <2>5, <2>6, <3>2, <3>a DEF Emptying
        <5> QED BY <2>5, <3>4, <5>1 DEF Emptying
      <4> QED BY <1>2, <3>2, <3>a, <4>2, <4>3
    <3> QED BY <3>3, <3>4
  <2> QED BY <1>4, <1>5, <2>5, <2>7, <2>9, <2>10, <2>11 DEF RunInv
<1> QED BY <1>1, <1>8, <1>9

LEMMA RunningStep ==
  ASSUME PoolInv, RunInv, Next
  PROVE  PoolInv' /\ RunInv'
<1>1. CASE \E th \in Threads : Write(th) \/ Commit(th) \/ ThreadStep(th)
  <2>1. PICK th \in Threads : Write(th) \/ Commit(th) \/ ThreadStep(th)
    BY <1>1
  <2>2. CASE Write(th)
    BY <2>2, TxAssignStep DEF Write
  <2>3. CASE Commit(th)
    BY <2>3, CommitStep
  <2>4. CASE LogItx(th) \/ AsyncToSync(th) \/ TxAssign(th, "commit", "commit_itx")
             \/ CommitItx(th)
    BY <2>4, LogItxStep, AsyncToSyncStep, TxAssignStep, CommitItxStep
  <2>5. CASE Writer(th) \/ GetCommitList(th) \/ PruneCommit(th) \/ PruneEnd(th)
    BY <2>5, WriterStep, GetCommitListStep, PruneCommitStep, PruneEndStep
  <2>6. CASE Create(th) \/ CreateKept(th) \/ ProcessCommit(th) \/ ProcessFull(th)
    BY <2>6, CreateStep, CreateKeptStep, ProcessCommitStep, ProcessFullStep
  <2>7. CASE ProcessRecord(th) \/ ProcessEIO(th) \/ ProcessGone(th) \/ ProcessEnd(th)
    BY <2>7, ProcessRecordStep, ProcessEIOStep, ProcessGoneStep, ProcessEndStep
  <2>8. CASE WaiterTimeout(th) \/ TimeoutIssue(th) \/ TimeoutLate(th) \/ Return(th)
             \/ Synced(th)
    BY <2>8, WaitStep, TimeoutIssueStep, SyncedStep
  <2> QED BY <2>1, <2>2, <2>3, <2>4, <2>5, <2>6, <2>7, <2>8 DEF ThreadStep
<1>2. CASE ZioStep
  BY <1>2, WriteDoneStep, FlushVdevsStep, FlushVdevsDoneStep DEF ZioStep
<1>3. CASE SpaStep
  BY <1>3, OpenNextStep, ZilSyncStep, SyncDoneStep, ZilCleanStep, UbSyncStep, ItxgCleanStep
     DEF SpaStep
<1> QED BY <1>1, <1>2, <1>3 DEF Next

-----------------------------------------------------------------------------
(* Crashes and the recovery                                                *)

LEMMA CrashStep ==
  ASSUME ZilInv, Crash
  PROVE  ZilInv'
<1>1. /\ phase' = "down" /\ open' = synced + 1 /\ spa' = "idle" /\ dirty' = {}
      /\ itxg' = [i \in DOMAIN itxg |-> EmptyItxg]
      /\ lwb_list' = <<>> /\ lwb' = [b \in Blocks |-> NoLwb] /\ issuer' = NoThread
      /\ pc' = [th \in Threads |-> "idle"] /\ tx' = [th \in Threads |-> 0]
      /\ zcw' = [th \in Threads |-> NewWaiter] /\ synced' = synced
  BY Zenon DEF Crash
<1>2. PoolInv'
  BY <1>1 DEF ZilInv, PoolInv, Syncing, LastSynced, TXG_CONCURRENT_STATES
<1>3. DOMAIN itxg = 0 .. TXG_SIZE - 1
  BY DEF ZilInv, RunInv, QueueInv, DownInv
<1>4. DownInv'
  <2>1. itxg' = [i \in 0 .. TXG_SIZE - 1 |-> EmptyItxg]
    BY <1>1, <1>3
  <2>2. \A b \in Blocks' : lwb'[b].tx = 0
    BY <1>1 DEF Blocks, NoLwb
  <2>3. \A th \in Threads : tx'[th] = 0 /\ pc'[th] = "idle" /\ zcw'[th].lwb = 0
    BY <1>1 DEF NewWaiter
  <2>4. EmptyItxg' = EmptyItxg
    BY DEF EmptyItxg
  <2> QED BY <1>1, <2>1, <2>2, <2>3, <2>4 DEF DownInv
<1> QED BY <1>1, <1>2, <1>4 DEF ZilInv

LEMMA DownFrame ==
  ASSUME PoolInv, DownInv, UNCHANGED <<lwb_list, issuer, lwb, tx, pc, zcw, itxg>>
  PROVE  /\ DownInv'
         /\ UNCHANGED <<open, synced, spa>> /\ dirty' \subseteq dirty \cup {open} => PoolInv'
<1>1. DownInv'
  BY DEF DownInv, Blocks, EmptyItxg
<1>2. UNCHANGED <<open, synced, spa>> /\ dirty' \subseteq dirty \cup {open} => PoolInv'
  BY DEF PoolInv, Syncing, LastSynced
<1> QED BY <1>1, <1>2

LEMMA RecoveryStep ==
  ASSUME ZilInv, Recovery
  PROVE  ZilInv'
<1> USE DEF queueVars, lwbVars, threadVars, recoveryVars, vars, poolVars
<1>00. ReplayFails \/ ReplayNoObject =>
           /\ phase # "running" /\ phase' # "running"
           /\ UNCHANGED <<lwb_list, issuer, lwb, tx, pc, zcw, itxg, open, synced, spa, dirty>>
  BY DEF ReplayFails, ReplayNoObject
<1>0. phase # "running" /\ phase' # "running"
  BY <1>00 DEF Recovery, Claim, ClaimClear, Mount, ReplaySkip, Replay, ReplayError, RetryError,
         ReplayEnd, WaitSynced, OpenNextGroup, SyncHeader, SyncHeaderDone, SyncNextGroup,
         LoadWait, Wait, Destroy
<1>1. PoolInv /\ DownInv
  BY <1>0 DEF ZilInv
<1>2. SUFFICES PoolInv' /\ DownInv'
  BY <1>0 DEF ZilInv
<1>3. CASE Claim \/ ClaimClear \/ Mount \/ ReplaySkip \/ Replay \/ ReplayError \/ ReplayFails
           \/ ReplayNoObject \/ RetryError \/ ReplayEnd \/ WaitSynced
  <2>1. UNCHANGED <<lwb_list, issuer, lwb, tx, pc, zcw, itxg, open, synced, spa>>
    BY <1>00, <1>3 DEF Claim, ClaimClear, Mount, ReplaySkip, Replay, ReplayError, RetryError,
                ReplayEnd, WaitSynced
  <2>2. dirty' \subseteq dirty \cup {open}
    BY <1>00, <1>3 DEF Claim, ClaimClear, Mount, ReplaySkip, Replay, Replayed, ReplayError,
                RetryError, ReplayEnd, WaitSynced, Destroy
  <2> QED BY <1>1, <2>1, <2>2, DownFrame
<1>4. CASE OpenNextGroup
  <2>1. UNCHANGED <<lwb_list, issuer, lwb, tx, pc, zcw, itxg>>
    BY <1>4 DEF OpenNextGroup
  <2>2. PoolInv'
    BY <1>1, <1>4 DEF OpenNextGroup, PoolInv, Syncing, LastSynced, TXG_CONCURRENT_STATES
  <2> QED BY <1>1, <2>1, <2>2, DownFrame
<1>5. CASE SyncHeader
  <2>1. UNCHANGED <<lwb_list, issuer, lwb, tx, pc, zcw, itxg>>
    BY <1>5 DEF SyncHeader
  <2>2. PoolInv'
    BY <1>1, <1>5 DEF SyncHeader, PoolInv, Syncing, LastSynced
  <2> QED BY <1>1, <2>1, <2>2, DownFrame
<1>6. CASE SyncHeaderDone
  <2>1. UNCHANGED <<lwb_list, issuer, lwb, tx, pc, zcw, itxg>>
    BY <1>6 DEF SyncHeaderDone, SyncDone
  <2>2. PoolInv'
    BY <1>1, <1>6 DEF SyncHeaderDone, SyncDone, PoolInv, Syncing, LastSynced
  <2> QED BY <1>1, <2>1, <2>2, DownFrame
<1>7. CASE SyncNextGroup
  <2>1. UNCHANGED <<lwb_list, issuer, lwb, tx, pc, zcw>>
    BY <1>7 DEF SyncNextGroup, ZilClean, UbSync
  <2>2. itxg' = itxg
    BY <1>1, <1>7 DEF SyncNextGroup, ZilClean, UbSync, DownInv
  <2>3. PoolInv'
    <3>1. CASE ZilClean
      <4>1. UNCHANGED <<open, synced, dirty>> /\ spa = "clean" /\ spa' = "done"
        BY <3>1 DEF ZilClean
      <4> QED BY <1>1, <4>1 DEF PoolInv, Syncing, LastSynced, TXG_CONCURRENT_STATES
    <3>2. CASE UbSync
      <4>1. UNCHANGED <<open, synced, dirty>> /\ spa = "done" /\ spa' = "idle"
        BY <3>2 DEF UbSync
      <4> QED BY <1>1, <4>1 DEF PoolInv, Syncing, LastSynced, TXG_CONCURRENT_STATES
    <3> QED BY <1>7, <3>1, <3>2 DEF SyncNextGroup
  <2> QED BY <1>1, <2>1, <2>2, <2>3, DownFrame
<1> QED BY <1>3, <1>4, <1>5, <1>6, <1>7 DEF Recovery

LEMMA StutterStep ==
  ASSUME ZilInv, UNCHANGED allVars
  PROVE  ZilInv'
<1> USE DEF allVars, vars, poolVars, queueVars, lwbVars, threadVars, ghostVars, recoveryVars
<1>1. CASE phase = "running"
  <2>1. PoolInv /\ RunInv /\ PoolKept /\ QueueKept
    BY <1>1 DEF ZilInv, PoolKept, QueueKept
  <2>2. WaiterInv' /\ UNCHANGED <<pc, pos, issuer, cur>>
    BY <2>1 DEF RunInv, WaiterInv
  <2>3. PoolInv' /\ RunInv'
    BY <2>1, <2>2, LogFrame, PoolKeptChain, ChainFrame DEF RunInv
  <2> QED BY <1>1, <2>3 DEF ZilInv
<1>2. CASE phase # "running"
  BY <1>2, DownFrame DEF ZilInv
<1> QED BY <1>1, <1>2

LEMMA ZilInvStep ==
  ASSUME ZilInv, [ReplayNext]_allVars
  PROVE  ZilInv'
<1>1. CASE Running
  <2>1. phase = "running" /\ phase' = "running" /\ Next
    BY <1>1 DEF Running, Up, recoveryVars
  <2> QED BY <2>1, RunningStep DEF ZilInv
<1> QED BY <1>1, CrashStep, RecoveryStep, StutterStep DEF ReplayNext

LEMMA ZilInvHolds == ReplaySpec => []ZilInv
<1>1. ReplayInit => ZilInv
  BY ZilInvInit
<1>2. ZilInv /\ [ReplayNext]_allVars => ZilInv'
  BY ZilInvStep
<1> QED BY <1>1, <1>2, PTL DEF ReplaySpec

(* No transaction holds, and no slot of the queue has itxs of, a group     *)
(* that is over, whenever the system crashes: dmu_tx_commit of a log block *)
(* waits for its flush, and zil_clean empties a slot of zl_itxg before     *)
(* zil_itx_assign needs it for a later group.                              *)
THEOREM GroupsLiveSafe == ReplaySpec => []GroupsLive
BY ZilInvHolds, InvGroupsLive, PTL

(* A commit waiter that is not done points to an lwb that is not freed and *)
(* has it among its waiters, although zil_commit_waiter_timeout drops      *)
(* zcw_lock and zil_sync frees lwbs at the same time.                      *)
THEOREM WaiterLwbSafe == ReplaySpec => []WaiterLwbLive
BY ZilInvHolds, InvWaiterLwbLive, PTL

(* The assertions of zil_commit_writer_stall and of                        *)
(* zil_process_commit_list on zl_lwb_list: after a failed allocation the   *)
(* stall ends with an empty list and an empty header, and otherwise the    *)
(* last lwb can still be filled.                                           *)
THEOREM LwbListSafe == ReplaySpec => []LwbListAsserted
BY ZilInvHolds, InvLwbListAsserted, PTL

-----------------------------------------------------------------------------
(***************************************************************************)
(* The records of the log blocks, in memory and on disk, through writes,   *)
(* flushes, frees and crashes: what zil_parse reads is a sequence of them. *)
(***************************************************************************)
BlockOk(d) == d = [f \in {"recs", "next", "vdev", "at"} |-> d[f]] /\ d.recs \in Seq(Itxs)
RecsOk(l) == Len(l) \in Nat /\ l = [b \in 1 .. Len(l) |-> l[b]]
             /\ \A b \in 1 .. Len(l) : l[b].recs \in Seq(Itxs)
DiskInv ==
    /\ RecsOk(lwb)
    /\ disk = [b \in 1 .. Len(lwb) |-> disk[b]]
    /\ \A b \in 1 .. Len(lwb) : BlockOk(disk[b])
    /\ zh_log \in 0 .. Len(lwb) /\ zh_syncing \in 0 .. Len(lwb)

LEMMA FlattenType ==
  ASSUME NEW S, NEW n \in Nat, NEW s, s = [i \in 1 .. n |-> s[i]],
         \A i \in 1 .. n : s[i] \in Seq(S)
  PROVE  FlattenSeq(s) \in Seq(S)
<1>1. Len(s) = n
  BY AppendIs
<1>2. CASE n = 0
  BY <1>1, <1>2 DEF FlattenSeq
<1>3. CASE n # 0
  <2> DEFINE Flat(f, m) == f = [i \in 1 .. m |-> IF i = 1 THEN s[i] ELSE f[i - 1] \o s[i]]
             F == CHOOSE f : Flat(f, n)
             Bad == {m \in 1 .. n : ~\E f : Flat(f, m)}
  <2> HIDE DEF Flat
  <2>1. Bad = {}
    <3> SUFFICES ASSUME Bad # {} PROVE FALSE OBVIOUS
    <3>0. Bad \subseteq Nat
      OBVIOUS
    <3>1. PICK m \in Bad : \A y \in Bad : m <= y
      <4> HIDE DEF Bad
      <4> QED BY <3>0, MinIs
    <3>2. CASE m = 1
      <4>1. Flat([i \in 1 .. 1 |-> s[1]], 1)
        BY DEF Flat
      <4> QED BY <3>1, <3>2, <4>1
    <3>3. CASE m # 1
      <4>1. m - 1 \in 1 .. n /\ m - 1 \notin Bad
        <5>1. m \in 1 .. n
          OBVIOUS
        <5> HIDE DEF Bad
        <5> QED BY <3>1, <3>3, <5>1
      <4>2. PICK g : Flat(g, m - 1)
        BY <4>1
      <4> DEFINE h == [i \in 1 .. m |-> IF i = m THEN g[m - 1] \o s[m] ELSE g[i]]
      <4>3. \A i \in 1 .. m : h[i] = IF i = 1 THEN s[i] ELSE h[i - 1] \o s[i]
        <5> TAKE i \in 1 .. m
        <5>1. CASE i = m
          <6>1. h[m] = g[m - 1] \o s[m] /\ h[m - 1] = g[m - 1]
            BY <4>1
          <6> QED BY <3>3, <5>1, <6>1
        <5>2. CASE i # m
          <6>1. i \in 1 .. m - 1 /\ h[i] = g[i]
            BY <5>2
          <6>2. i # 1 => i - 1 \in 1 .. m - 1 /\ h[i - 1] = g[i - 1]
            BY <6>1
          <6> QED BY <4>2, <6>1, <6>2 DEF Flat
        <5> QED BY <5>1, <5>2
      <4>4. Flat(h, m)
        BY <4>3 DEF Flat
      <4> QED BY <3>1, <4>4
    <3> QED BY <3>2, <3>3
  <2>2. Flat(F, n)
    <3>1. \E f : Flat(f, n)
      BY <1>3, <2>1
    <3> QED BY <3>1
  <2>3. FlattenSeq(s) = F[n]
    BY <1>1, <1>3 DEF FlattenSeq, Flat
  <2> HIDE DEF F
  <2> DEFINE Odd == {m \in 1 .. n : F[m] \notin Seq(S)}
  <2>4. Odd = {}
    <3> SUFFICES ASSUME Odd # {} PROVE FALSE OBVIOUS
    <3>0. Odd \subseteq Nat
      OBVIOUS
    <3>1. PICK m \in Odd : \A y \in Odd : m <= y
      <4> HIDE DEF Odd
      <4> QED BY <3>0, MinIs
    <3>2. m # 1 => m - 1 \in 1 .. n /\ F[m - 1] \in Seq(S)
      BY <3>1
    <3>3. F[m] = IF m = 1 THEN s[m] ELSE F[m - 1] \o s[m]
      BY <2>2 DEF Flat
    <3>4. F[m] \in Seq(S)
      BY <3>2, <3>3
    <3> QED BY <3>4
  <2> QED BY <1>3, <2>3, <2>4
<1> QED BY <1>2, <1>3

(* Steps of the running system *)

LEMMA RecsKept ==
  ASSUME DiskInv, NEW l, Len(l) = Len(lwb), l = [b \in 1 .. Len(lwb) |-> l[b]],
         \A b \in 1 .. Len(lwb) : l[b].recs = lwb[b].recs \/ l[b].recs \in Seq(Itxs)
  PROVE  RecsOk(l)
BY DEF DiskInv, RecsOk

(* The lwbs are changed and nothing else.                                  *)
LEMMA LwbRecs ==
  ASSUME DiskInv, RecsOk(lwb'), Len(lwb') = Len(lwb),
         UNCHANGED <<disk, zh_log, zh_syncing>>
  PROVE  DiskInv'
BY DEF DiskInv

(* One lwb is changed, and what was recorded in it kept.                   *)
LEMMA OneRecs ==
  ASSUME DiskInv, LwbInv, NEW b, NEW r, lwb' = [lwb EXCEPT ![b] = r],
         b \in 1 .. Len(lwb) => r.recs = lwb[b].recs \/ r.recs \in Seq(Itxs)
  PROVE  RecsOk(lwb') /\ Len(lwb') = Len(lwb)
<1>1. /\ lwb' = [c \in 1 .. Len(lwb) |-> lwb'[c]] /\ Len(lwb) \in Nat
      /\ \A c \in 1 .. Len(lwb) : lwb'[c] = IF c = b THEN r ELSE lwb[c]
  BY DEF DiskInv, RecsOk
<1>2. Len(lwb') = Len(lwb)
  BY <1>1, AppendIs
<1> QED BY <1>1, <1>2, RecsKept

LEMMA AllocRecs ==
  ASSUME DiskInv, NEW l, NEW f, RecsOk(l), RecsOk(f), Len(l) = Len(lwb), Len(f) = Len(lwb),
         AllocZil(l, f), UNCHANGED <<zh_log, zh_syncing>>
  PROVE  DiskInv'
<1>1. CASE \E v \in Vdevs : lwb' = Append(l, Fresh(open, v)) /\ disk' = Append(disk, NoBlock)
  <2>1. PICK v \in Vdevs : lwb' = Append(l, Fresh(open, v)) /\ disk' = Append(disk, NoBlock)
    BY <1>1
  <2> DEFINE n == Len(lwb)
  <2>2. n \in Nat /\ l = [b \in 1 .. n |-> l[b]] /\ disk = [b \in 1 .. n |-> disk[b]]
    BY DEF DiskInv, RecsOk
  <2>3. /\ Len(lwb') = n + 1
        /\ lwb' = [b \in 1 .. n + 1 |-> IF b = n + 1 THEN Fresh(open, v) ELSE l[b]]
    BY <2>1, <2>2, AppendIs
  <2>4. disk' = [b \in 1 .. n + 1 |-> IF b = n + 1 THEN NoBlock ELSE disk[b]]
    BY <2>1, <2>2, AppendIs
  <2>5. Fresh(open, v).recs \in Seq(Itxs)
    BY DEF Fresh, NoLwb
  <2>6. RecsOk(lwb')
    BY <2>2, <2>3, <2>5 DEF RecsOk
  <2>7. BlockOk(NoBlock)
    BY DEF BlockOk, NoBlock
  <2>8. /\ disk' = [b \in 1 .. n + 1 |-> disk'[b]]
        /\ \A b \in 1 .. n + 1 : BlockOk(disk'[b])
    <3>1. \A b \in 1 .. n + 1 : b # n + 1 => b \in 1 .. n
      BY <2>2
    <3> QED BY <2>4, <2>7, <3>1 DEF DiskInv
  <2>9. zh_log' \in 0 .. n + 1 /\ zh_syncing' \in 0 .. n + 1
    BY <2>2 DEF DiskInv
  <2> QED BY <2>3, <2>6, <2>8, <2>9 DEF DiskInv
<1>2. CASE lwb' = f /\ UNCHANGED disk
  BY <1>2, LwbRecs
<1> QED BY <1>1, <1>2 DEF AllocZil

LEMMA OpenedRecs ==
  ASSUME LwbInv, NEW b
  PROVE  \E r : /\ Opened(b) = [lwb EXCEPT ![b] = r]
                /\ b \in 1 .. Len(lwb) => /\ r = [f \in LwbFields |-> r[f]]
                                          /\ r.recs = lwb[b].recs
<1>0. lwb = [c \in 1 .. Len(lwb) |-> lwb[c]]
      /\ \A c \in 1 .. Len(lwb) : lwb[c] = [f \in LwbFields |-> lwb[c][f]]
  BY DEF LwbInv, LwbOk
<1>1. CASE lwb[b].state = "OPENED"
  <2>1. Opened(b) = [lwb EXCEPT ![b] = lwb[b]]
    BY <1>0, <1>1 DEF Opened
  <2> QED BY <1>0, <2>1
<1>2. CASE lwb[b].state # "OPENED"
  <2> DEFINE r == [lwb[b] EXCEPT !.state = "OPENED", !.write_after = WriteAfter(last_opened),
                                 !.root_after = RootAfter(last_opened)]
  <2>1. Opened(b) = [lwb EXCEPT ![b] = r]
    BY <1>0, <1>2 DEF Opened
  <2>2. b \in 1 .. Len(lwb) => r = [f \in LwbFields |-> r[f]] /\ r.recs = lwb[b].recs
    BY <1>0 DEF LwbFields
  <2> QED BY <2>1, <2>2
<1> QED BY <1>1, <1>2

(* Steps that leave the blocks alone.                                      *)
LogQuiet == UNCHANGED <<lwb, disk, zh_log, zh_syncing>>

LEMMA DiskFrame ==
  ASSUME DiskInv, LogQuiet
  PROVE  DiskInv'
BY DEF DiskInv, LogQuiet, RecsOk

LEMMA QuietSteps ==
  ASSUME NEW th,
         \/ Write(th) \/ Commit(th) \/ LogItx(th) \/ AsyncToSync(th)
         \/ TxAssign(th, "commit", "commit_itx") \/ CommitItx(th) \/ Writer(th)
         \/ GetCommitList(th) \/ PruneEnd(th) \/ ProcessEnd(th) \/ WaiterTimeout(th)
         \/ TimeoutLate(th) \/ Return(th) \/ Synced(th) \/ OpenNext \/ ZilClean \/ UbSync
         \/ ItxgClean
  PROVE  LogQuiet
<1> USE DEF LogQuiet, poolVars, lwbVars
<1>1. CASE Write(th) \/ Commit(th) \/ LogItx(th) \/ AsyncToSync(th)
           \/ TxAssign(th, "commit", "commit_itx") \/ CommitItx(th)
  <2>1. CASE Write(th) \/ Commit(th) \/ TxAssign(th, "commit", "commit_itx")
    BY <2>1 DEF Write, Commit, TxAssign
  <2>2. CASE LogItx(th) \/ CommitItx(th)
    BY <2>2 DEF LogItx, CommitItx
  <2>3. CASE AsyncToSync(th)
    BY <2>3 DEF AsyncToSync
  <2> QED BY <1>1, <2>1, <2>2, <2>3
<1>2. CASE Writer(th) \/ GetCommitList(th) \/ PruneEnd(th) \/ ProcessEnd(th)
           \/ WaiterTimeout(th) \/ TimeoutLate(th) \/ Return(th)
  BY <1>2 DEF Writer, GetCommitList, PruneEnd, ProcessEnd, WaiterTimeout, TimeoutLate, Return
<1>3. CASE Synced(th)
  BY <1>3 DEF Synced
<1>4. CASE OpenNext \/ ZilClean \/ UbSync \/ ItxgClean
  BY <1>4 DEF OpenNext, ZilClean, UbSync, ItxgClean
<1> QED BY <1>1, <1>2, <1>3, <1>4

LEMMA PruneRecs ==
  ASSUME RunInv, DiskInv, NEW th, PruneCommit(th)
  PROVE  DiskInv'
<1>1. UNCHANGED <<disk, zh_log, zh_syncing>> /\ LwbInv
  BY DEF PruneCommit, poolVars, RunInv
<1>2. CASE UNCHANGED lwb
  BY <1>1, <1>2, DiskFrame DEF LogQuiet
<1>3. CASE lwb' = Linked(lwb, last_opened, Head(commit_list).by)
  <2> DEFINE b == last_opened
             r == [lwb[b] EXCEPT !.waiters = @ \cup {Head(commit_list).by}]
  <2>1. lwb' = [lwb EXCEPT ![b] = r]
    BY <1>3 DEF Linked
  <2>2. b \in 1 .. Len(lwb) => r.recs = lwb[b].recs
    BY <1>1 DEF LwbInv, LwbOk, LwbFields
  <2> QED BY <1>1, <2>1, <2>2, OneRecs, LwbRecs
<1> QED BY <1>1, <1>2, <1>3 DEF PruneCommit

LEMMA CreateRecs ==
  ASSUME RunInv, DiskInv, NEW th, Create(th) \/ CreateKept(th)
  PROVE  DiskInv'
<1>1. CASE Create(th)
  BY <1>1, AllocRecs DEF Create, DiskInv
<1>2. CASE CreateKept(th)
  <2>1. PICK v \in Vdevs : lwb' = [lwb EXCEPT ![zh_syncing] = Fresh(0, v)]
    BY <1>2 DEF CreateKept
  <2>2. Fresh(0, v).recs \in Seq(Itxs) /\ LwbInv
    BY DEF Fresh, NoLwb, RunInv
  <2>3. UNCHANGED <<disk, zh_log, zh_syncing>>
    BY <1>2 DEF CreateKept, poolVars
  <2> QED BY <2>1, <2>2, <2>3, OneRecs, LwbRecs
<1> QED BY <1>1, <1>2

LEMMA IssueRecs ==
  ASSUME LwbInv, DiskInv, NEW b, WriteIssue(b), UNCHANGED <<zh_log, zh_syncing>>
  PROVE  DiskInv'
<1> DEFINE issued == [lwb EXCEPT ![b].state = "ISSUED", ![b].tx = open,
                                 ![b].tree = @ \cup {lwb[b].vdev}]
           r == [lwb[b] EXCEPT !.state = "ISSUED", !.tx = open,
                               !.tree = @ \cup {lwb[b].vdev}]
           l == [issued EXCEPT ![b].next = Len(lwb) + 1]
           s == [r EXCEPT !.next = Len(lwb) + 1]
<1>0. lwb = [c \in 1 .. Len(lwb) |-> lwb[c]] /\ Len(lwb) \in Nat
      /\ \A c \in 1 .. Len(lwb) : lwb[c] = [f \in LwbFields |-> lwb[c][f]]
  BY DEF LwbInv, LwbOk
<1>1. issued = [lwb EXCEPT ![b] = r] /\ l = [lwb EXCEPT ![b] = s]
  BY <1>0
<1>2. b \in 1 .. Len(lwb) => r.recs = lwb[b].recs /\ s.recs = lwb[b].recs
  BY <1>0 DEF LwbFields
<1>3. AllocZil(l, issued)
  BY DEF WriteIssue
<1> HIDE DEF r, s
<1>4. /\ issued = [c \in 1 .. Len(lwb) |-> issued[c]]
      /\ \A c \in 1 .. Len(lwb) : issued[c].recs = lwb[c].recs
  BY <1>0, <1>1, <1>2
<1>5. /\ l = [c \in 1 .. Len(lwb) |-> l[c]]
      /\ \A c \in 1 .. Len(lwb) : l[c].recs = lwb[c].recs
  BY <1>0, <1>1, <1>2
<1> HIDE DEF issued, l
<1>6. Len(issued) = Len(lwb) /\ Len(l) = Len(lwb)
  BY <1>0, <1>4, <1>5, AppendIs
<1>7. RecsOk(issued) /\ RecsOk(l)
  BY <1>4, <1>5, <1>6, RecsKept
<1> QED BY <1>3, <1>6, <1>7, AllocRecs

LEMMA ProcessRecs ==
  ASSUME RunInv, DiskInv, NEW th \in Threads,
         ProcessCommit(th) \/ ProcessRecord(th) \/ ProcessEIO(th) \/ ProcessGone(th)
  PROVE  DiskInv'
<1>1. UNCHANGED <<disk, zh_log, zh_syncing>> /\ LwbInv
  BY DEF ProcessCommit, ProcessRecord, ProcessEIO, ProcessGone, poolVars, RunInv
<1>2. commit_list # <<>> /\ Head(commit_list) \in Itxs
  <2>1. commit_list # <<>>
    BY DEF ProcessCommit, ProcessRecord, ProcessEIO, ProcessGone, HasRoom
  <2> QED BY <2>1 DEF RunInv, QueueInv, UpTo
<1>3. PICK r : /\ Opened(cur) = [lwb EXCEPT ![cur] = r]
               /\ cur \in 1 .. Len(lwb) => /\ r = [f \in LwbFields |-> r[f]]
                                           /\ r.recs = lwb[cur].recs
  BY <1>1, OpenedRecs
<1> DEFINE itx == Head(commit_list)
           linked == [r EXCEPT !.waiters = @ \cup {itx.by}]
           filled == [r EXCEPT !.recs = Append(@, itx),
                               !.max_txg = IF itx.txg > @ THEN itx.txg ELSE @]
<1>4. \/ UNCHANGED lwb
      \/ lwb' = Linked(Opened(cur), cur, itx.by)
      \/ lwb' = Opened(cur)
      \/ lwb' = [Opened(cur) EXCEPT ![cur].recs = Append(@, itx),
                                    ![cur].max_txg = IF itx.txg > @ THEN itx.txg ELSE @]
  BY DEF ProcessCommit, ProcessRecord, ProcessEIO, ProcessGone
<1>5. \/ UNCHANGED lwb
      \/ lwb' = [lwb EXCEPT ![cur] = linked]
      \/ lwb' = [lwb EXCEPT ![cur] = r]
      \/ lwb' = [lwb EXCEPT ![cur] = filled]
  <2>1. lwb = [c \in 1 .. Len(lwb) |-> lwb[c]]
    BY <1>1 DEF LwbInv
  <2>2. Linked([lwb EXCEPT ![cur] = r], cur, itx.by) = [lwb EXCEPT ![cur] = linked]
    BY <2>1 DEF Linked
  <2>3. [[lwb EXCEPT ![cur] = r] EXCEPT
            ![cur].recs = Append(@, itx),
            ![cur].max_txg = IF itx.txg > @ THEN itx.txg ELSE @] = [lwb EXCEPT ![cur] = filled]
    BY <2>1
  <2> QED BY <1>3, <1>4, <2>2, <2>3
<1>6. cur \in 1 .. Len(lwb) =>
        /\ linked.recs = lwb[cur].recs /\ r.recs = lwb[cur].recs
        /\ filled.recs = Append(lwb[cur].recs, itx)
        /\ Append(lwb[cur].recs, itx) \in Seq(Itxs)
  BY <1>2, <1>3 DEF LwbFields, DiskInv, RecsOk
<1> HIDE DEF linked, filled
<1>7. CASE UNCHANGED lwb
  BY <1>1, <1>7, DiskFrame DEF LogQuiet
<1>8. CASE lwb' = [lwb EXCEPT ![cur] = linked]
  BY <1>1, <1>6, <1>8, OneRecs, LwbRecs
<1>9. CASE lwb' = [lwb EXCEPT ![cur] = r]
  BY <1>1, <1>6, <1>9, OneRecs, LwbRecs
<1>10. CASE lwb' = [lwb EXCEPT ![cur] = filled]
  BY <1>1, <1>6, <1>10, OneRecs, LwbRecs
<1> QED BY <1>5, <1>7, <1>8, <1>9, <1>10

LEMMA FullRecs ==
  ASSUME RunInv, DiskInv, NEW th \in Threads, ProcessFull(th) \/ TimeoutIssue(th)
  PROVE  DiskInv'
<1>1. LwbInv /\ UNCHANGED <<zh_log, zh_syncing>>
  BY DEF RunInv, ProcessFull, TimeoutIssue
<1>2. \E b : WriteIssue(b)
  BY DEF ProcessFull, TimeoutIssue
<1> QED BY <1>1, <1>2, IssueRecs

(* The blocks on disk are changed and nothing else.                        *)
LEMMA DiskRecs ==
  ASSUME DiskInv, RecsOk(lwb'), Len(lwb') = Len(lwb),
         disk' = [b \in 1 .. Len(lwb) |-> disk'[b]],
         \A b \in 1 .. Len(lwb) : BlockOk(disk'[b]),
         zh_log' \in {zh_log, zh_syncing}, UNCHANGED zh_syncing
  PROVE  DiskInv'
BY DEF DiskInv

LEMMA WrittenOk ==
  ASSUME DiskInv, NEW b \in 1 .. Len(lwb), NEW d, BlockOk(d), NEW w
  PROVE  /\ BlockOk(Written(b)) /\ BlockOk([d EXCEPT !.at = w])
         /\ BlockOk([Written(b) EXCEPT !.at = w])
<1>1. \A e : BlockOk(e) => BlockOk([e EXCEPT !.at = w])
  BY DEF BlockOk
<1>2. BlockOk(Written(b))
  BY DEF Written, BlockOk, DiskInv, RecsOk
<1> QED BY <1>1, <1>2

(* A flush, one that fails or one that never comes leaves the records of a *)
(* block alone, and only what was in a cache is any different.             *)
FlushMoves(d, e) ==
    \/ e = d
    \/ d.at \in Cached /\ \E w : e = [d EXCEPT !.at = w]

LEMMA FlushDisk ==
  ASSUME DiskInv, NEW b, FlushVdevs(b)
  PROVE  /\ disk' = [c \in 1 .. Len(lwb) |-> disk'[c]]
         /\ \A c \in 1 .. Len(lwb) : BlockOk(disk'[c]) /\ FlushMoves(disk[c], disk'[c])
<1>1. Blocks = 1 .. Len(lwb)
  BY DEF Blocks, DiskInv, RecsOk
<1>2. /\ disk = [c \in 1 .. Len(lwb) |-> disk[c]]
      /\ \A c \in 1 .. Len(lwb) : BlockOk(disk[c])
  BY DEF DiskInv
<1>3. PICK v : \/ disk' = disk
               \/ disk' = Unflushed(disk, b, v)
               \/ \E ok : disk' = Unflushed(Flushed(ok), b, v)
  BY DEF FlushVdevs
<1>4. CASE disk' = disk
  BY <1>2, <1>4 DEF FlushMoves
<1>5. CASE disk' = Unflushed(disk, b, v)
  <2>1. /\ disk' = [c \in 1 .. Len(lwb) |-> disk'[c]]
        /\ \A c \in 1 .. Len(lwb) :
              \/ disk'[c] = disk[c]
              \/ disk[c].at = "cache" /\ disk'[c] = [disk[c] EXCEPT !.at = "unflushed"]
    BY <1>1, <1>5 DEF Unflushed
  <2> QED BY <1>2, <2>1 DEF FlushMoves, Cached, BlockOk
<1>6. ASSUME NEW ok, disk' = Unflushed(Flushed(ok), b, v)
      PROVE  /\ disk' = [c \in 1 .. Len(lwb) |-> disk'[c]]
             /\ \A c \in 1 .. Len(lwb) : BlockOk(disk'[c]) /\ FlushMoves(disk[c], disk'[c])
  <2>1. PICK f : f = Flushed(ok)
    OBVIOUS
  <2>2. \A c \in 1 .. Len(lwb) :
          \/ f[c] = disk[c]
          \/ disk[c].at \in Cached /\ f[c] = [disk[c] EXCEPT !.at = "stable"]
    BY <1>1, <2>1 DEF Flushed
  <2>3. /\ disk' = [c \in 1 .. Len(lwb) |-> disk'[c]]
        /\ \A c \in 1 .. Len(lwb) :
              \/ disk'[c] = f[c]
              \/ f[c].at = "cache" /\ disk'[c] = [f[c] EXCEPT !.at = "unflushed"]
    BY <1>1, <1>6, <2>1 DEF Unflushed
  <2>4. \A c \in 1 .. Len(lwb) : [disk[c] EXCEPT !.at = "stable"].at = "stable"
    BY <1>2 DEF BlockOk
  <2>5. \A c \in 1 .. Len(lwb) :
          \/ disk'[c] = disk[c]
          \/ disk[c].at \in Cached /\ \E w : disk'[c] = [disk[c] EXCEPT !.at = w]
    <3> TAKE c \in 1 .. Len(lwb)
    <3>1. CASE f[c] = disk[c]
      BY <2>3, <3>1 DEF Cached
    <3>2. CASE f[c] = [disk[c] EXCEPT !.at = "stable"] /\ disk[c].at \in Cached
      <4>1. f[c].at # "cache"
        BY <2>4, <3>2
      <4>2. disk'[c] = f[c]
        BY <2>3, <4>1
      <4> QED BY <3>2, <4>2
    <3> QED BY <2>2, <3>1, <3>2
  <2>6. \A c \in 1 .. Len(lwb) : \A w : BlockOk([disk[c] EXCEPT !.at = w])
    BY <1>2 DEF BlockOk
  <2>7. \A c \in 1 .. Len(lwb) : FlushMoves(disk[c], disk'[c])
    BY <2>5 DEF FlushMoves
  <2>8. \A c \in 1 .. Len(lwb) : BlockOk(disk'[c])
    <3> TAKE c \in 1 .. Len(lwb)
    <3>1. CASE disk'[c] = disk[c]
      BY <1>2, <3>1
    <3>2. CASE \E w : disk'[c] = [disk[c] EXCEPT !.at = w]
      BY <2>6, <3>2
    <3> QED BY <2>5, <3>1, <3>2
  <2> QED BY <2>3, <2>7, <2>8
<1> QED BY <1>3, <1>4, <1>5, <1>6

LEMMA ZioRecs ==
  ASSUME RunInv, DiskInv, ZioStep
  PROVE  DiskInv'
<1>0. /\ LwbInv /\ Blocks = 1 .. Len(lwb) /\ Len(lwb) \in Nat
      /\ lwb = [c \in 1 .. Len(lwb) |-> lwb[c]]
      /\ \A c \in 1 .. Len(lwb) : lwb[c] = [f \in LwbFields |-> lwb[c][f]]
  BY DEF RunInv, LwbInv, LwbOk, Blocks
<1>1. PICK b \in 1 .. Len(lwb) : WriteDone(b) \/ FlushVdevs(b) \/ FlushVdevsDone(b)
  BY <1>0 DEF ZioStep
<1>2. CASE WriteDone(b)
  <2>1. PICK error \in BOOLEAN :
          /\ lwb' = [lwb EXCEPT ![b].state = "WRITE_DONE", ![b].cb = "flush",
                                ![b].error = error]
          /\ \/ disk' = [disk EXCEPT ![b] = [Written(b) EXCEPT !.at = "failed"]]
             \/ disk' = [disk EXCEPT ![b] = Written(b)]
    BY <1>2 DEF WriteDone
  <2>2. UNCHANGED <<zh_log, zh_syncing>>
    BY <1>2 DEF WriteDone, poolVars
  <2> DEFINE r == [lwb[b] EXCEPT !.state = "WRITE_DONE", !.cb = "flush", !.error = error]
  <2>3. lwb' = [lwb EXCEPT ![b] = r]
    BY <2>1
  <2>4. r.recs = lwb[b].recs
    BY <1>0 DEF LwbFields
  <2>5. RecsOk(lwb') /\ Len(lwb') = Len(lwb)
    BY <1>0, <2>3, <2>4, OneRecs
  <2>6. BlockOk([Written(b) EXCEPT !.at = "failed"]) /\ BlockOk(Written(b))
    <3>1. BlockOk(NoBlock)
      BY DEF BlockOk, NoBlock
    <3> QED BY <3>1, WrittenOk
  <2>7. /\ disk' = [c \in 1 .. Len(lwb) |-> disk'[c]]
        /\ \A c \in 1 .. Len(lwb) : BlockOk(disk'[c])
    <3>1. disk = [c \in 1 .. Len(lwb) |-> disk[c]] /\ \A c \in 1 .. Len(lwb) : BlockOk(disk[c])
      BY DEF DiskInv
    <3> QED BY <2>1, <2>6, <3>1
  <2> QED BY <2>2, <2>5, <2>7, DiskRecs
<1>3. CASE FlushVdevs(b)
  <2> DEFINE over == [lwb EXCEPT ![b].cb = "over", ![b].tree = {}]
  <2>1. lwb' = over \/ lwb' = [over EXCEPT ![b + 1].tree = @ \cup lwb[b].tree]
    BY <1>3 DEF FlushVdevs
  <2>2. UNCHANGED <<zh_log, zh_syncing>>
    BY <1>3 DEF FlushVdevs, poolVars
  <2>3. /\ over = [c \in 1 .. Len(lwb) |-> over[c]]
        /\ \A c \in 1 .. Len(lwb) : /\ over[c].recs = lwb[c].recs
                                    /\ over[c] = [f \in LwbFields |-> over[c][f]]
    BY <1>0 DEF LwbFields
  <2> HIDE DEF over
  <2>4. /\ lwb' = [c \in 1 .. Len(lwb) |-> lwb'[c]]
        /\ \A c \in 1 .. Len(lwb) : lwb'[c].recs = lwb[c].recs
    <3>1. CASE lwb' = over
      BY <2>3, <3>1
    <3>2. CASE lwb' = [over EXCEPT ![b + 1].tree = @ \cup lwb[b].tree]
      <4>1. \A c \in 1 .. Len(lwb) :
              lwb'[c] = IF c = b + 1 THEN [over[c] EXCEPT !.tree = @ \cup lwb[b].tree]
                        ELSE over[c]
        BY <2>3, <3>2
      <4>2. \A c \in 1 .. Len(lwb) :
              [over[c] EXCEPT !.tree = @ \cup lwb[b].tree].recs = over[c].recs
        BY <2>3 DEF LwbFields
      <4>3. lwb' = [c \in 1 .. Len(lwb) |-> lwb'[c]]
        BY <2>3, <3>2
      <4> QED BY <2>3, <4>1, <4>2, <4>3
    <3> QED BY <2>1, <3>1, <3>2
  <2>5. Len(lwb') = Len(lwb)
    BY <1>0, <2>4, AppendIs
  <2>6. RecsOk(lwb')
    BY <2>4, <2>5, RecsKept
  <2>7. /\ disk' = [c \in 1 .. Len(lwb) |-> disk'[c]]
        /\ \A c \in 1 .. Len(lwb) : BlockOk(disk'[c])
    BY <1>3, FlushDisk
  <2> QED BY <2>2, <2>5, <2>6, <2>7, DiskRecs
<1>4. CASE FlushVdevsDone(b)
  <2> DEFINE r == [lwb[b] EXCEPT !.state = "FLUSH_DONE", !.buf = FALSE, !.tx = 0,
                                 !.waiters = {}]
  <2>1. lwb' = [lwb EXCEPT ![b] = r]
    BY <1>4 DEF FlushVdevsDone
  <2>2. r.recs = lwb[b].recs
    BY <1>0 DEF LwbFields
  <2>3. UNCHANGED <<disk, zh_log, zh_syncing>>
    BY <1>4 DEF FlushVdevsDone, poolVars
  <2> QED BY <1>0, <2>1, <2>2, <2>3, OneRecs, LwbRecs
<1> QED BY <1>1, <1>2, <1>3, <1>4

LEMMA SyncRecs ==
  ASSUME DiskInv, LwbInv', ZilSync
  PROVE  DiskInv'
<1>0. Blocks = 1 .. Len(lwb) /\ Len(lwb) \in Nat
  BY DEF Blocks, DiskInv, RecsOk
<1>1. UNCHANGED <<disk, zh_log>>
  BY DEF ZilSync
<1>2. PICK gone : lwb' = [b \in Blocks |-> IF b \in gone THEN NoLwb ELSE lwb[b]] \/ lwb' = lwb
  BY Zenon DEF ZilSync
<1>3. NoLwb.recs \in Seq(Itxs)
  BY DEF NoLwb
<1>4. /\ lwb' = [b \in 1 .. Len(lwb) |-> lwb'[b]]
      /\ \A b \in 1 .. Len(lwb) : lwb'[b].recs = lwb[b].recs \/ lwb'[b].recs \in Seq(Itxs)
  BY <1>0, <1>2, <1>3 DEF DiskInv, RecsOk
<1>5. Len(lwb') = Len(lwb)
  BY <1>0, <1>4, AppendIs
<1>6. RecsOk(lwb')
  BY <1>4, <1>5, RecsKept
<1> QED BY <1>1, <1>5, <1>6 DEF DiskInv, LwbInv

LEMMA SyncDoneRecs ==
  ASSUME DiskInv, SyncDone
  PROVE  DiskInv'
<1>0. Blocks = 1 .. Len(lwb)
  BY DEF Blocks, DiskInv, RecsOk
<1>1. /\ lwb' = lwb /\ zh_log' = zh_syncing /\ zh_syncing' = zh_syncing
      /\ disk' = [b \in 1 .. Len(lwb) |-> IF b \in freed THEN [NoBlock EXCEPT !.at = "reused"]
                                          ELSE disk[b]]
  BY <1>0 DEF SyncDone
<1>2. BlockOk([NoBlock EXCEPT !.at = "reused"])
  BY DEF BlockOk, NoBlock
<1>3. \A b \in 1 .. Len(lwb) : BlockOk(disk'[b])
  BY <1>1, <1>2 DEF DiskInv
<1>4. disk' = [b \in 1 .. Len(lwb) |-> disk'[b]]
  BY <1>1
<1> QED BY <1>1, <1>3, <1>4, DiskRecs DEF DiskInv

LEMMA DiskRunning ==
  ASSUME PoolInv, RunInv, DiskInv, Next
  PROVE  DiskInv'
<1>1. CASE \E th \in Threads : Write(th) \/ Commit(th) \/ ThreadStep(th)
  <2>1. PICK th \in Threads : Write(th) \/ Commit(th) \/ ThreadStep(th)
    BY <1>1
  <2>2. CASE PruneCommit(th) \/ Create(th) \/ CreateKept(th) \/ ProcessCommit(th)
             \/ ProcessFull(th) \/ ProcessRecord(th) \/ ProcessEIO(th) \/ ProcessGone(th)
             \/ TimeoutIssue(th)
    BY <2>2, PruneRecs, CreateRecs, ProcessRecs, FullRecs
  <2>3. CASE ~(PruneCommit(th) \/ Create(th) \/ CreateKept(th) \/ ProcessCommit(th)
               \/ ProcessFull(th) \/ ProcessRecord(th) \/ ProcessEIO(th) \/ ProcessGone(th)
               \/ TimeoutIssue(th))
    BY <2>1, <2>3, QuietSteps, DiskFrame DEF ThreadStep
  <2> QED BY <2>2, <2>3
<1>2. CASE ZioStep
  BY <1>2, ZioRecs
<1>3. CASE SpaStep
  <2>1. LwbInv'
    BY RunningStep DEF RunInv
  <2> QED BY <1>3, <2>1, SyncRecs, SyncDoneRecs, QuietSteps, DiskFrame DEF SpaStep
<1> QED BY <1>1, <1>2, <1>3 DEF Next

(* The blocks after a crash are as good as before.                         *)
LEMMA DiskCrash ==
  ASSUME DiskInv, Crash
  PROVE  DiskInv'
<1>0. Blocks = 1 .. Len(lwb) /\ Len(lwb) \in Nat
  BY DEF Blocks, DiskInv, RecsOk
<1>1. /\ lwb' = [b \in Blocks |-> NoLwb] /\ zh_syncing' = zh_log /\ zh_log' = zh_log
      /\ \E kept \in SUBSET Unsure : disk' = AfterCrash(kept)
  BY Zenon DEF Crash
<1>2. PICK kept \in SUBSET Unsure : disk' = AfterCrash(kept)
  BY <1>1
<1>3. NoLwb.recs \in Seq(Itxs) /\ BlockOk(NoBlock)
  BY DEF NoLwb, NoBlock, BlockOk
<1>4. lwb' = [b \in 1 .. Len(lwb) |-> lwb'[b]] /\ \A b \in 1 .. Len(lwb) : lwb'[b] = NoLwb
  BY <1>0, <1>1
<1>5. Len(lwb') = Len(lwb)
  BY <1>0, <1>4, AppendIs
<1>6. RecsOk(lwb')
  BY <1>3, <1>4, <1>5, RecsKept
<1>7. \A b \in 1 .. Len(lwb) : \/ disk'[b] \in {disk[b], NoBlock}
                               \/ disk'[b] = [disk[b] EXCEPT !.at = "stable"]
                               \/ disk'[b] = [Written(b) EXCEPT !.at = "stable"]
  BY <1>0, <1>2 DEF AfterCrash, Cached
<1>8. \A b \in 1 .. Len(lwb) : BlockOk(disk'[b])
  <2> TAKE b \in 1 .. Len(lwb)
  <2>1. BlockOk(disk[b])
    BY DEF DiskInv
  <2>2. BlockOk([disk[b] EXCEPT !.at = "stable"]) /\ BlockOk([Written(b) EXCEPT !.at = "stable"])
    BY <2>1, WrittenOk
  <2> QED BY <1>3, <1>7, <2>1, <2>2
<1>9. disk' = [b \in 1 .. Len(lwb) |-> disk'[b]]
  BY <1>0, <1>2 DEF AfterCrash, Cached
<1> QED BY <1>1, <1>5, <1>6, <1>8, <1>9 DEF DiskInv

LEMMA DiskInit == ReplayInit => DiskInv
<1> SUFFICES ASSUME ReplayInit PROVE DiskInv OBVIOUS
<1>1. /\ zh_log \in {0, 1} /\ zh_syncing = zh_log /\ lwb = [b \in 1 .. zh_log |-> NoLwb]
      /\ disk = [b \in 1 .. zh_log |-> NoBlock]
  BY ZilAssumption DEF ReplayInit, Init
<1>2. lwb = [b \in 1 .. zh_log |-> lwb[b]] /\ \A b \in 1 .. zh_log : lwb[b] = NoLwb
  BY <1>1
<1>3. Len(lwb) = zh_log
  BY <1>1, <1>2, AppendIs
<1>4. NoLwb.recs \in Seq(Itxs) /\ BlockOk(NoBlock)
  BY DEF NoLwb, NoBlock, BlockOk
<1>5. RecsOk(lwb)
  BY <1>1, <1>2, <1>3, <1>4 DEF RecsOk
<1> QED BY <1>1, <1>3, <1>4, <1>5 DEF DiskInv

LEMMA LogType ==
  ASSUME DiskInv
  PROVE  /\ ReadBlocks \in Nat
         /\ \A n \in 0 .. ReadBlocks : LogOf(n) \in Seq(Itxs)
         /\ LogOf(0) = <<>>
<1> DEFINE k == zh_syncing
<1>0. k \in Nat /\ Len(lwb) \in Nat /\ k <= Len(lwb) /\ Blocks = 1 .. Len(lwb)
  BY DEF DiskInv, RecsOk, Blocks
<1>1. ReadBlocks \in Nat /\ (k = 0 => ReadBlocks = 0) /\ ReadBlocks <= Len(lwb) - k + 1
  <2>1. ChainFrom(k) \subseteq k .. Len(lwb) /\ (k = 0 => ChainFrom(k) = {})
    BY <1>0 DEF ChainFrom
  <2>2. IsFiniteSet(k .. Len(lwb)) /\ Cardinality(k .. Len(lwb)) = Len(lwb) - k + 1
    BY <1>0, FS_Interval
  <2>3. /\ IsFiniteSet(ChainFrom(k))
        /\ Cardinality(ChainFrom(k)) <= Cardinality(k .. Len(lwb))
    BY <2>1, <2>2, FS_Subset
  <2>4. Cardinality(ChainFrom(k)) \in Nat
    BY <2>3, FS_CardinalityType
  <2> QED BY <2>1, <2>2, <2>3, <2>4, FS_EmptySet DEF ReadBlocks
<1>2. ASSUME NEW n \in 0 .. ReadBlocks
      PROVE  LogOf(n) \in Seq(Itxs)
  <2> DEFINE s == [i \in 1 .. n |-> disk[k + i - 1].recs]
  <2>1. n \in Nat
    BY <1>1
  <2>2. \A i \in 1 .. n : s[i] \in Seq(Itxs)
    <3> TAKE i \in 1 .. n
    <3>1. k + i - 1 \in 1 .. Len(lwb)
      BY <1>0, <1>1
    <3> QED BY <3>1 DEF DiskInv, BlockOk
  <2>3. s = [i \in 1 .. n |-> s[i]] /\ LogOf(n) = FlattenSeq(s)
    BY DEF LogOf
  <2> HIDE DEF s
  <2> QED BY <2>1, <2>2, <2>3, FlattenType
<1>3. LogOf(0) = <<>>
  <2> DEFINE s == [i \in 1 .. 0 |-> disk[k + i - 1].recs]
  <2>1. s = <<>> /\ Len(s) = 0
    OBVIOUS
  <2> QED BY <2>1 DEF LogOf, FlattenSeq
<1> QED BY <1>1, <1>2, <1>3

-----------------------------------------------------------------------------
(* The replay.  The entries of fs are in the order of the log and of their *)
(* groups.                                                                 *)
Headers == [claim_txg : Nat, claim_lr_seq : Nat, replay_seq : Nat, needed : BOOLEAN]
Entries == [seq : Nat \ {0}, rec : Itxs, txg : Nat]
RecTypes ==
    /\ hdr \in Headers /\ hdr_disk \in Headers
    /\ at \in Nat /\ wait \in Nat /\ base \in Nat
    /\ replayed_seq \in [0 .. TXG_SIZE - 1 -> Nat]
    /\ destroy \in [txg : Nat, keep_first : BOOLEAN]
    /\ fs \in Seq(Entries)
    /\ base <= synced
FsOrder ==
    /\ \A i \in DOMAIN fs : fs[i].txg <= open /\ fs[i].rec.txg > base
    /\ \A i, j \in DOMAIN fs : i < j => fs[i].seq < fs[j].seq /\ fs[i].txg <= fs[j].txg

(* A header h whose log begins at block first, when group g is synced with *)
(* it: it has the last record replayed up to that group.                   *)
HeaderOk(h, first, g) ==
    /\ h.claim_txg = 0 => h = NoHeader /\ (first # 0 => fs = <<>>)
    /\ h.claim_txg # 0 =>
        /\ h.claim_txg > base
        /\ ~h.needed => h.claim_lr_seq = 0
        /\ \A i \in DOMAIN fs :
            /\ fs[i].seq <= h.claim_lr_seq
            /\ fs[i].txg <= g => fs[i].seq <= h.replay_seq
        /\ h.replay_seq # 0 =>
            \E i \in DOMAIN fs : fs[i].txg <= g /\ fs[i].seq = h.replay_seq
    /\ first = 0 /\ "cleared" \notin lost => h.claim_txg = 0

(* What the steps of the recovery have done so far.                        *)
ReplayOk ==
    /\ hdr.claim_txg = 0 => replayed_seq = NoneReplayed
    /\ hdr.claim_txg # 0 =>
        \A i \in DOMAIN fs :
            /\ fs[i].seq <= at \/ fs[i].seq <= hdr.replay_seq
            /\ Syncing < fs[i].txg => /\ fs[i].txg \in dirty
                                      /\ fs[i].seq <= replayed_seq[Slot(fs[i].txg)]
    /\ \A s \in 0 .. TXG_SIZE - 1 : replayed_seq[s] # 0 =>
        \E i \in DOMAIN fs : /\ Slot(fs[i].txg) = s /\ Syncing < fs[i].txg
                             /\ fs[i].seq = replayed_seq[s]
    /\ hdr.claim_txg # 0 /\ hdr_disk.claim_txg # 0 =>
            hdr.claim_lr_seq = hdr_disk.claim_lr_seq
    /\ hdr.claim_txg # 0 /\ hdr_disk.claim_txg = 0 =>
            phase = "load_wait" /\ synced < wait /\ fs = <<>>
DestroyOk ==
    /\ destroy.txg # 0 =>
        /\ hdr.claim_txg = 0 \/ (Syncing < destroy.txg /\ destroy.txg \in dirty)
        /\ destroy.keep_first => fs = <<>>
    /\ phase = "destroy_wait" => destroy.txg # 0
    /\ phase = "mounted" => \/ destroy.txg # 0 \/ hdr.claim_txg = 0
                            \/ "cleared" \in lost
    /\ phase \notin {"destroy_wait", "mounted"} => destroy = NoDestroy
PhaseOk ==
    /\ phase \in {"running", "down"} => hdr = hdr_disk /\ replayed_seq = NoneReplayed
    /\ phase = "running" => hdr = NoHeader /\ fs = <<>> /\ base = 0

RecInv ==
    /\ RecTypes /\ FsOrder
    /\ HeaderOk(hdr, zh_syncing, Syncing) /\ HeaderOk(hdr_disk, zh_log, synced)
    /\ ReplayOk /\ DestroyOk /\ PhaseOk

LEMMA MaxIs ==
  ASSUME NEW S, NEW m \in S, S \subseteq Nat, \A y \in S : y <= m
  PROVE  Max(S) = m
<1>1. \A x \in S : (\A y \in S : x >= y) => x = m
  BY SMT
<1>2. \A y \in S : m >= y
  OBVIOUS
<1> QED BY <1>1, <1>2 DEF Max

LEMMA EntryTypes ==
  ASSUME RecTypes
  PROVE  /\ Len(fs) \in Nat /\ DOMAIN fs = 1 .. Len(fs)
         /\ \A i \in DOMAIN fs : /\ fs[i] \in Entries /\ fs[i].seq \in Nat /\ fs[i].seq > 0
                                 /\ fs[i].txg \in Nat /\ fs[i].rec.txg \in Nat
<1>1. Len(fs) \in Nat /\ DOMAIN fs = 1 .. Len(fs) /\ \A i \in DOMAIN fs : fs[i] \in Entries
  BY DEF RecTypes
<1>2. \A e \in Entries : e.seq \in Nat /\ e.seq > 0 /\ e.txg \in Nat /\ e.rec.txg \in Nat
  BY DEF Entries, Itxs
<1> QED BY <1>1, <1>2

(* The properties follow.                                                  *)
LEMMA RecReplayedOnce == RecInv => ReplayedOnce
BY DEF RecInv, FsOrder, HeaderOk, ReplayedOnce

LEMMA RecHeaderMatches == PoolInv /\ RecInv => HeaderMatches
<1> SUFFICES ASSUME PoolInv, RecInv PROVE HeaderMatches OBVIOUS
<1>1. ASSUME hdr_disk.claim_txg # 0
      PROVE  hdr_disk.replay_seq = Max({0} \cup {fs[i].seq : i \in
                                      {j \in DOMAIN fs : fs[j].txg <= synced}})
  <2> DEFINE S == {0} \cup {fs[i].seq : i \in {j \in DOMAIN fs : fs[j].txg <= synced}}
  <2>1. hdr_disk.replay_seq \in Nat /\ \A i \in DOMAIN fs : fs[i].seq \in Nat
    BY EntryTypes DEF RecInv, RecTypes, Headers
  <2>2. hdr_disk.replay_seq \in S /\ \A y \in S : y <= hdr_disk.replay_seq
    BY <1>1, <2>1 DEF RecInv, HeaderOk
  <2>3. S \subseteq Nat
    BY <2>1
  <2> HIDE DEF S
  <2>4. Max(S) = hdr_disk.replay_seq
    BY <2>2, <2>3, MaxIs
  <2> QED BY <2>4 DEF S
<1>2. ASSUME phase = "mounted", LastSynced >= destroy.txg, "cleared" \notin lost
      PROVE  hdr.claim_txg = 0 /\ hdr.replay_seq = 0
  <2>1. LastSynced <= Syncing /\ LastSynced \in Int /\ Syncing \in Int /\ destroy.txg \in Nat
    BY DEF PoolInv, LastSynced, Syncing, RecInv, RecTypes
  <2>2. hdr.claim_txg = 0
    BY <1>2, <2>1 DEF RecInv, DestroyOk
  <2> QED BY <2>2 DEF RecInv, HeaderOk, NoHeader
<1> QED BY <1>1, <1>2 DEF HeaderMatches

LEMMA RecInit == ReplayInit => RecInv
<1> SUFFICES ASSUME ReplayInit PROVE RecInv OBVIOUS
<1> USE DEF ReplayInit, Init, NoHeader, NoneReplayed, NoDestroy, TXG0
<1>1. fs = <<>> /\ DOMAIN fs = {} /\ fs \in Seq(Entries)
  OBVIOUS
<1>2. RecTypes
  BY <1>1 DEF RecTypes, Headers, TXG_SIZE
<1>3. \A g, f : HeaderOk(NoHeader, f, g)
  BY <1>1 DEF HeaderOk
<1>4. FsOrder /\ ReplayOk /\ DestroyOk /\ PhaseOk
  BY <1>1 DEF FsOrder, ReplayOk, DestroyOk, PhaseOk
<1> QED BY <1>2, <1>3, <1>4 DEF RecInv

-----------------------------------------------------------------------------
(* Steps that keep what was replayed and both headers.                     *)
ReplayKept == UNCHANGED <<hdr, hdr_disk, replayed_seq, fs, base, synced, zh_log, zh_syncing>>

LEMMA RecFrame ==
  ASSUME PoolInv, RecInv, ReplayKept, Syncing' = Syncing,
         open' \in Nat, open <= open', dirty \subseteq dirty', at' \in Nat, at <= at',
         wait' \in Nat, lost \subseteq lost', destroy' \in [txg : Nat, keep_first : BOOLEAN],
         hdr.claim_txg # 0 /\ hdr_disk.claim_txg = 0 => phase' = "load_wait" /\ synced < wait',
         DestroyOk', PhaseOk'
  PROVE  RecInv'
<1> USE DEF ReplayKept
<1>0. /\ open \in Nat /\ synced \in Nat /\ Syncing \in Nat
      /\ hdr \in Headers /\ hdr_disk \in Headers /\ at \in Nat
      /\ \A i \in DOMAIN fs : fs[i].txg \in Nat /\ fs[i].seq \in Nat
  BY PoolFacts, EntryTypes DEF RecInv, RecTypes
<1>1. RecTypes'
  BY DEF RecInv, RecTypes
<1>2. FsOrder'
  BY <1>0 DEF RecInv, FsOrder
<1>3. HeaderOk(hdr, zh_syncing, Syncing)' /\ HeaderOk(hdr_disk, zh_log, synced)'
  BY DEF RecInv, HeaderOk
<1>4. ReplayOk'
  <2>1. hdr.claim_txg # 0 => \A i \in DOMAIN fs :
            /\ fs[i].seq <= at' \/ fs[i].seq <= hdr.replay_seq
            /\ Syncing < fs[i].txg => /\ fs[i].txg \in dirty'
                                      /\ fs[i].seq <= replayed_seq[Slot(fs[i].txg)]
    BY <1>0 DEF RecInv, ReplayOk, Headers
  <2> QED BY <2>1 DEF RecInv, ReplayOk
<1> QED BY <1>1, <1>2, <1>3, <1>4 DEF RecInv

LEMMA RecQuiet ==
  ASSUME PoolInv, RecInv,
         ReplaySkip \/ ReplayError \/ ReplayFails \/ ReplayNoObject \/ RetryError
         \/ WaitSynced \/ OpenNextGroup \/ SyncNextGroup
  PROVE  RecInv'
<1> USE DEF vars, poolVars, recoveryVars
<1>1. /\ UNCHANGED <<hdr, hdr_disk, replayed_seq, fs, base, synced, zh_log, zh_syncing>>
      /\ UNCHANGED <<dirty, destroy>>
  BY DEF ReplaySkip, ReplayError, ReplayFails, ReplayNoObject, RetryError,
         WaitSynced, OpenNextGroup, SyncNextGroup,
         ZilClean, UbSync
<1>2. /\ open \in Nat /\ at \in Nat /\ wait \in Nat /\ destroy \in [txg : Nat, keep_first : BOOLEAN]
      /\ synced \in Nat /\ LastSynced <= synced /\ LastSynced \in Int
  BY PoolFacts DEF RecInv, RecTypes, LastSynced
<1>3. Syncing' = Syncing
  BY <1>1 DEF ReplaySkip, ReplayError, ReplayFails, ReplayNoObject, RetryError,
              WaitSynced, OpenNextGroup, SyncNextGroup,
         ZilClean, UbSync, Syncing
<1>0. ReplayFails \/ ReplayNoObject => UNCHANGED <<open, wait>> /\ at' \in {at, at + 1}
  BY DEF ReplayFails, ReplayNoObject
<1>4. open' \in Nat /\ open <= open'
  BY <1>0, <1>2 DEF ReplaySkip, ReplayError, RetryError,
              WaitSynced, OpenNextGroup, SyncNextGroup,
         ZilClean, UbSync
<1>5. at' \in Nat /\ at <= at'
  BY <1>0, <1>2 DEF ReplaySkip, ReplayError, RetryError,
              WaitSynced, OpenNextGroup, SyncNextGroup
<1>6. wait' \in Nat
  BY <1>0, <1>2 DEF ReplaySkip, ReplayError, RetryError,
              WaitSynced, OpenNextGroup, SyncNextGroup,
         Wait, TXG_DEFER_SIZE
<1>7. lost \subseteq lost' /\ (phase' = "mounted" /\ phase # "mounted" => phase = "destroy_wait")
      /\ (phase' = "destroy_wait" => phase = "destroy_wait")
      /\ (phase \in {"destroy_wait", "mounted"} => phase' \in {"destroy_wait", "mounted"})
      /\ phase \notin {"running", "down"} /\ phase' \notin {"running", "down"}
  BY DEF ReplaySkip, ReplayError, ReplayFails, ReplayNoObject, RetryError,
         WaitSynced, OpenNextGroup, SyncNextGroup, Wait
<1>8. phase = "load_wait" /\ phase' # "load_wait" => LastSynced >= wait
  BY DEF ReplaySkip, ReplayError, ReplayFails, ReplayNoObject, RetryError,
         WaitSynced, OpenNextGroup, SyncNextGroup, WaitOver
<1>9. phase' = "load_wait" => phase = "load_wait" /\ wait' = wait
  BY DEF ReplaySkip, ReplayError, ReplayFails, ReplayNoObject, RetryError,
         WaitSynced, OpenNextGroup, SyncNextGroup, Wait
<1>10. hdr.claim_txg # 0 /\ hdr_disk.claim_txg = 0 => phase' = "load_wait" /\ synced < wait'
  BY <1>2, <1>8, <1>9 DEF RecInv, ReplayOk
<1>11. DestroyOk' /\ PhaseOk'
  BY <1>1, <1>3, <1>7 DEF RecInv, DestroyOk, PhaseOk
<1> QED BY <1>1, <1>2, <1>3, <1>4, <1>5, <1>6, <1>7, <1>10, <1>11, RecFrame DEF ReplayKept

(* zil_destroy, of an empty log or at the end of the replay: afterwards    *)
(* the header will be cleared, or there is nothing to clear.               *)
LEMMA RecDestroy ==
  ASSUME PoolInv, RecInv, Mount \/ ReplayEnd
  PROVE  RecInv'
<1>1. /\ UNCHANGED <<hdr, hdr_disk, replayed_seq, fs, base, synced, zh_log, zh_syncing>>
      /\ UNCHANGED <<open, spa, at, lost>>
  BY DEF Mount, ReplayEnd
<1>2. /\ open \in Nat /\ at \in Nat /\ wait \in Nat /\ destroy \in [txg : Nat, keep_first : BOOLEAN]
      /\ synced \in Nat /\ Syncing < open /\ Syncing \in Nat /\ Syncing' = Syncing
  BY <1>1, PoolFacts DEF RecInv, RecTypes, Syncing
<1>3. hdr.claim_txg # 0 => hdr_disk.claim_txg # 0
  BY DEF Mount, ReplayEnd, RecInv, ReplayOk
<1>4. CASE Mount /\ hdr.needed
  <2>1. /\ UNCHANGED <<destroy, dirty>> /\ wait' = open + TXG_DEFER_SIZE
        /\ phase' = "replay_wait" /\ phase = "loaded"
    BY <1>4 DEF Mount, Wait
  <2>2. DestroyOk' /\ PhaseOk' /\ wait' \in Nat
    BY <1>1, <1>2, <2>1 DEF RecInv, DestroyOk, PhaseOk, TXG_DEFER_SIZE
  <2> QED BY <1>1, <1>2, <1>3, <2>1, <2>2, RecFrame DEF ReplayKept
<1>5. CASE ~(Mount /\ hdr.needed)
  <2>1. PICK keep \in BOOLEAN :
          /\ Destroy(keep)
          /\ keep => ~hdr.needed
    BY <1>5 DEF Mount, ReplayEnd
  <2>2. CASE zh_syncing = 0
    <3>1. phase' = "mounted" /\ UNCHANGED <<destroy, dirty, wait>>
      BY <2>1, <2>2 DEF Destroy
    <3>2. DestroyOk' /\ PhaseOk'
      BY <1>1, <1>2, <2>2, <3>1 DEF RecInv, DestroyOk, PhaseOk, HeaderOk
    <3> QED BY <1>1, <1>2, <1>3, <3>1, <3>2, RecFrame DEF ReplayKept
  <2>3. CASE zh_syncing # 0
    <3>1. /\ destroy' = [txg |-> open, keep_first |-> keep]
          /\ dirty' = dirty \cup {open} /\ phase' \in {"mounted", "destroy_wait"}
          /\ wait' \in Nat
      BY <1>2, <2>1, <2>3 DEF Destroy, Wait
    <3>2. keep => fs = <<>>
      <4>1. SUFFICES ASSUME keep, hdr.claim_txg # 0, fs # <<>> PROVE FALSE
        BY <2>3 DEF RecInv, HeaderOk
      <4>2. hdr.claim_lr_seq = 0
        BY <2>1, <4>1 DEF RecInv, HeaderOk
      <4>3. 1 \in DOMAIN fs /\ fs[1].seq > 0 /\ fs[1].seq \in Nat
        <5>1. Len(fs) # 0
          BY <4>1 DEF RecInv, RecTypes
        <5> QED BY <5>1, EntryTypes DEF RecInv
      <4>4. fs[1].seq <= 0
        BY <4>1, <4>2, <4>3 DEF RecInv, HeaderOk
      <4> QED BY <4>3, <4>4
    <3>3. destroy'.txg = open /\ destroy'.keep_first = keep /\ open # 0
          /\ destroy' \in [txg : Nat, keep_first : BOOLEAN]
      BY <1>2, <3>1
    <3>4. DestroyOk' /\ PhaseOk'
      BY <1>1, <1>2, <3>1, <3>2, <3>3 DEF DestroyOk, PhaseOk
    <3> QED BY <1>1, <1>2, <1>3, <3>1, <3>3, <3>4, RecFrame DEF ReplayKept
  <2> QED BY <2>2, <2>3
<1> QED BY <1>4, <1>5

LEMMA RecClaim ==
  ASSUME PoolInv, DiskInv, RecInv, Claim
  PROVE  RecInv'
<1>1. /\ UNCHANGED <<hdr_disk, replayed_seq, fs, base, synced, zh_log, zh_syncing>>
      /\ UNCHANGED <<open, spa, at, destroy>>
  BY DEF Claim
<1>2. /\ open \in Nat /\ at \in Nat /\ destroy \in [txg : Nat, keep_first : BOOLEAN]
      /\ synced \in Nat /\ Syncing \in Nat /\ Syncing' = Syncing /\ base \in Nat /\ base <= synced
  BY <1>1, PoolFacts DEF RecInv, RecTypes, Syncing
<1>3. phase = "down" /\ phase' = "load_wait" /\ wait' \in Nat /\ synced < wait'
  BY <1>2 DEF Claim, LoadWait, Wait, TXG_CONCURRENT_STATES
<1>4. CASE hdr.claim_txg = 0 /\ zh_syncing # 0
  <2>1. PICK n \in 0 .. ReadBlocks :
          /\ hdr' = [claim_txg |-> synced + 1, claim_lr_seq |-> Len(LogOf(n)),
                     replay_seq |-> 0, needed |-> n > 0]
          /\ dirty' = dirty \cup {open}
          /\ lost \subseteq lost'
    BY <1>4 DEF Claim
  <2>2. fs = <<>> /\ DOMAIN fs = {} /\ hdr = hdr_disk
    BY <1>3, <1>4 DEF RecInv, HeaderOk, PhaseOk
  <2>3. Len(LogOf(n)) \in Nat /\ (n = 0 => Len(LogOf(n)) = 0)
    BY LogType
  <2>4. hdr' \in Headers /\ hdr'.claim_txg = synced + 1 /\ hdr'.replay_seq = 0
        /\ (~hdr'.needed => hdr'.claim_lr_seq = 0)
    <3>1. ReadBlocks \in Nat
      BY LogType
    <3>2. (n > 0) \in BOOLEAN /\ (~(n > 0) => n = 0)
      BY <3>1
    <3>3. hdr'.needed = (n > 0)
      BY <2>1, Zenon
    <3>4. hdr'.needed \in BOOLEAN /\ (~hdr'.needed => n = 0)
      BY <3>2, <3>3, Zenon
    <3>5. hdr' = [claim_txg |-> synced + 1, claim_lr_seq |-> Len(LogOf(n)),
                  replay_seq |-> 0, needed |-> hdr'.needed]
      BY <2>1
    <3> QED BY <1>2, <2>3, <3>4, <3>5 DEF Headers
  <2>5. RecTypes'
    BY <1>1, <1>2, <1>3, <2>4 DEF RecInv, RecTypes
  <2>6. FsOrder'
    BY <1>1, <2>2 DEF FsOrder
  <2>7. HeaderOk(hdr, zh_syncing, Syncing)'
    BY <1>1, <1>2, <1>4, <2>2, <2>4 DEF HeaderOk
  <2>8. HeaderOk(hdr_disk, zh_log, synced)'
    BY <1>1, <2>1, <2>2 DEF RecInv, HeaderOk
  <2>9. ReplayOk'
    BY <1>1, <1>2, <1>3, <1>4, <2>2, <2>4 DEF RecInv, ReplayOk
  <2>10. DestroyOk' /\ PhaseOk'
    BY <1>1, <1>3 DEF RecInv, DestroyOk, PhaseOk, NoDestroy
  <2> QED BY <2>5, <2>6, <2>7, <2>8, <2>9, <2>10 DEF RecInv
<1>5. CASE ~(hdr.claim_txg = 0 /\ zh_syncing # 0)
  <2>1. UNCHANGED <<hdr, dirty, lost>>
    BY <1>5 DEF Claim
  <2>2. DestroyOk' /\ PhaseOk'
    BY <1>1, <1>3 DEF RecInv, DestroyOk, PhaseOk, NoDestroy
  <2> QED BY <1>1, <1>2, <1>3, <2>1, <2>2, RecFrame DEF ReplayKept
<1> QED BY <1>4, <1>5

LEMMA RecClear ==
  ASSUME PoolInv, RecInv, ClaimClear
  PROVE  RecInv'
<1>1. /\ UNCHANGED <<hdr, hdr_disk, replayed_seq, fs, base, synced, zh_log>>
      /\ UNCHANGED <<open, spa, at, destroy>>
      /\ dirty' = dirty \cup {open} /\ zh_syncing' = 0 /\ lost' = lost \cup {"cleared"}
  BY DEF ClaimClear
<1>2. /\ open \in Nat /\ at \in Nat /\ destroy \in [txg : Nat, keep_first : BOOLEAN]
      /\ synced \in Nat /\ Syncing' = Syncing
  BY <1>1, PoolFacts DEF RecInv, RecTypes, Syncing
<1>3. phase = "down" /\ phase' = "load_wait" /\ wait' \in Nat /\ synced < wait'
  BY <1>2 DEF ClaimClear, LoadWait, Wait, TXG_CONCURRENT_STATES
<1>4. RecTypes' /\ FsOrder'
  BY <1>1, <1>3 DEF RecInv, RecTypes, FsOrder
<1>5. HeaderOk(hdr, zh_syncing, Syncing)' /\ HeaderOk(hdr_disk, zh_log, synced)'
  BY <1>1, <1>2 DEF RecInv, HeaderOk
<1>6. ReplayOk'
  BY <1>1, <1>2, <1>3 DEF RecInv, ReplayOk, PhaseOk
<1>7. DestroyOk' /\ PhaseOk'
  BY <1>1, <1>3 DEF RecInv, DestroyOk, PhaseOk, NoDestroy
<1> QED BY <1>4, <1>5, <1>6, <1>7 DEF RecInv

(* No two live groups share a slot.                                        *)
LEMMA SlotsApart ==
  ASSUME PoolInv, NEW t \in Nat, NEW u \in Nat, Syncing < t, t <= open, Syncing < u, u <= open,
         Slot(t) = Slot(u)
  PROVE  t = u
<1>1. open \in Nat /\ Syncing \in Nat /\ open <= Syncing + 3
  BY PoolFacts DEF PoolInv, TXG_CONCURRENT_STATES, LastSynced, Syncing
<1>2. t - u < 4 /\ u - t < 4
  BY <1>1
<1> QED BY <1>2 DEF Slot, TXG_SIZE

LEMMA ToReplay ==
  ASSUME DiskInv, at \in Nat, hdr \in Headers, MustReplay
  PROVE  /\ Log \in Seq(Itxs) /\ at + 1 \in DOMAIN Log /\ Log[at + 1] \in Itxs
         /\ at + 1 <= hdr.claim_lr_seq /\ at + 1 > hdr.replay_seq
         /\ Log[at + 1].txg \in Nat /\ Log[at + 1].txg >= hdr.claim_txg
<1>1. Log \in Seq(Itxs) /\ Len(Log) \in Nat /\ DOMAIN Log = 1 .. Len(Log)
  <2>1. Log \in Seq(Itxs)
    <3>1. ReadBlocks \in 0 .. ReadBlocks
      BY LogType
    <3> QED BY <3>1, LogType DEF Log
  <2> QED BY <2>1
<1>2. hdr.claim_lr_seq \in Nat /\ hdr.replay_seq \in Nat /\ hdr.claim_txg \in Nat
  BY DEF Headers
<1>3. at < hdr.claim_lr_seq /\ at < Len(Log)
  BY <1>1, <1>2 DEF MustReplay, AllParsed
<1>4. at + 1 \in DOMAIN Log
  BY <1>1, <1>3
<1>5. Log[at + 1] \in Itxs
  BY <1>1, <1>4
<1>6. Log[at + 1].txg \in Nat
  BY <1>5 DEF Itxs
<1> QED BY <1>1, <1>2, <1>3, <1>4, <1>5, <1>6 DEF MustReplay, AlreadyReplayed, AlreadyCommitted

(* A record is replayed that neither this import nor an earlier one has    *)
(* replayed, and that was claimed.                                         *)
LEMMA RecReplay ==
  ASSUME PoolInv, DiskInv, RecInv, Replay
  PROVE  RecInv'
<1> DEFINE e == [seq |-> at + 1, rec |-> Log[at + 1], txg |-> open]
           s == Slot(open)
           k == Len(fs)
<1>1. /\ UNCHANGED <<hdr, hdr_disk, base, synced, zh_log, zh_syncing, open, spa, destroy, lost,
                     wait>>
      /\ fs' = Append(fs, e) /\ replayed_seq' = [replayed_seq EXCEPT ![s] = at + 1]
      /\ dirty' = dirty \cup {open} /\ at' = at + 1
      /\ phase \in {"replay", "retry"} /\ phase' = "replay"
      /\ MustReplay
  BY DEF Replay, Replayed
<1>2. /\ open \in Nat /\ synced \in Nat /\ Syncing \in Nat /\ Syncing < open
      /\ Syncing' = Syncing /\ s \in 0 .. TXG_SIZE - 1 /\ at \in Nat
      /\ hdr \in Headers /\ hdr_disk \in Headers /\ base \in Nat
      /\ replayed_seq \in [0 .. TXG_SIZE - 1 -> Nat]
  BY <1>1, PoolFacts, SlotType DEF RecInv, RecTypes, Syncing
<1>3. /\ hdr.claim_txg \in Nat /\ hdr.claim_lr_seq \in Nat /\ hdr.replay_seq \in Nat
      /\ hdr_disk.claim_lr_seq \in Nat /\ hdr_disk.replay_seq \in Nat
  BY <1>2 DEF Headers
<1>4. /\ Log[at + 1] \in Itxs /\ Log[at + 1].txg \in Nat /\ at + 1 <= hdr.claim_lr_seq
      /\ at + 1 > hdr.replay_seq /\ Log[at + 1].txg >= hdr.claim_txg
  BY <1>1, <1>2, ToReplay
<1>5. hdr.claim_txg # 0 /\ hdr_disk.claim_txg # 0 /\ hdr_disk.claim_lr_seq = hdr.claim_lr_seq
      /\ Log[at + 1].txg > base
  <2>1. hdr.claim_txg # 0
    BY <1>2, <1>4 DEF RecInv, HeaderOk, NoHeader
  <2>2. hdr_disk.claim_txg # 0
    BY <1>1, <2>1 DEF RecInv, ReplayOk
  <2>3. hdr.claim_txg > base
    BY <2>1 DEF RecInv, HeaderOk
  <2> QED BY <1>2, <1>3, <1>4, <2>1, <2>2, <2>3 DEF RecInv, ReplayOk
<1>6. e \in Entries
  BY <1>2, <1>4 DEF Entries
<1>7. e.seq = at + 1 /\ e.txg = open /\ e.rec = Log[at + 1]
  OBVIOUS
<1> HIDE DEF e
<1>8. /\ fs' \in Seq(Entries) /\ k \in Nat /\ DOMAIN fs' = 1 .. k + 1 /\ fs'[k + 1] = e
      /\ DOMAIN fs = 1 .. k /\ \A i \in 1 .. k : fs'[i] = fs[i]
  BY <1>1, <1>6 DEF RecInv, RecTypes
<1>9. \A i \in 1 .. k : /\ fs[i].seq \in Nat /\ fs[i].txg \in Nat /\ fs[i].txg <= open
                        /\ fs[i].seq < at + 1
  <2>1. \A i \in 1 .. k : fs[i].seq \in Nat /\ fs[i].txg \in Nat
    BY <1>8, EntryTypes DEF RecInv
  <2>2. \A i \in 1 .. k : /\ fs[i].txg <= open
                          /\ fs[i].seq <= at \/ fs[i].seq <= hdr.replay_seq
    BY <1>5, <1>8 DEF RecInv, FsOrder, ReplayOk
  <2>3. \A x \in Nat : x <= at \/ x <= hdr.replay_seq => x < at + 1
    BY <1>2, <1>3, <1>4
  <2> QED BY <2>1, <2>2, <2>3
<1>10. RecTypes'
  BY <1>1, <1>2, <1>8 DEF RecInv, RecTypes
<1>11. FsOrder'
  <2>1. \A i \in 1 .. k + 1 : fs'[i].txg <= open /\ fs'[i].rec.txg > base
    BY <1>2, <1>5, <1>8, <1>9, <1>7 DEF RecInv, FsOrder
  <2>2. \A i, j \in 1 .. k + 1 :
            i < j => fs'[i].seq < fs'[j].seq /\ fs'[i].txg <= fs'[j].txg
    <3> TAKE i, j \in 1 .. k + 1
    <3> HAVE i < j
    <3>1. CASE j = k + 1
      BY <1>8, <1>9, <1>7, <3>1
    <3>2. CASE j # k + 1
      <4>1. i \in 1 .. k /\ j \in 1 .. k
        BY <1>8, <3>2
      <4> QED BY <1>8, <4>1 DEF RecInv, FsOrder
    <3> QED BY <3>1, <3>2
  <2> QED BY <1>1, <1>8, <2>1, <2>2 DEF FsOrder
<1>12. ASSUME NEW h \in {hdr, hdr_disk}, NEW first, NEW g \in Nat, g < open, HeaderOk(h, first, g)
       PROVE  /\ h.claim_txg # 0
              /\ h.claim_txg > base /\ (~h.needed => h.claim_lr_seq = 0)
              /\ \A i \in DOMAIN fs' : /\ fs'[i].seq <= h.claim_lr_seq
                                       /\ fs'[i].txg <= g => fs'[i].seq <= h.replay_seq
              /\ h.replay_seq # 0 => \E i \in DOMAIN fs' : /\ fs'[i].txg <= g
                                                           /\ fs'[i].seq = h.replay_seq
              /\ first = 0 => "cleared" \in lost
  <2>1. h.claim_txg # 0 /\ h.claim_lr_seq = hdr.claim_lr_seq /\ h.replay_seq \in Nat
    BY <1>3, <1>5
  <2>2. \A i \in 1 .. k + 1 : /\ fs'[i].seq <= h.claim_lr_seq
                              /\ fs'[i].txg <= g => fs'[i].seq <= h.replay_seq
    <3> TAKE i \in 1 .. k + 1
    <3>1. CASE i = k + 1
      BY <1>2, <1>4, <1>8, <1>7, <1>12, <2>1, <3>1
    <3>2. CASE i # k + 1
      <4>1. i \in 1 .. k
        BY <1>8, <3>2
      <4> QED BY <1>8, <1>12, <2>1, <4>1 DEF HeaderOk
    <3> QED BY <3>1, <3>2
  <2>3. h.replay_seq # 0 => \E i \in 1 .. k : fs[i].txg <= g /\ fs[i].seq = h.replay_seq
    BY <1>8, <1>12, <2>1 DEF HeaderOk
  <2>4. \A i \in 1 .. k : i \in 1 .. k + 1
    BY <1>8
  <2> QED BY <1>8, <1>12, <2>1, <2>2, <2>3, <2>4 DEF HeaderOk
<1>13. HeaderOk(hdr, zh_syncing, Syncing)'
  <2>1. HeaderOk(hdr, zh_syncing, Syncing)
    BY DEF RecInv
  <2> QED BY <1>1, <1>2, <1>12, <2>1 DEF HeaderOk
<1>14. HeaderOk(hdr_disk, zh_log, synced)'
  <2>1. HeaderOk(hdr_disk, zh_log, synced) /\ synced < open
    BY <1>2 DEF RecInv, Syncing
  <2> QED BY <1>1, <1>2, <1>12, <2>1 DEF HeaderOk
<1>15. ReplayOk'
  <2>1. replayed_seq'[s] = at + 1
        /\ \A u \in 0 .. TXG_SIZE - 1 : u # s => replayed_seq'[u] = replayed_seq[u]
    BY <1>1, <1>2
  <2>2. \A i \in 1 .. k + 1 :
          /\ fs'[i].seq <= at'
          /\ Syncing < fs'[i].txg => /\ fs'[i].txg \in dirty'
                                     /\ fs'[i].seq <= replayed_seq'[Slot(fs'[i].txg)]
    <3> TAKE i \in 1 .. k + 1
    <3>1. CASE i = k + 1
      BY <1>1, <1>2, <1>8, <1>7, <2>1, <3>1
    <3>2. CASE i # k + 1
      <4>1. i \in 1 .. k /\ fs'[i] = fs[i]
        BY <1>8, <3>2
      <4>2. fs[i].seq <= at'
        <5>1. fs[i].seq \in Nat /\ fs[i].seq < at + 1 /\ at' = at + 1
          BY <1>1, <1>9, <4>1
        <5> QED BY <1>2, <5>1
      <4>3. Syncing < fs[i].txg => /\ fs[i].txg \in dirty
                                   /\ fs[i].seq <= replayed_seq[Slot(fs[i].txg)]
        BY <1>5, <1>8, <4>1 DEF RecInv, ReplayOk
      <4>4. Slot(fs[i].txg) \in 0 .. TXG_SIZE - 1
        BY <1>9, <4>1, SlotType
      <4> QED BY <1>1, <2>1, <4>1, <4>2, <4>3, <4>4
    <3> QED BY <3>1, <3>2
  <2>3. ASSUME NEW u \in 0 .. TXG_SIZE - 1, replayed_seq'[u] # 0
        PROVE  \E i \in 1 .. k + 1 : /\ Slot(fs'[i].txg) = u /\ Syncing < fs'[i].txg
                                     /\ fs'[i].seq = replayed_seq'[u]
    <3>1. CASE u = s
      BY <1>2, <1>8, <1>7, <2>1, <3>1
    <3>2. CASE u # s
      <4>1. PICK i \in 1 .. k : /\ Slot(fs[i].txg) = u /\ Syncing < fs[i].txg
                                /\ fs[i].seq = replayed_seq[u]
        BY <1>8, <2>1, <2>3, <3>2 DEF RecInv, ReplayOk
      <4>2. i \in 1 .. k + 1
        BY <1>8
      <4> QED BY <1>8, <2>1, <3>2, <4>1, <4>2
    <3> QED BY <3>1, <3>2
  <2> QED BY <1>1, <1>2, <1>5, <1>8, <2>2, <2>3 DEF ReplayOk
<1>16. DestroyOk' /\ PhaseOk'
  BY <1>1 DEF RecInv, DestroyOk, PhaseOk, NoDestroy
<1> QED BY <1>10, <1>11, <1>13, <1>14, <1>15, <1>16 DEF RecInv

(* zil_sync in a group moves the header on to the last record replayed in  *)
(* it.                                                                     *)
LEMMA RecSync ==
  ASSUME PoolInv, RecInv, SyncHeader
  PROVE  RecInv'
<1> DEFINE t == synced + 1
           s == Slot(t)
<1>1. /\ UNCHANGED <<open, synced, zh_log, phase, hdr_disk, at, destroy, wait, fs, base, lost>>
      /\ spa = "idle" /\ spa' = "sync" /\ t < open /\ dirty' = dirty \ {t}
      /\ phase \notin {"running", "down"}
  BY DEF SyncHeader
<1>2. /\ open \in Nat /\ synced \in Nat /\ t \in Nat /\ s \in 0 .. TXG_SIZE - 1
      /\ Syncing = synced /\ Syncing' = t /\ at \in Nat
      /\ hdr \in Headers /\ replayed_seq \in [0 .. TXG_SIZE - 1 -> Nat]
      /\ hdr.replay_seq \in Nat
  <2>1. open \in Nat /\ synced \in Nat /\ Syncing = synced /\ Syncing' = synced + 1
    BY <1>1, PoolFacts DEF Syncing
  <2>2. s \in 0 .. TXG_SIZE - 1
    BY <2>1, SlotType
  <2>3. at \in Nat /\ hdr \in Headers /\ replayed_seq \in [0 .. TXG_SIZE - 1 -> Nat]
    BY DEF RecInv, RecTypes
  <2>4. hdr.replay_seq \in Nat
    BY <2>3 DEF Headers
  <2> QED BY <2>1, <2>2, <2>3, <2>4
<1>3. \A i \in DOMAIN fs : /\ fs[i].seq \in Nat /\ fs[i].seq > 0 /\ fs[i].txg \in Nat
                           /\ fs[i].txg <= open
  BY EntryTypes DEF RecInv, FsOrder
<1>4. HeaderOk(hdr_disk, zh_log, synced)' /\ FsOrder' /\ PhaseOk'
  BY <1>1 DEF RecInv, HeaderOk, FsOrder, PhaseOk
<1>5. \A i \in DOMAIN fs : Syncing < fs[i].txg /\ Slot(fs[i].txg) = s => fs[i].txg = t
  BY <1>1, <1>2, <1>3, SlotsApart
<1>6. \A i \in DOMAIN fs : /\ fs[i].txg <= t => fs[i].txg <= synced \/ fs[i].txg = t
                           /\ Syncing < fs[i].txg /\ fs[i].txg # t => t < fs[i].txg
                           /\ t < fs[i].txg => Syncing < fs[i].txg
  BY <1>2, <1>3
<1>7. CASE t \in dirty /\ destroy.txg = t
  <2>1. /\ hdr' = NoHeader /\ replayed_seq' = NoneReplayed
        /\ zh_syncing' = IF destroy.keep_first THEN zh_syncing ELSE 0
    BY <1>7 DEF SyncHeader, ClearedHeader
  <2>2. zh_syncing' # 0 => fs = <<>>
    BY <1>2, <1>7, <2>1 DEF RecInv, DestroyOk
  <2>3. RecTypes'
    BY <1>1, <2>1 DEF RecInv, RecTypes, NoHeader, Headers, NoneReplayed, TXG_SIZE
  <2>4. HeaderOk(hdr, zh_syncing, Syncing)'
    BY <1>1, <2>1, <2>2 DEF HeaderOk, NoHeader
  <2>5. ReplayOk' /\ DestroyOk'
    BY <1>1, <2>1 DEF RecInv, ReplayOk, DestroyOk, NoHeader, NoneReplayed
  <2> QED BY <1>4, <2>3, <2>4, <2>5 DEF RecInv
<1>8. CASE ~(t \in dirty /\ destroy.txg = t)
  <2> DEFINE r == replayed_seq[s]
  <2>0. zh_syncing' = zh_syncing
    BY <1>8 DEF SyncHeader
  <2>1. hdr.claim_txg # 0 \/ r = 0
    BY <1>2 DEF RecInv, ReplayOk, NoneReplayed
  <2>2. t \notin dirty => r = 0
    <3>1. SUFFICES ASSUME r # 0 PROVE t \in dirty
      OBVIOUS
    <3>2. PICK i \in DOMAIN fs : Slot(fs[i].txg) = s /\ Syncing < fs[i].txg /\ fs[i].seq = r
      BY <1>2, <3>1 DEF RecInv, ReplayOk
    <3> QED BY <1>5, <2>1, <3>1, <3>2 DEF RecInv, ReplayOk
  <2>3. /\ hdr' = IF r # 0 THEN [hdr EXCEPT !.replay_seq = r] ELSE hdr
        /\ replayed_seq' = [replayed_seq EXCEPT ![s] = 0]
    <3>1. CASE t \in dirty
      BY <1>8, <3>1 DEF SyncHeader, ReplayedSeq
    <3>2. CASE t \notin dirty
      <4>1. hdr' = hdr /\ replayed_seq' = replayed_seq /\ r = 0
        BY <2>2, <3>2 DEF SyncHeader
      <4> QED BY <1>2, <4>1
    <3> QED BY <3>1, <3>2
  <2>4. /\ hdr' \in Headers /\ hdr'.claim_txg = hdr.claim_txg
        /\ hdr'.claim_lr_seq = hdr.claim_lr_seq /\ hdr'.needed = hdr.needed
        /\ hdr'.replay_seq = IF r # 0 THEN r ELSE hdr.replay_seq
        /\ r = 0 => hdr' = hdr
        /\ replayed_seq' \in [0 .. TXG_SIZE - 1 -> Nat] /\ r \in Nat
        /\ replayed_seq'[s] = 0
        /\ \A u \in 0 .. TXG_SIZE - 1 : u # s => replayed_seq'[u] = replayed_seq[u]
    BY <1>2, <2>3 DEF Headers
  <2>5. r # 0 => \E j \in DOMAIN fs : fs[j].txg = t /\ fs[j].seq = r
    <3>1. SUFFICES ASSUME r # 0 PROVE \E j \in DOMAIN fs : fs[j].txg = t /\ fs[j].seq = r
      OBVIOUS
    <3>2. PICK i \in DOMAIN fs : Slot(fs[i].txg) = s /\ Syncing < fs[i].txg /\ fs[i].seq = r
      BY <1>2, <3>1 DEF RecInv, ReplayOk
    <3> QED BY <1>5, <3>2
  <2> HIDE DEF r
  <2>6. ASSUME hdr.claim_txg # 0, NEW i \in DOMAIN fs
        PROVE  /\ fs[i].txg = t => fs[i].seq <= r
               /\ fs[i].txg <= synced /\ r # 0 => fs[i].seq < r
    <3>1. fs[i].txg = t => fs[i].seq <= r
      <4>1. fs[i].txg = t => Syncing < fs[i].txg
        BY <1>2
      <4> QED BY <2>6, <4>1 DEF RecInv, ReplayOk, r
    <3>2. ASSUME fs[i].txg <= synced, r # 0 PROVE fs[i].seq < r
      <4>1. PICK j \in DOMAIN fs : fs[j].txg = t /\ fs[j].seq = r
        BY <2>5, <3>2
      <4>2. i \in Nat /\ j \in Nat /\ fs[i].txg < fs[j].txg /\ i # j
        <5>1. fs[i].txg < fs[j].txg
          BY <1>2, <1>3, <3>2, <4>1
        <5>2. i \in Nat /\ j \in Nat
          BY EntryTypes DEF RecInv
        <5> QED BY <1>3, <5>1, <5>2
      <4>3. ~(j < i)
        <5>1. j < i => fs[j].txg <= fs[i].txg
          BY DEF RecInv, FsOrder
        <5> QED BY <1>3, <4>2, <5>1
      <4>4. i < j
        BY <4>2, <4>3
      <4> QED BY <4>1, <4>4 DEF RecInv, FsOrder
    <3> QED BY <3>1, <3>2
  <2>7. RecTypes'
    BY <1>1, <2>4 DEF RecInv, RecTypes
  <2>8. HeaderOk(hdr, zh_syncing, Syncing)'
    <3>1. CASE hdr.claim_txg = 0
      <4>1. hdr' = hdr
        BY <2>1, <2>4, <3>1
      <4> QED BY <1>1, <2>0, <3>1, <4>1 DEF RecInv, HeaderOk
    <3>2. CASE hdr.claim_txg # 0
      <4>1. \A i \in DOMAIN fs : fs[i].txg <= t => fs[i].seq <= hdr'.replay_seq
        <5> SUFFICES ASSUME NEW i \in DOMAIN fs, fs[i].txg <= t
                     PROVE  fs[i].seq <= hdr'.replay_seq
          OBVIOUS
        <5>1. CASE fs[i].txg = t
          <6>1. fs[i].seq <= r /\ r # 0
            BY <1>3, <2>4, <2>6, <3>2, <5>1
          <6> QED BY <2>4, <6>1
        <5>2. CASE fs[i].txg <= synced
          <6>1. fs[i].seq <= hdr.replay_seq
            BY <1>2, <3>2, <5>2 DEF RecInv, HeaderOk
          <6> QED BY <1>3, <2>4, <2>6, <3>2, <5>2, <6>1
        <5> QED BY <1>6, <5>1, <5>2
      <4>2. hdr'.replay_seq # 0 =>
              \E i \in DOMAIN fs : fs[i].txg <= t /\ fs[i].seq = hdr'.replay_seq
        <5>1. CASE r # 0
          <6>1. PICK j \in DOMAIN fs : fs[j].txg = t /\ fs[j].seq = r
            BY <2>5, <5>1
          <6>2. fs[j].txg <= t
            BY <1>2, <6>1
          <6> QED BY <2>4, <5>1, <6>1, <6>2
        <5>2. CASE r = 0 /\ hdr.replay_seq # 0
          <6>1. PICK i \in DOMAIN fs : fs[i].txg <= synced /\ fs[i].seq = hdr.replay_seq
            BY <1>2, <3>2, <5>2 DEF RecInv, HeaderOk
          <6>2. fs[i].txg <= t
            BY <1>2, <1>3, <6>1
          <6> QED BY <2>4, <5>2, <6>1, <6>2
        <5> QED BY <2>4, <5>1, <5>2
      <4> QED BY <1>1, <1>2, <2>0, <2>4, <3>2, <4>1, <4>2 DEF RecInv, HeaderOk
    <3> QED BY <3>1, <3>2
  <2>9. ReplayOk'
    <3>1. hdr'.claim_txg = 0 => replayed_seq' = NoneReplayed
      <4>1. SUFFICES ASSUME hdr.claim_txg = 0 PROVE replayed_seq' = NoneReplayed
        BY <2>4
      <4>2. replayed_seq = NoneReplayed
        BY <4>1 DEF RecInv, ReplayOk
      <4> QED BY <1>2, <2>4, <4>2 DEF NoneReplayed
    <3>2. ASSUME hdr.claim_txg # 0, NEW i \in DOMAIN fs
          PROVE  /\ fs[i].seq <= at \/ fs[i].seq <= hdr'.replay_seq
                 /\ t < fs[i].txg => /\ fs[i].txg \in dirty'
                                     /\ fs[i].seq <= replayed_seq'[Slot(fs[i].txg)]
      <4>1. hdr.replay_seq <= hdr'.replay_seq
        <5>1. CASE r = 0 \/ hdr.replay_seq = 0
          BY <1>2, <2>4, <5>1
        <5>2. CASE r # 0 /\ hdr.replay_seq # 0
          <6>1. PICK j \in DOMAIN fs : fs[j].txg <= synced /\ fs[j].seq = hdr.replay_seq
            BY <1>2, <3>2, <5>2 DEF RecInv, HeaderOk
          <6>2. hdr.replay_seq < r
            BY <2>6, <3>2, <5>2, <6>1
          <6> QED BY <1>2, <2>4, <5>2, <6>2
        <5> QED BY <5>1, <5>2
      <4>2. fs[i].seq <= at \/ fs[i].seq <= hdr.replay_seq
        BY <3>2 DEF RecInv, ReplayOk
      <4>3. hdr'.replay_seq \in Nat
        BY <2>4 DEF Headers
      <4>4. fs[i].seq <= at \/ fs[i].seq <= hdr'.replay_seq
        BY <1>2, <1>3, <4>1, <4>2, <4>3
      <4>5. ASSUME t < fs[i].txg
            PROVE  fs[i].txg \in dirty' /\ fs[i].seq <= replayed_seq'[Slot(fs[i].txg)]
        <5>1. Syncing < fs[i].txg /\ fs[i].txg # t
          BY <1>2, <1>3, <1>6, <4>5
        <5>2. fs[i].txg \in dirty /\ fs[i].seq <= replayed_seq[Slot(fs[i].txg)]
          BY <3>2, <5>1 DEF RecInv, ReplayOk
        <5>3. Slot(fs[i].txg) # s /\ Slot(fs[i].txg) \in 0 .. TXG_SIZE - 1
          BY <1>3, <1>5, <5>1, SlotType
        <5> QED BY <1>1, <2>4, <5>1, <5>2, <5>3
      <4> QED BY <4>4, <4>5
    <3>3. ASSUME NEW u \in 0 .. TXG_SIZE - 1, replayed_seq'[u] # 0
          PROVE  \E i \in DOMAIN fs : /\ Slot(fs[i].txg) = u /\ t < fs[i].txg
                                      /\ fs[i].seq = replayed_seq'[u]
      <4>1. u # s /\ replayed_seq'[u] = replayed_seq[u]
        BY <2>4, <3>3
      <4>2. PICK i \in DOMAIN fs : /\ Slot(fs[i].txg) = u /\ Syncing < fs[i].txg
                                   /\ fs[i].seq = replayed_seq[u]
        BY <3>3, <4>1 DEF RecInv, ReplayOk
      <4>3. fs[i].txg # t
        BY <4>1, <4>2
      <4> QED BY <1>6, <4>1, <4>2, <4>3
    <3> QED BY <1>1, <1>2, <2>4, <3>1, <3>2, <3>3 DEF RecInv, ReplayOk
  <2>10. DestroyOk'
    <3>1. destroy.txg # 0 => \/ hdr.claim_txg = 0
                             \/ t < destroy.txg /\ destroy.txg \in dirty'
      <4>1. destroy.txg \in Nat
        BY DEF RecInv, RecTypes
      <4> QED BY <1>1, <1>2, <1>8, <4>1 DEF RecInv, DestroyOk
    <3> QED BY <1>1, <1>2, <2>4, <3>1 DEF RecInv, DestroyOk
  <2> QED BY <1>4, <2>7, <2>8, <2>9, <2>10 DEF RecInv
<1> QED BY <1>7, <1>8

(* The uberblock makes the header in memory the one on disk.               *)
LEMMA RecSyncDone ==
  ASSUME PoolInv, RecInv, SyncHeaderDone
  PROVE  RecInv'
<1>1. /\ UNCHANGED <<phase, hdr, at, replayed_seq, destroy, wait, fs, base, lost, open, dirty>>
      /\ hdr_disk' = hdr /\ zh_log' = zh_syncing /\ zh_syncing' = zh_syncing
      /\ spa = "sync" /\ spa' = "clean" /\ synced' = synced + 1
      /\ phase \notin {"running", "down"}
  BY DEF SyncHeaderDone, SyncDone
<1>2. synced \in Nat /\ Syncing = synced + 1 /\ Syncing' = Syncing /\ synced' = Syncing
  BY <1>1, PoolFacts DEF Syncing
<1>3. RecTypes'
  BY <1>1, <1>2 DEF RecInv, RecTypes
<1>4. FsOrder' /\ DestroyOk' /\ PhaseOk'
  BY <1>1, <1>2 DEF RecInv, FsOrder, DestroyOk, PhaseOk
<1>5. HeaderOk(hdr, zh_syncing, Syncing)' /\ HeaderOk(hdr_disk, zh_log, synced)'
  BY <1>1, <1>2 DEF RecInv, HeaderOk
<1>6. ReplayOk'
  BY <1>1, <1>2 DEF RecInv, ReplayOk
<1> QED BY <1>3, <1>4, <1>5, <1>6 DEF RecInv

(* A crash: what was replayed in a group that is on disk is what the       *)
(* header on disk says.                                                    *)
LEMMA OnDiskIs ==
  ASSUME PoolInv, RecInv
  PROVE  /\ OnDisk \in 0 .. Len(fs)
         /\ SubSeq(fs, 1, OnDisk) \in Seq(Entries)
         /\ DOMAIN SubSeq(fs, 1, OnDisk) = 1 .. OnDisk
         /\ \A i \in 1 .. OnDisk : /\ i \in DOMAIN fs /\ SubSeq(fs, 1, OnDisk)[i] = fs[i]
                                   /\ fs[i].txg <= synced
         /\ \A i \in DOMAIN fs : fs[i].txg <= synced => i \in 1 .. OnDisk
<1> DEFINE S == {0} \cup {i \in DOMAIN fs : fs[i].txg <= synced}
<1>1. /\ Len(fs) \in Nat /\ DOMAIN fs = 1 .. Len(fs) /\ synced \in Nat /\ fs \in Seq(Entries)
      /\ \A i \in DOMAIN fs : fs[i].txg \in Nat
  BY EntryTypes, PoolFacts DEF RecInv, RecTypes
<1>2. \E m \in S : \A y \in S : y <= m
  <2>1. 0 \in S /\ S \subseteq 0 .. Len(fs)
    BY <1>1
  <2> HIDE DEF S
  <2> DEFINE D == {Len(fs) - m : m \in S}
  <2>2. D \subseteq Nat /\ D # {}
    BY <1>1, <2>1
  <2>3. PICK d \in D : \A y \in D : d <= y
    <3> HIDE DEF D
    <3> QED BY <2>2, MinIs
  <2>4. PICK m \in S : d = Len(fs) - m
    OBVIOUS
  <2>5. \A y \in S : Len(fs) - m <= Len(fs) - y
    BY <2>3, <2>4
  <2>6. \A y \in S : y <= m
    BY <1>1, <2>1, <2>5
  <2> QED BY <2>6
<1>3. PICK m \in S : \A y \in S : y <= m
  BY <1>2
<1>4. S \subseteq Nat
  BY <1>1
<1>5. OnDisk = m
  <2>1. Max(S) = m
    <3> HIDE DEF S
    <3> QED BY <1>3, <1>4, MaxIs
  <2> QED BY <2>1 DEF OnDisk
<1>6. OnDisk \in 0 .. Len(fs)
  BY <1>1, <1>3, <1>5
<1>7. /\ SubSeq(fs, 1, OnDisk) \in Seq(Entries) /\ Len(SubSeq(fs, 1, OnDisk)) = OnDisk
      /\ \A i \in 1 .. OnDisk : SubSeq(fs, 1, OnDisk)[i] = fs[i]
  BY <1>1, <1>6
<1>8. \A i \in DOMAIN fs : fs[i].txg <= synced => i \in 1 .. OnDisk
  BY <1>1, <1>3, <1>5
<1>9. \A i \in 1 .. OnDisk : i \in DOMAIN fs /\ fs[i].txg <= synced
  <2> TAKE i \in 1 .. OnDisk
  <2>1. OnDisk \in DOMAIN fs /\ fs[OnDisk].txg <= synced /\ i \in DOMAIN fs
    BY <1>1, <1>3, <1>5, <1>6
  <2>2. i = OnDisk \/ fs[i].txg <= fs[OnDisk].txg
    BY <1>6, <2>1 DEF RecInv, FsOrder
  <2> QED BY <1>1, <2>1, <2>2
<1> QED BY <1>6, <1>7, <1>8, <1>9

LEMMA RecCrash ==
  ASSUME PoolInv, RecInv, Crash
  PROVE  RecInv'
<1>1. /\ phase' = "down" /\ open' = synced + 1 /\ spa' = "idle" /\ zh_syncing' = zh_log
      /\ dirty' = {} /\ hdr' = hdr_disk /\ at' = 0 /\ replayed_seq' = NoneReplayed
      /\ destroy' = NoDestroy /\ wait' = 0 /\ fs' = SubSeq(fs, 1, OnDisk)
      /\ UNCHANGED <<synced, zh_log, hdr_disk>>
      /\ base' = (IF phase = "running" THEN synced ELSE base)
      /\ lost \subseteq lost'
  <2>1. lost \subseteq lost'
    BY Zenon DEF Crash
  <2>2. base' = (IF phase = "running" THEN synced ELSE base)
    BY Zenon DEF Crash
  <2> QED BY <2>1, <2>2, Zenon DEF Crash
<1>2. /\ synced \in Nat /\ Syncing' = synced /\ base \in Nat /\ base <= synced
      /\ hdr_disk \in Headers
  BY <1>1, PoolFacts DEF RecInv, RecTypes, Syncing
<1>3. /\ DOMAIN fs' = 1 .. OnDisk /\ fs' \in Seq(Entries)
      /\ \A i \in DOMAIN fs' : i \in DOMAIN fs /\ fs'[i] = fs[i] /\ fs[i].txg <= synced
      /\ \A i \in DOMAIN fs : fs[i].txg <= synced => i \in DOMAIN fs' /\ fs'[i] = fs[i]
  BY <1>1, OnDiskIs
<1>4. phase = "running" => fs' = <<>> /\ DOMAIN fs' = {} /\ hdr_disk = NoHeader
  <2>1. SUFFICES ASSUME phase = "running" PROVE fs' = <<>> /\ hdr_disk = NoHeader
    OBVIOUS
  <2>2. fs = <<>> /\ hdr_disk = NoHeader
    BY <2>1 DEF RecInv, PhaseOk
  <2>3. OnDisk = 0
    BY <2>2, OnDiskIs
  <2> QED BY <1>1, <1>3, <2>2, <2>3, EmptySeq
<1>5. RecTypes'
  BY <1>1, <1>2, <1>3 DEF RecTypes, NoneReplayed, NoDestroy, TXG_SIZE
<1>6. FsOrder'
  <2>1. \A i \in DOMAIN fs' : fs'[i].rec.txg > base' /\ fs'[i].txg <= open'
    <3> TAKE i \in DOMAIN fs'
    <3>1. fs[i].rec.txg > base /\ fs[i].txg <= synced /\ fs'[i] = fs[i] /\ phase # "running"
      BY <1>3, <1>4 DEF RecInv, FsOrder
    <3>2. fs[i].txg \in Nat
      BY <1>3, EntryTypes DEF RecInv
    <3>3. base' = base /\ open' = synced + 1
      BY <1>1, <3>1
    <3>4. fs[i].txg <= synced + 1
      BY <1>2, <3>1, <3>2
    <3> QED BY <3>1, <3>3, <3>4
  <2>2. \A i, j \in DOMAIN fs' : i < j => fs'[i].seq < fs'[j].seq /\ fs'[i].txg <= fs'[j].txg
    BY <1>3 DEF RecInv, FsOrder
  <2> QED BY <2>1, <2>2 DEF FsOrder
<1>7. HeaderOk(hdr_disk, zh_log, synced)'
  <2>1. HeaderOk(hdr_disk, zh_log, synced)
    BY DEF RecInv
  <2>2. fs = <<>> => fs' = <<>>
    <3>1. fs = <<>> => OnDisk = 0
      BY OnDiskIs
    <3> QED BY <1>1, <1>3, <3>1, EmptySeq
  <2>3. phase # "running" \/ hdr_disk.claim_txg = 0
    BY <1>4 DEF NoHeader
  <2>4. CASE hdr_disk.claim_txg = 0
    BY <1>1, <2>1, <2>2, <2>4 DEF HeaderOk
  <2>5. CASE hdr_disk.claim_txg # 0
    BY <1>1, <1>3, <2>1, <2>3, <2>5 DEF HeaderOk
  <2> QED BY <2>4, <2>5
<1>8. HeaderOk(hdr, zh_syncing, Syncing)'
  BY <1>1, <1>2, <1>7 DEF HeaderOk
<1>9. ReplayOk'
  <2>1. \A i \in DOMAIN fs' : fs'[i].txg <= synced /\ fs'[i].txg \in Nat
    BY <1>3, EntryTypes DEF RecInv
  <2>2. hdr'.claim_txg # 0 => \A i \in DOMAIN fs' : fs'[i].seq <= hdr'.replay_seq
    BY <1>1, <1>7, <2>1 DEF HeaderOk
  <2>3. \A i \in DOMAIN fs' : ~(Syncing' < fs'[i].txg)
    BY <1>2, <2>1
  <2>4. \A u \in 0 .. TXG_SIZE - 1 : replayed_seq'[u] = 0
    BY <1>1 DEF NoneReplayed
  <2> QED BY <1>1, <2>2, <2>3, <2>4 DEF ReplayOk, NoneReplayed
<1>10. DestroyOk' /\ PhaseOk'
  BY <1>1 DEF DestroyOk, PhaseOk, NoDestroy, NoneReplayed
<1> QED BY <1>5, <1>6, <1>7, <1>8, <1>9, <1>10 DEF RecInv

LEMMA RecRunning ==
  ASSUME PoolInv, PoolInv', RecInv, Running
  PROVE  RecInv'
<1>1. phase = "running" /\ UNCHANGED recoveryVars
  BY DEF Running, Up
<1>2. /\ hdr = NoHeader /\ hdr_disk = NoHeader /\ fs = <<>> /\ DOMAIN fs = {} /\ base = 0
      /\ replayed_seq = NoneReplayed /\ destroy = NoDestroy
  BY <1>1 DEF RecInv, PhaseOk, DestroyOk
<1>3. RecTypes'
  BY <1>1, <1>2 DEF RecInv, RecTypes, recoveryVars, PoolInv
<1>4. FsOrder' /\ HeaderOk(hdr, zh_syncing, Syncing)' /\ HeaderOk(hdr_disk, zh_log, synced)'
  BY <1>1, <1>2 DEF FsOrder, HeaderOk, NoHeader, recoveryVars
<1>5. ReplayOk' /\ DestroyOk' /\ PhaseOk'
  BY <1>1, <1>2 DEF ReplayOk, DestroyOk, PhaseOk, NoHeader, NoDestroy, NoneReplayed, recoveryVars
<1> QED BY <1>3, <1>4, <1>5 DEF RecInv

LEMMA RecStutter ==
  ASSUME RecInv, UNCHANGED allVars
  PROVE  RecInv'
<1> USE DEF allVars, vars, poolVars, recoveryVars
<1>1. RecTypes' /\ FsOrder'
  BY DEF RecInv, RecTypes, FsOrder
<1>2. Syncing' = Syncing
  BY DEF Syncing
<1>3. HeaderOk(hdr, zh_syncing, Syncing)' /\ HeaderOk(hdr_disk, zh_log, synced)'
  BY <1>2 DEF RecInv, HeaderOk
<1>4. ReplayOk' /\ DestroyOk' /\ PhaseOk'
  BY <1>2 DEF RecInv, ReplayOk, DestroyOk, PhaseOk
<1> QED BY <1>1, <1>3, <1>4 DEF RecInv

LEMMA DiskStep ==
  ASSUME ZilInv, DiskInv, [ReplayNext]_allVars
  PROVE  DiskInv'
<1> USE DEF vars, poolVars, lwbVars, recoveryVars, LogQuiet
<1>1. CASE Running
  <2>1. PoolInv /\ RunInv /\ Next
    BY <1>1 DEF Running, Up, ZilInv
  <2> QED BY <2>1, DiskRunning
<1>2. CASE Crash
  BY <1>2, DiskCrash
<1>3. CASE SyncHeaderDone
  BY <1>3, SyncDoneRecs DEF SyncHeaderDone
<1>4. CASE ReplaySkip \/ ReplayError \/ ReplayFails \/ ReplayNoObject \/ RetryError
           \/ WaitSynced \/ OpenNextGroup \/ SyncNextGroup \/ Mount \/ Replay \/ ReplayEnd \/ Claim
  <2>1. LogQuiet
    BY <1>4 DEF ReplaySkip, ReplayError, ReplayFails, ReplayNoObject, RetryError,
                WaitSynced, OpenNextGroup, SyncNextGroup,
                ZilClean, UbSync, Mount, Replay, ReplayEnd, Claim
  <2> QED BY <2>1, DiskFrame
<1>5. CASE ClaimClear \/ SyncHeader
  <2>1. UNCHANGED <<lwb, disk, zh_log>> /\ zh_syncing' \in {zh_syncing, 0}
    BY <1>5 DEF ClaimClear, SyncHeader
  <2> QED BY <2>1 DEF DiskInv, RecsOk
<1>6. CASE UNCHANGED allVars
  BY <1>6, DiskFrame DEF allVars
<1> QED BY <1>1, <1>2, <1>3, <1>4, <1>5, <1>6 DEF ReplayNext, Recovery

LEMMA RecStep ==
  ASSUME ZilInv, ZilInv', DiskInv, RecInv, [ReplayNext]_allVars
  PROVE  RecInv'
<1>1. PoolInv /\ PoolInv'
  BY DEF ZilInv
<1>2. CASE Running
  BY <1>1, <1>2, RecRunning
<1>3. CASE Crash
  BY <1>1, <1>3, RecCrash
<1>4. CASE ReplaySkip \/ ReplayError \/ ReplayFails \/ ReplayNoObject \/ RetryError
           \/ WaitSynced \/ OpenNextGroup \/ SyncNextGroup
  BY <1>1, <1>4, RecQuiet
<1>5. CASE Mount \/ ReplayEnd \/ Claim \/ ClaimClear \/ Replay
  BY <1>1, <1>5, RecDestroy, RecClaim, RecClear, RecReplay
<1>6. CASE SyncHeader \/ SyncHeaderDone
  BY <1>1, <1>6, RecSync, RecSyncDone
<1>7. CASE UNCHANGED allVars
  BY <1>7, RecStutter
<1> QED BY <1>2, <1>3, <1>4, <1>5, <1>6, <1>7 DEF ReplayNext, Recovery

LEMMA RecInvHolds == ReplaySpec => [](DiskInv /\ RecInv)
<1>1. ReplayInit => DiskInv /\ RecInv
  BY DiskInit, RecInit
<1>2. ZilInv /\ ZilInv' /\ (DiskInv /\ RecInv) /\ [ReplayNext]_allVars => (DiskInv /\ RecInv)'
  BY DiskStep, RecStep
<1> QED BY <1>1, <1>2, ZilInvHolds, PTL DEF ReplaySpec

(* zil_replay_log_record: however often the system crashes, in the replay  *)
(* too, no record is replayed twice or on top of its own transaction, they *)
(* are replayed in the order of the log, and none past what was claimed.   *)
THEOREM ReplayedOnceSafe == ReplaySpec => []ReplayedOnce
BY RecInvHolds, RecReplayedOnce, PTL

(* zil_sync: the header on disk always has the sequence number of the last *)
(* record whose change is on disk with it, and a dataset that is mounted   *)
(* when its zl_destroy_txg is synced has a header that is not claimed.     *)
THEOREM HeaderSafe == ReplaySpec => []HeaderMatches
<1>1. ZilInv => PoolInv
  BY DEF ZilInv
<1> QED BY <1>1, ZilInvHolds, RecInvHolds, RecHeaderMatches, PTL

-----------------------------------------------------------------------------
(***************************************************************************)
(* The order of the records of a group on their way from the queue to the  *)
(* log.  In the operators C[b] for b in 1 .. n is what is in block b, L    *)
(* the commit list, Q[i] the synchronous list of slot i, log all records   *)
(* as they were logged, s the last synced group, D the groups of records   *)
(* that were given up because their group is waited for instead, and G the *)
(* records zl_get_data found gone.                                         *)
(***************************************************************************)
In(r, q) == \E k \in DOMAIN q : q[k] = r
Before(r, q, k) == \E m \in DOMAIN q : m < k /\ q[m] = r
Stored(r, C, n) == \E b \in 1 .. n : In(r, C[b])

(* Wherever r is, q is further on; and every record is somewhere.          *)
StoredAfter(q, r, C, n) ==
    \A b \in 1 .. n : \A k \in DOMAIN C[b] : C[b][k] = r =>
        (\E c \in 1 .. b - 1 : In(q, C[c])) \/ Before(q, C[b], k)
ListedAfter(q, r, C, n, L, D) ==
    \A k \in DOMAIN L : L[k] = r =>
        Stored(q, C, n) \/ Before(q, L, k) \/ q.txg \in D
QueuedAfter(q, r, C, n, L, Q, D) ==
    \A k \in DOMAIN Q[Slot(r.txg)] : Q[Slot(r.txg)][k] = r =>
        Stored(q, C, n) \/ In(q, L) \/ Before(q, Q[Slot(r.txg)], k) \/ q.txg \in D
Placed(q, C, n, L, Q, D) ==
    Stored(q, C, n) \/ In(q, L) \/ In(q, Q[Slot(q.txg)]) \/ q.txg \in D

Counts(r, s) == r.sync /\ r.txg > s
Ordered(C, n, L, Q, D, G, log, s) ==
    /\ \A i \in DOMAIN log : Counts(log[i], s) /\ log[i] \notin G =>
            Placed(log[i], C, n, L, Q, D)
    /\ \A i, j \in DOMAIN log :
        /\ i < j /\ Counts(log[i], s) /\ log[i] \notin G
        /\ Counts(log[j], s) /\ log[i].txg = log[j].txg
        => /\ StoredAfter(log[i], log[j], C, n)
           /\ ListedAfter(log[i], log[j], C, n, L, D)
           /\ QueuedAfter(log[i], log[j], C, n, L, Q, D)

Content(b) == IF lwb[b].state = "FREE" THEN disk[b].recs ELSE lwb[b].recs
Contents == [b \in 1 .. Len(lwb) |-> Content(b)]
Queues == [i \in 0 .. TXG_SIZE - 1 |-> itxg[i].sync]
GivesUp(th, t) == \/ pc[th] \in {"process", "create_wait"} /\ cur = 0
                  \/ pc[th] \in {"eio"} \cup Stalls /\ t <= Head(pos[th])
GivenUp == {t \in 0 .. open : \E th \in Threads : GivesUp(th, t)}

(* What is on disk of a block, by the state of its lwb.                    *)
Unwritten == {"CLOSED", "OPENED", "ISSUED"}
Done == {"WRITE_DONE", "FLUSH_DONE"}
OnDiskOk(l, d, b, F, s) ==
    /\ l.state \in Unwritten => d.at \in {"unwritten", "reused"}
    /\ l.state \in Done => d.recs = l.recs
    /\ l.state = "FREE" /\ b \notin F => d.recs = <<>> /\ d.at \in {"unwritten", "reused"}
    /\ \A k \in DOMAIN l.recs : l.recs[k].txg <= l.max_txg
    /\ b \in F => /\ l.state = "FREE"
                  /\ \A k \in DOMAIN d.recs : d.recs[k].txg <= s + 1
WrittenInv == \A b \in 1 .. Len(lwb) : OnDiskOk(lwb[b], disk[b], b, freed, synced)

(* The chain: its blocks in the order of their numbers, up to the last.    *)
ChainInv ==
    /\ \A i, j \in DOMAIN lwb_list : i < j => lwb_list[i] < lwb_list[j]
    /\ lwb_list # <<>> => /\ lwb_list[Len(lwb_list)] = Len(lwb)
                          /\ zh_syncing \in {0, lwb_list[1]}
    /\ lwb_list = <<>> /\ zh_syncing # 0 => zh_syncing = Len(lwb)
    /\ freed \subseteq 1 .. Len(lwb) /\ zh_syncing \notin freed
    /\ spa # "sync" => freed = {}
    /\ zh_log # 0 => \A b \in 1 .. zh_log - 1 : Content(b) = <<>>

(* The itxs in a slot are of its group, the asynchronous ones among them;  *)
(* the records that were logged; and what a thread is about to do.         *)
SlotOk(g) ==
    /\ \A k \in DOMAIN g.sync : g.sync[k].txg = g.txg
    /\ \A th \in Threads : \A k \in DOMAIN g.async[th] :
            ~g.async[th][k].sync /\ g.async[th][k].txg = g.txg
    /\ g.txg = 0 => g.sync = <<>> /\ \A th \in Threads : g.async[th] = <<>>
LoggedInv == logged \in Seq(Itxs) /\ \A j \in DOMAIN logged : logged[j].n # 0
HeadOk(th) == /\ pc[th] = "log" => budget.recs[th] > 0 /\ tx[th] # 0
              /\ pc[th] = "commit_itx" => tx[th] # 0
              /\ pc[th] \in {"eio"} \cup Stalls => Head(pos[th]) \in Nat
HeadInv == \A th \in Threads : HeadOk(th)
EntryInv == (\A i \in 0 .. TXG_SIZE - 1 : SlotOk(itxg[i])) /\ LoggedInv /\ HeadInv

(* A record is logged once: what is anywhere was not logged later.         *)
Known(z) == z.n = 0 \/ z.n > budget.recs[z.by]
AllKnown(q) == \A k \in DOMAIN q : Known(q[k])
KnownInv ==
    /\ \A b \in 1 .. Len(lwb) : AllKnown(Content(b))
    /\ AllKnown(commit_list)
    /\ \A i \in 0 .. TXG_SIZE - 1 : /\ AllKnown(itxg[i].sync)
                                    /\ \A th \in Threads : AllKnown(itxg[i].async[th])

GroupOrder == Ordered(Contents, Len(lwb), commit_list, Queues, GivenUp, vanished, logged, synced)
OrderInv == WrittenInv /\ ChainInv /\ EntryInv /\ KnownInv /\ GroupOrder

-----------------------------------------------------------------------------
(* Blocks are added, emptied of records that count no more, and so are     *)
(* slots; more is synced.                                                  *)
LEMMA OrderKept ==
  ASSUME NEW n \in Nat, NEW n2 \in Nat, n <= n2, NEW C, NEW C2, NEW L, NEW Q, NEW Q2,
         NEW D, NEW D2, NEW G, NEW log, NEW s \in Int, NEW s2 \in Int, s <= s2,
         \A i \in DOMAIN log : log[i].txg \in Nat,
         Ordered(C, n, L, Q, D, G, log, s),
         \A b \in 1 .. n : \/ C2[b] = C[b]
                           \/ C2[b] = <<>> /\ \A k \in DOMAIN C[b] : C[b][k].txg <= s2,
         \A b \in n + 1 .. n2 : C2[b] = <<>>,
         \A i \in 0 .. TXG_SIZE - 1 :
            \/ Q2[i] = Q[i]
            \/ Q2[i] = <<>> /\ \A k \in DOMAIN Q[i] : Q[i][k].txg <= s2,
         \A t \in D : t \in D2 \/ t <= s2
  PROVE  Ordered(C2, n2, L, Q2, D2, G, log, s2)
<1> DEFINE Fit(q) == q.txg \in Nat /\ q.txg > s2
<1>1. \A q : Fit(q) => /\ \A b \in 1 .. n : In(q, C[b]) => C2[b] = C[b] /\ In(q, C2[b])
                       /\ \A b \in 1 .. n2 : In(q, C2[b]) => b \in 1 .. n /\ C2[b] = C[b]
  BY DEF In
<1>2. \A q : Fit(q) /\ Stored(q, C, n) => Stored(q, C2, n2)
  BY <1>1 DEF Stored
<1>3. \A q : Fit(q) => /\ Slot(q.txg) \in 0 .. TXG_SIZE - 1
                       /\ In(q, Q[Slot(q.txg)]) => Q2[Slot(q.txg)] = Q[Slot(q.txg)]
                       /\ q.txg \in D => q.txg \in D2
  <2> SUFFICES ASSUME NEW q, Fit(q)
               PROVE  /\ Slot(q.txg) \in 0 .. TXG_SIZE - 1
                      /\ In(q, Q[Slot(q.txg)]) => Q2[Slot(q.txg)] = Q[Slot(q.txg)]
                      /\ q.txg \in D => q.txg \in D2
    OBVIOUS
  <2>1. Slot(q.txg) \in 0 .. TXG_SIZE - 1
    BY SlotType
  <2>2. \A i \in 0 .. TXG_SIZE - 1 : In(q, Q[i]) => Q2[i] = Q[i]
    BY DEF In
  <2> QED BY <2>1, <2>2
<1>4. \A q : Fit(q) /\ Placed(q, C, n, L, Q, D) => Placed(q, C2, n2, L, Q2, D2)
  BY <1>2, <1>3 DEF Placed
<1>5. ASSUME NEW q, NEW r, Fit(q), Fit(r), q.txg = r.txg,
             StoredAfter(q, r, C, n), ListedAfter(q, r, C, n, L, D),
             QueuedAfter(q, r, C, n, L, Q, D)
      PROVE  /\ StoredAfter(q, r, C2, n2) /\ ListedAfter(q, r, C2, n2, L, D2)
             /\ QueuedAfter(q, r, C2, n2, L, Q2, D2)
  <2>1. StoredAfter(q, r, C2, n2)
    <3> SUFFICES ASSUME NEW b \in 1 .. n2, NEW k \in DOMAIN C2[b], C2[b][k] = r
                 PROVE  (\E c \in 1 .. b - 1 : In(q, C2[c])) \/ Before(q, C2[b], k)
      BY DEF StoredAfter
    <3>1. b \in 1 .. n /\ C2[b] = C[b]
      BY <1>1, <1>5 DEF In
    <3>2. (\E c \in 1 .. b - 1 : In(q, C[c])) \/ Before(q, C[b], k)
      BY <1>5, <3>1 DEF StoredAfter
    <3> QED BY <1>1, <1>5, <3>1, <3>2
  <2>2. ListedAfter(q, r, C2, n2, L, D2)
    BY <1>2, <1>3, <1>5 DEF ListedAfter
  <2>3. QueuedAfter(q, r, C2, n2, L, Q2, D2)
    <3> SUFFICES ASSUME NEW k \in DOMAIN Q2[Slot(r.txg)], Q2[Slot(r.txg)][k] = r
                 PROVE  \/ Stored(q, C2, n2) \/ In(q, L) \/ Before(q, Q2[Slot(r.txg)], k)
                        \/ q.txg \in D2
      BY DEF QueuedAfter
    <3>1. Q2[Slot(r.txg)] = Q[Slot(r.txg)]
      BY <1>3, <1>5
    <3> QED BY <1>2, <1>3, <1>5, <3>1 DEF QueuedAfter
  <2> QED BY <2>1, <2>2, <2>3
<1>6. \A i \in DOMAIN log : Counts(log[i], s2) => Fit(log[i]) /\ Counts(log[i], s)
  BY DEF Counts
<1> QED BY <1>4, <1>5, <1>6 DEF Ordered

LEMMA TailIs ==
  ASSUME NEW S, NEW L \in Seq(S), L # <<>>
  PROVE  /\ Len(L) \in Nat \ {0} /\ DOMAIN L = 1 .. Len(L)
         /\ DOMAIN Tail(L) = 1 .. Len(L) - 1
         /\ \A k \in DOMAIN Tail(L) : k + 1 \in DOMAIN L /\ Tail(L)[k] = L[k + 1]
         /\ \A k \in DOMAIN L :
              k = 1 \/ (k - 1 \in DOMAIN Tail(L) /\ Tail(L)[k - 1] = L[k])
         /\ Head(L) = L[1]
<1>1. Len(L) \in Nat \ {0} /\ DOMAIN L = 1 .. Len(L) /\ Head(L) = L[1]
  OBVIOUS
<1>2. PICK T \in Seq(S) : T = Tail(L)
  BY HeadTailProperties
<1>3. Len(T) = Len(L) - 1 /\ \A k \in 1 .. Len(L) - 1 : T[k] = L[k + 1]
  BY <1>2, HeadTailProperties, SMT
<1>4. DOMAIN T = 1 .. Len(L) - 1
  BY <1>3
<1>5. \A k \in 1 .. Len(L) : k = 1 \/ (k - 1 \in 1 .. Len(L) - 1 /\ T[k - 1] = L[k])
  <2> SUFFICES ASSUME NEW k \in 1 .. Len(L), k # 1
               PROVE  k - 1 \in 1 .. Len(L) - 1 /\ T[k - 1] = L[k]
    OBVIOUS
  <2>1. k - 1 \in 1 .. Len(L) - 1 /\ (k - 1) + 1 = k
    BY <1>1
  <2> QED BY <1>3, <2>1
<1>6. \A k \in 1 .. Len(L) - 1 : k + 1 \in 1 .. Len(L) /\ T[k] = L[k + 1]
  BY <1>1, <1>3
<1>7. /\ DOMAIN T = 1 .. Len(L) - 1
      /\ \A k \in DOMAIN T : k + 1 \in DOMAIN L /\ T[k] = L[k + 1]
      /\ \A k \in DOMAIN L : k = 1 \/ (k - 1 \in DOMAIN T /\ T[k - 1] = L[k])
  BY <1>1, <1>4, <1>5, <1>6, Zenon
<1> QED BY <1>1, <1>2, <1>7

(* The first itx of the commit list is dropped.                            *)
LEMMA OrderDropped ==
  ASSUME NEW n, NEW C, NEW L, L # <<>>, NEW S, L \in Seq(S), NEW Q, NEW D, NEW D2,
         D \subseteq D2, NEW G, NEW log, NEW s \in Int,
         \A i \in DOMAIN log : log[i].txg \in Nat,
         Ordered(C, n, L, Q, D, G, log, s), NEW G2, G \subseteq G2,
         \/ Head(L).txg <= s \/ Head(L).txg \in D2 \/ Head(L) \in G2
         \/ \A i \in DOMAIN log : log[i] # Head(L)
  PROVE  Ordered(C, n, Tail(L), Q, D2, G2, log, s)
<1> DEFINE Fit(q) == /\ q.txg \in Nat /\ q.txg > s /\ q \notin G2
                     /\ \E i \in DOMAIN log : q = log[i]
           L2 == Tail(L)
<1>0. /\ Len(L) \in Nat \ {0} /\ DOMAIN L = 1 .. Len(L) /\ DOMAIN L2 = 1 .. Len(L) - 1
      /\ \A k \in DOMAIN L2 : k + 1 \in DOMAIN L /\ L2[k] = L[k + 1]
      /\ \A k \in DOMAIN L : k = 1 \/ (k - 1 \in DOMAIN L2 /\ L2[k - 1] = L[k])
      /\ Head(L) = L[1]
  BY TailIs
<1> HIDE DEF L2
<1>1. ASSUME NEW q, Fit(q), NEW k \in DOMAIN L2, Before(q, L, k + 1)
      PROVE  Before(q, L2, k) \/ q.txg \in D2
  <2>1. PICK m \in DOMAIN L : m < k + 1 /\ L[m] = q
    BY <1>1 DEF Before
  <2>2. CASE m = 1
    BY <1>0, <1>1, <2>1, <2>2
  <2>3. CASE m # 1
    BY <1>0, <2>1, <2>3 DEF Before
  <2> QED BY <2>2, <2>3
<1>2. ASSUME NEW q, Fit(q), In(q, L)
      PROVE  In(q, L2) \/ q.txg \in D2
  <2>1. PICK m \in DOMAIN L : L[m] = q
    BY <1>2 DEF In
  <2>2. CASE m = 1
    BY <1>0, <1>2, <2>1, <2>2
  <2>3. CASE m # 1
    BY <1>0, <2>1, <2>3 DEF In
  <2> QED BY <2>2, <2>3
<1>3. \A q : Fit(q) /\ Placed(q, C, n, L, Q, D) => Placed(q, C, n, L2, Q, D2)
  BY <1>2 DEF Placed
<1>4. ASSUME NEW q, NEW r, Fit(q),
             ListedAfter(q, r, C, n, L, D), QueuedAfter(q, r, C, n, L, Q, D)
      PROVE  ListedAfter(q, r, C, n, L2, D2) /\ QueuedAfter(q, r, C, n, L2, Q, D2)
  <2>1. ListedAfter(q, r, C, n, L2, D2)
    <3> SUFFICES ASSUME NEW k \in DOMAIN L2, L2[k] = r
                 PROVE  Stored(q, C, n) \/ Before(q, L2, k) \/ q.txg \in D2
      BY DEF ListedAfter
    <3>1. Stored(q, C, n) \/ Before(q, L, k + 1) \/ q.txg \in D
      BY <1>0, <1>4 DEF ListedAfter
    <3> QED BY <1>1, <1>4, <3>1
  <2>2. QueuedAfter(q, r, C, n, L2, Q, D2)
    BY <1>2, <1>4 DEF QueuedAfter
  <2> QED BY <2>1, <2>2
<1>5. \A i \in DOMAIN log : Counts(log[i], s) /\ log[i] \notin G2 => Fit(log[i]) /\ log[i] \notin G
  BY DEF Counts
<1>6. Ordered(C, n, L2, Q, D2, G2, log, s)
  BY <1>3, <1>4, <1>5 DEF Ordered
<1> QED BY <1>6 DEF L2

LEMMA JoinIs ==
  ASSUME NEW S, NEW u \in Seq(S), NEW v \in Seq(S)
  PROVE  /\ Len(u) \in Nat /\ Len(v) \in Nat /\ Len(u \o v) = Len(u) + Len(v)
         /\ DOMAIN u = 1 .. Len(u) /\ DOMAIN v = 1 .. Len(v)
         /\ DOMAIN (u \o v) = 1 .. Len(u) + Len(v)
         /\ \A k \in DOMAIN u : k \in DOMAIN (u \o v) /\ (u \o v)[k] = u[k]
         /\ \A k \in DOMAIN v : /\ Len(u) + k \in DOMAIN (u \o v)
                                /\ (u \o v)[Len(u) + k] = v[k]
         /\ \A k \in DOMAIN (u \o v) :
              k \in DOMAIN u \/ (k - Len(u) \in DOMAIN v /\ k = Len(u) + (k - Len(u)))
<1>1. /\ Len(u) \in Nat /\ Len(v) \in Nat /\ DOMAIN u = 1 .. Len(u) /\ DOMAIN v = 1 .. Len(v)
  OBVIOUS
<1>2. PICK w \in Seq(S) : w = u \o v
  BY ConcatProperties
<1>3. /\ Len(w) = Len(u) + Len(v)
      /\ \A k \in 1 .. Len(u) : w[k] = u[k]
      /\ \A k \in 1 .. Len(v) : w[Len(u) + k] = v[k]
  <2>1. /\ Len(w) = Len(u) + Len(v)
        /\ \A k \in 1 .. Len(u) + Len(v) : w[k] = IF k <= Len(u) THEN u[k] ELSE v[k - Len(u)]
    BY <1>2, ConcatProperties
  <2>2. \A k \in 1 .. Len(v) : /\ Len(u) + k \in 1 .. Len(u) + Len(v)
                               /\ ~(Len(u) + k <= Len(u)) /\ (Len(u) + k) - Len(u) = k
    BY <1>1
  <2>3. \A k \in 1 .. Len(u) : k \in 1 .. Len(u) + Len(v) /\ k <= Len(u)
    BY <1>1
  <2>4. \A k \in 1 .. Len(v) : w[Len(u) + k] = v[k]
    <3> TAKE k \in 1 .. Len(v)
    <3>1. w[Len(u) + k] = v[(Len(u) + k) - Len(u)]
      BY <2>1, <2>2
    <3> QED BY <2>2, <3>1
  <2>5. \A k \in 1 .. Len(u) : w[k] = u[k]
    BY <2>1, <2>3
  <2> QED BY <2>1, <2>4, <2>5
<1>4. DOMAIN w = 1 .. Len(u) + Len(v)
  BY <1>3
<1>5. \A k \in 1 .. Len(u) + Len(v) :
        k \in 1 .. Len(u) \/ (k - Len(u) \in 1 .. Len(v) /\ k = Len(u) + (k - Len(u)))
  BY <1>1
<1>6. /\ \A k \in 1 .. Len(u) : k \in 1 .. Len(u) + Len(v)
      /\ \A k \in 1 .. Len(v) : Len(u) + k \in 1 .. Len(u) + Len(v)
  BY <1>1
<1> QED BY <1>1, <1>2, <1>3, <1>4, <1>5, <1>6, Zenon

(* The first itx of the commit list goes to the end of the last block.     *)
LEMMA OrderStored ==
  ASSUME NEW n \in Nat, n > 0, NEW C, NEW C2, NEW S, NEW L \in Seq(S), L # <<>>,
         C[n] \in Seq(S), NEW Q, NEW G, NEW log, NEW s \in Int,
         \A b \in 1 .. n - 1 : C2[b] = C[b],
         C2[n] = Append(C[n], Head(L)),
         Ordered(C, n, L, Q, {}, G, log, s)
  PROVE  Ordered(C2, n, Tail(L), Q, {}, G, log, s)
<1> DEFINE L2 == Tail(L)
<1>0. /\ Len(L) \in Nat \ {0} /\ DOMAIN L = 1 .. Len(L) /\ DOMAIN L2 = 1 .. Len(L) - 1
      /\ \A k \in DOMAIN L2 : k + 1 \in DOMAIN L /\ L2[k] = L[k + 1]
      /\ \A k \in DOMAIN L : k = 1 \/ (k - 1 \in DOMAIN L2 /\ L2[k - 1] = L[k])
      /\ Head(L) = L[1]
  BY TailIs
<1>1. /\ Len(C[n]) \in Nat /\ DOMAIN C[n] = 1 .. Len(C[n])
      /\ DOMAIN C2[n] = 1 .. Len(C[n]) + 1
      /\ \A k \in DOMAIN C[n] : k \in DOMAIN C2[n] /\ C2[n][k] = C[n][k]
      /\ C2[n][Len(C[n]) + 1] = L[1]
  <2>1. Head(L) \in S
    OBVIOUS
  <2>2. PICK w \in Seq(S) : w = Append(C[n], Head(L))
    BY <2>1, AppendProperties
  <2>3. /\ Len(C[n]) \in Nat /\ DOMAIN C[n] = 1 .. Len(C[n])
        /\ DOMAIN w = 1 .. Len(C[n]) + 1
        /\ \A k \in 1 .. Len(C[n]) : w[k] = C[n][k]
        /\ w[Len(C[n]) + 1] = Head(L)
    BY <2>1, <2>2
  <2> QED BY <1>0, <2>2, <2>3
<1> HIDE DEF L2
<1>2. /\ \A q, b : b \in 1 .. n /\ In(q, C[b]) => In(q, C2[b])
      /\ In(L[1], C2[n])
  <2>1. In(L[1], C2[n])
    BY <1>1 DEF In
  <2>2. \A q : In(q, C[n]) => In(q, C2[n])
    BY <1>1 DEF In
  <2>3. \A b \in 1 .. n : b = n \/ b \in 1 .. n - 1
    OBVIOUS
  <2> QED BY <2>1, <2>2, <2>3
<1>3. /\ \A q : Stored(q, C, n) => Stored(q, C2, n)
      /\ Stored(L[1], C2, n)
  <2>1. n \in 1 .. n
    OBVIOUS
  <2> QED BY <1>2, <2>1 DEF Stored
<1>4. ASSUME NEW q, In(q, L)
      PROVE  In(q, L2) \/ Stored(q, C2, n)
  BY <1>0, <1>3, <1>4 DEF In
<1>5. ASSUME NEW q, NEW k \in DOMAIN L2, Before(q, L, k + 1)
      PROVE  Before(q, L2, k) \/ Stored(q, C2, n)
  <2>1. PICK m \in DOMAIN L : m < k + 1 /\ L[m] = q
    BY <1>5 DEF Before
  <2> QED BY <1>0, <1>3, <2>1 DEF Before
<1>6. \A q : Placed(q, C, n, L, Q, {}) => Placed(q, C2, n, L2, Q, {})
  BY <1>3, <1>4 DEF Placed
<1>7. ASSUME NEW q, NEW r, StoredAfter(q, r, C, n), ListedAfter(q, r, C, n, L, {}),
             QueuedAfter(q, r, C, n, L, Q, {})
      PROVE  /\ StoredAfter(q, r, C2, n) /\ ListedAfter(q, r, C2, n, L2, {})
             /\ QueuedAfter(q, r, C2, n, L2, Q, {})
  <2>1. StoredAfter(q, r, C2, n)
    <3> SUFFICES ASSUME NEW b \in 1 .. n, NEW k \in DOMAIN C2[b], C2[b][k] = r
                 PROVE  (\E c \in 1 .. b - 1 : In(q, C2[c])) \/ Before(q, C2[b], k)
      BY DEF StoredAfter
    <3>0. \A c \in 1 .. b - 1 : c \in 1 .. n
      OBVIOUS
    <3>1. CASE k \in DOMAIN C[b] /\ C[b][k] = r
      <4>1. (\E c \in 1 .. b - 1 : In(q, C[c])) \/ Before(q, C[b], k)
        BY <1>7, <3>1 DEF StoredAfter
      <4>2. Before(q, C[b], k) => Before(q, C2[b], k)
        <5>1. CASE b = n
          BY <1>1, <5>1 DEF Before
        <5>2. CASE b # n
          <6>1. C2[b] = C[b]
            BY <5>2
          <6> QED BY <6>1
        <5> QED BY <5>1, <5>2
      <4> QED BY <1>2, <3>0, <4>1, <4>2
    <3>2. CASE ~(k \in DOMAIN C[b] /\ C[b][k] = r)
      <4>1. b = n
        <5>1. b # n => C2[b] = C[b]
          OBVIOUS
        <5> QED BY <3>2, <5>1
      <4>2. k = Len(C[n]) + 1 /\ r = L[1]
        <5>1. k \in DOMAIN C2[n] /\ C2[n][k] = r /\ ~(k \in DOMAIN C[n] /\ C[n][k] = r)
          BY <3>2, <4>1
        <5> QED BY <1>1, <5>1
      <4>3. Stored(q, C, n)
        <5>1. 1 \in DOMAIN L
          BY <1>0
        <5>2. Stored(q, C, n) \/ Before(q, L, 1)
          BY <1>7, <4>2, <5>1 DEF ListedAfter
        <5>3. ~Before(q, L, 1)
          BY <1>0 DEF Before
        <5> QED BY <5>2, <5>3
      <4>4. PICK c \in 1 .. n : In(q, C[c])
        BY <4>3 DEF Stored
      <4>5. CASE c = n
        <5>1. PICK m \in DOMAIN C[n] : C[n][m] = q
          BY <4>4, <4>5 DEF In
        <5>2. m < k /\ m \in DOMAIN C2[n] /\ C2[n][m] = q
          BY <1>1, <4>2, <5>1
        <5> QED BY <4>1, <5>2 DEF Before
      <4>6. CASE c # n
        <5>1. c \in 1 .. b - 1
          BY <4>1, <4>6
        <5> QED BY <1>2, <4>4, <5>1
      <4> QED BY <4>5, <4>6
    <3> QED BY <3>1, <3>2
  <2>2. ListedAfter(q, r, C2, n, L2, {})
    <3> SUFFICES ASSUME NEW k \in DOMAIN L2, L2[k] = r
                 PROVE  Stored(q, C2, n) \/ Before(q, L2, k)
      BY DEF ListedAfter
    <3>1. Stored(q, C, n) \/ Before(q, L, k + 1)
      BY <1>0, <1>7 DEF ListedAfter
    <3> QED BY <1>3, <1>5, <3>1
  <2>3. QueuedAfter(q, r, C2, n, L2, Q, {})
    BY <1>3, <1>4, <1>7 DEF QueuedAfter
  <2> QED BY <2>1, <2>2, <2>3
<1>8. Ordered(C2, n, L2, Q, {}, G, log, s)
  BY <1>6, <1>7 DEF Ordered
<1> QED BY <1>8 DEF L2

(* A slot x is moved to the end of the commit list.                        *)
LEMMA OrderFetched ==
  ASSUME NEW n, NEW C, NEW S, NEW L \in Seq(S), NEW Q, NEW Q2, NEW D, NEW G, NEW log, NEW s,
         NEW x \in 0 .. TXG_SIZE - 1, Q[x] \in Seq(S),
         \A k \in DOMAIN Q[x] : Slot(Q[x][k].txg) = x,
         Q2[x] = <<>>, \A i \in 0 .. TXG_SIZE - 1 : i # x => Q2[i] = Q[i],
         \A i \in DOMAIN log : log[i].txg \in Nat,
         Ordered(C, n, L, Q, D, G, log, s)
  PROVE  Ordered(C, n, L \o Q[x], Q2, D, G, log, s)
<1> DEFINE L2 == L \o Q[x]
           Fit(q) == q.txg \in Nat
<1>0. /\ Len(L) \in Nat /\ Len(Q[x]) \in Nat
      /\ DOMAIN L = 1 .. Len(L) /\ DOMAIN Q[x] = 1 .. Len(Q[x])
      /\ \A k \in DOMAIN L : k \in DOMAIN L2 /\ L2[k] = L[k]
      /\ \A k \in DOMAIN Q[x] : Len(L) + k \in DOMAIN L2 /\ L2[Len(L) + k] = Q[x][k]
      /\ \A k \in DOMAIN L2 :
           k \in DOMAIN L \/ (k - Len(L) \in DOMAIN Q[x] /\ k = Len(L) + (k - Len(L)))
  BY JoinIs
<1> HIDE DEF L2
<1>1. /\ \A q : In(q, L) => In(q, L2)
      /\ \A q : In(q, Q[x]) => In(q, L2)
      /\ \A q : \A k \in DOMAIN L : Before(q, L, k) => Before(q, L2, k)
      /\ \A q : \A k \in DOMAIN Q[x] : In(q, L) => Before(q, L2, Len(L) + k)
      /\ \A q : \A k \in DOMAIN Q[x] : Before(q, Q[x], k) => Before(q, L2, Len(L) + k)
  BY <1>0 DEF In, Before
<1>2. \A q : Fit(q) => /\ Slot(q.txg) \in 0 .. TXG_SIZE - 1
                       /\ Slot(q.txg) # x => Q2[Slot(q.txg)] = Q[Slot(q.txg)]
  BY SlotType
<1>3. \A q : Fit(q) /\ Placed(q, C, n, L, Q, D) => Placed(q, C, n, L2, Q2, D)
  BY <1>1, <1>2 DEF Placed
<1>4. ASSUME NEW q, NEW r, Fit(q), Fit(r),
             ListedAfter(q, r, C, n, L, D), QueuedAfter(q, r, C, n, L, Q, D)
      PROVE  ListedAfter(q, r, C, n, L2, D) /\ QueuedAfter(q, r, C, n, L2, Q2, D)
  <2>1. ListedAfter(q, r, C, n, L2, D)
    <3> SUFFICES ASSUME NEW k \in DOMAIN L2, L2[k] = r
                 PROVE  Stored(q, C, n) \/ Before(q, L2, k) \/ q.txg \in D
      BY DEF ListedAfter
    <3>1. CASE k \in DOMAIN L
      <4>1. L[k] = r
        BY <1>0, <3>1
      <4> QED BY <1>1, <1>4, <3>1, <4>1 DEF ListedAfter
    <3>2. CASE k \notin DOMAIN L
      <4> DEFINE m == k - Len(L)
      <4>1. m \in DOMAIN Q[x] /\ k = Len(L) + m
        BY <1>0, <3>2
      <4> HIDE DEF m
      <4>2. Q[x][m] = r
        BY <1>0, <4>1
      <4>3. Slot(r.txg) = x
        BY <4>1, <4>2
      <4>4. Stored(q, C, n) \/ In(q, L) \/ Before(q, Q[x], m) \/ q.txg \in D
        BY <1>4, <4>1, <4>2, <4>3 DEF QueuedAfter
      <4> QED BY <1>1, <4>1, <4>4
    <3> QED BY <3>1, <3>2
  <2>2. QueuedAfter(q, r, C, n, L2, Q2, D)
    <3>1. CASE Slot(r.txg) = x
      BY <3>1 DEF QueuedAfter
    <3>2. CASE Slot(r.txg) # x
      BY <1>1, <1>2, <1>4, <3>2 DEF QueuedAfter
    <3> QED BY <3>1, <3>2
  <2> QED BY <2>1, <2>2
<1>5. Ordered(C, n, L2, Q2, D, G, log, s)
  BY <1>3, <1>4 DEF Ordered
<1> QED BY <1>5 DEF L2

(* One slot of the queues Q grows to that of R by records that are not     *)
(* synchronous ones of the log.                                            *)
Longer(Q, R, log) ==
    \E x \in 0 .. TXG_SIZE - 1 : \E S : \E more \in Seq(S) :
        /\ Q[x] \in Seq(S) /\ R[x] = Q[x] \o more
        /\ \A i \in 0 .. TXG_SIZE - 1 : i # x => R[i] = Q[i]
        /\ \A i \in DOMAIN log : log[i].txg \in Nat
        /\ \A k \in DOMAIN more : \A i \in DOMAIN log : log[i].sync => more[k] # log[i]

(* A slot x gets more itxs, none of which is among those that were logged. *)
LEMMA OrderQueued ==
  ASSUME NEW n, NEW C, NEW L, NEW Q, NEW Q2, NEW D, NEW G, NEW log, NEW s,
         Longer(Q, Q2, log), Ordered(C, n, L, Q, D, G, log, s)
  PROVE  Ordered(C, n, L, Q2, D, G, log, s)
<1> SUFFICES ASSUME NEW x \in 0 .. TXG_SIZE - 1, NEW S, NEW more \in Seq(S),
                    Q[x] \in Seq(S), Q2[x] = Q[x] \o more,
                    \A i \in 0 .. TXG_SIZE - 1 : i # x => Q2[i] = Q[i],
                    \A i \in DOMAIN log : log[i].txg \in Nat,
                    \A k \in DOMAIN more : \A i \in DOMAIN log :
                        log[i].sync => more[k] # log[i]
             PROVE  Ordered(C, n, L, Q2, D, G, log, s)
  BY DEF Longer
<1> DEFINE Fit(q) == q.txg \in Nat /\ \A k \in DOMAIN more : more[k] # q
<1>0. /\ Len(Q[x]) \in Nat
      /\ \A k \in DOMAIN Q[x] : k \in DOMAIN Q2[x] /\ Q2[x][k] = Q[x][k]
      /\ \A k \in DOMAIN more : Q2[x][Len(Q[x]) + k] = more[k]
      /\ \A k \in DOMAIN Q2[x] : \/ k \in DOMAIN Q[x]
                                 \/ /\ k - Len(Q[x]) \in DOMAIN more
                                    /\ k = Len(Q[x]) + (k - Len(Q[x]))
  <2> DEFINE w == Q[x] \o more
  <2>2. /\ Len(Q[x]) \in Nat
        /\ \A k \in DOMAIN Q[x] : k \in DOMAIN w /\ w[k] = Q[x][k]
        /\ \A k \in DOMAIN more : w[Len(Q[x]) + k] = more[k]
        /\ \A k \in DOMAIN w : \/ k \in DOMAIN Q[x]
                               \/ /\ k - Len(Q[x]) \in DOMAIN more
                                  /\ k = Len(Q[x]) + (k - Len(Q[x]))
    BY JoinIs
  <2> HIDE DEF w
  <2>3. Q2[x] = w
    BY DEF w
  <2> QED BY <2>2, <2>3
<1>1. /\ \A q : In(q, Q[x]) => In(q, Q2[x])
      /\ \A q : \A k \in DOMAIN Q[x] : Before(q, Q[x], k) => Before(q, Q2[x], k)
  BY <1>0 DEF In, Before
<1>2. \A r : Fit(r) => \A k \in DOMAIN Q2[x] : Q2[x][k] = r => k \in DOMAIN Q[x]
  BY <1>0
<1>3. /\ \A q : Fit(q) => Slot(q.txg) \in 0 .. TXG_SIZE - 1
      /\ \A q : Fit(q) /\ In(q, Q[Slot(q.txg)]) => In(q, Q2[Slot(q.txg)])
  BY <1>1, SlotType
<1>4. \A q : Fit(q) /\ Placed(q, C, n, L, Q, D) => Placed(q, C, n, L, Q2, D)
  BY <1>3 DEF Placed
<1>5. ASSUME NEW q, NEW r, Fit(q), Fit(r), QueuedAfter(q, r, C, n, L, Q, D)
      PROVE  QueuedAfter(q, r, C, n, L, Q2, D)
  <2>1. CASE Slot(r.txg) = x
    BY <1>0, <1>1, <1>2, <1>5, <2>1 DEF QueuedAfter
  <2>2. CASE Slot(r.txg) # x
    BY <1>3, <1>5, <2>2 DEF QueuedAfter
  <2> QED BY <2>1, <2>2
<1>6. \A i \in DOMAIN log : Counts(log[i], s) => Fit(log[i])
  BY DEF Counts
<1> QED BY <1>4, <1>5, <1>6 DEF Ordered

(* A new record is logged and put at the end of the slot of its group.     *)
LEMMA OrderLogged ==
  ASSUME NEW n, NEW C, NEW L, NEW S, NEW Q, NEW Q2, NEW D, NEW s, NEW T, NEW G, NEW log \in Seq(T),
         NEW r \in T, r \in S, r.txg \in Nat, NEW x \in 0 .. TXG_SIZE - 1, Slot(r.txg) = x,
         Q[x] \in Seq(S), Q2[x] = Append(Q[x], r),
         ~Stored(r, C, n), ~In(r, L), ~In(r, Q[x]),
         \A i \in 0 .. TXG_SIZE - 1 : i # x => Q2[i] = Q[i],
         \A i \in DOMAIN log : log[i].txg \in Nat,
         Ordered(C, n, L, Q, D, G, log, s)
  PROVE  Ordered(C, n, L, Q2, D, G, Append(log, r), s)
<1> DEFINE log2 == Append(log, r)
           e == Len(Q[x]) + 1
           Fit(q) == q.txg \in Nat
           Ok(q) == Placed(q, C, n, L, Q, D)
<1>0. /\ Len(log) \in Nat /\ DOMAIN log = 1 .. Len(log) /\ DOMAIN log2 = 1 .. Len(log) + 1
      /\ \A i \in DOMAIN log : log2[i] = log[i]
      /\ log2[Len(log) + 1] = r
  OBVIOUS
<1>1. /\ Len(Q[x]) \in Nat /\ DOMAIN Q[x] = 1 .. Len(Q[x]) /\ DOMAIN Q2[x] = 1 .. e
      /\ \A k \in DOMAIN Q[x] : Q2[x][k] = Q[x][k]
      /\ Q2[x][e] = r
  <2>1. PICK w \in Seq(S) : w = Append(Q[x], r)
    BY AppendProperties
  <2>2. /\ Len(Q[x]) \in Nat /\ DOMAIN Q[x] = 1 .. Len(Q[x]) /\ DOMAIN w = 1 .. e
        /\ \A k \in DOMAIN Q[x] : w[k] = Q[x][k]
        /\ w[e] = r
    BY <2>1
  <2> QED BY <2>1, <2>2
<1> HIDE DEF log2
<1>2. /\ \A q : In(q, Q[x]) => In(q, Q2[x]) /\ Before(q, Q2[x], e)
      /\ \A q : \A k \in DOMAIN Q[x] : Before(q, Q[x], k) => Before(q, Q2[x], k)
      /\ In(r, Q2[x])
  <2>1. e \in 1 .. e /\ \A k \in 1 .. Len(Q[x]) : k \in 1 .. e /\ k < e
    BY <1>1
  <2> HIDE DEF e
  <2>2. In(r, Q2[x])
    BY <1>1, <2>1 DEF In
  <2>3. \A q : In(q, Q[x]) => In(q, Q2[x]) /\ Before(q, Q2[x], e)
    BY <1>1, <2>1 DEF In, Before
  <2>4. \A q : \A k \in DOMAIN Q[x] : Before(q, Q[x], k) => Before(q, Q2[x], k)
    BY <1>1, <2>1 DEF Before
  <2> QED BY <2>2, <2>3, <2>4
<1>3. /\ \A q : Fit(q) => Slot(q.txg) \in 0 .. TXG_SIZE - 1
      /\ \A q : Fit(q) /\ In(q, Q[Slot(q.txg)]) => In(q, Q2[Slot(q.txg)])
  BY <1>2, SlotType
<1>4. /\ \A q : Fit(q) /\ Ok(q) => Placed(q, C, n, L, Q2, D)
      /\ Placed(r, C, n, L, Q2, D)
  BY <1>2, <1>3 DEF Placed
<1>5. ASSUME NEW q, NEW o, Fit(q), Fit(o), q.txg = o.txg, Ok(q),
             QueuedAfter(q, o, C, n, L, Q, D)
      PROVE  QueuedAfter(q, o, C, n, L, Q2, D)
  <2>1. CASE Slot(o.txg) # x
    BY <1>3, <1>5, <2>1 DEF QueuedAfter
  <2>2. CASE Slot(o.txg) = x
    <3> SUFFICES ASSUME NEW k \in DOMAIN Q2[x], Q2[x][k] = o
                 PROVE  Stored(q, C, n) \/ In(q, L) \/ Before(q, Q2[x], k) \/ q.txg \in D
      BY <2>2 DEF QueuedAfter
    <3>1. CASE k \in DOMAIN Q[x]
      <4>1. Q[x][k] = o
        BY <1>1, <3>1
      <4>2. Stored(q, C, n) \/ In(q, L) \/ Before(q, Q[x], k) \/ q.txg \in D
        BY <1>5, <2>2, <3>1, <4>1 DEF QueuedAfter
      <4> QED BY <1>2, <3>1, <4>2
    <3>2. CASE k \notin DOMAIN Q[x]
      <4>1. k = e
        BY <1>1, <3>2
      <4> QED BY <1>2, <1>5, <2>2, <4>1 DEF Placed
    <3> QED BY <3>1, <3>2
  <2> QED BY <2>1, <2>2
<1>6. ASSUME NEW q, Fit(q), q.txg = r.txg, Ok(q)
      PROVE  /\ StoredAfter(q, r, C, n) /\ ListedAfter(q, r, C, n, L, D)
             /\ QueuedAfter(q, r, C, n, L, Q2, D)
  <2>1. StoredAfter(q, r, C, n) /\ ListedAfter(q, r, C, n, L, D)
    BY DEF StoredAfter, ListedAfter, Stored, In
  <2>2. QueuedAfter(q, r, C, n, L, Q, D)
    BY DEF QueuedAfter, In
  <2> QED BY <1>5, <1>6, <2>1, <2>2
<1>7. \A i \in DOMAIN log2 : i \in DOMAIN log \/ i = Len(log) + 1
  BY <1>0
<1>8. \A i \in DOMAIN log : Counts(log[i], s) /\ log[i] \notin G => Ok(log[i]) /\ Fit(log[i])
  BY DEF Ordered
<1>9. ASSUME NEW i \in DOMAIN log2, NEW j \in DOMAIN log2, i < j, Counts(log2[i], s),
             log2[i] \notin G, Counts(log2[j], s), log2[i].txg = log2[j].txg
      PROVE  /\ StoredAfter(log2[i], log2[j], C, n)
             /\ ListedAfter(log2[i], log2[j], C, n, L, D)
             /\ QueuedAfter(log2[i], log2[j], C, n, L, Q2, D)
  <2>1. i \in DOMAIN log /\ log2[i] = log[i]
    BY <1>0, <1>9
  <2>2. CASE j \in DOMAIN log
    <3>1. log2[j] = log[j] /\ Fit(log[i]) /\ Fit(log[j])
      BY <1>0, <2>1, <2>2
    <3>2. /\ StoredAfter(log[i], log[j], C, n) /\ ListedAfter(log[i], log[j], C, n, L, D)
          /\ QueuedAfter(log[i], log[j], C, n, L, Q, D)
      BY <1>9, <2>1, <2>2, <3>1 DEF Ordered
    <3> QED BY <1>5, <1>8, <1>9, <2>1, <3>1, <3>2
  <2>3. CASE j \notin DOMAIN log
    <3>1. log2[j] = r
      BY <1>0, <1>7, <2>3
    <3> QED BY <1>6, <1>8, <1>9, <2>1, <3>1
  <2> QED BY <2>2, <2>3
<1>10. \A i \in DOMAIN log2 : Counts(log2[i], s) /\ log2[i] \notin G => Placed(log2[i], C, n, L, Q2, D)
  BY <1>0, <1>4, <1>7, <1>8
<1>11. Ordered(C, n, L, Q2, D, G, log2, s)
  BY <1>9, <1>10 DEF Ordered
<1> QED BY <1>11 DEF log2

-----------------------------------------------------------------------------
LEMMA OrderNext ==
  ASSUME Ordered(Contents', Len(lwb'), commit_list', Queues', GivenUp', vanished', logged', synced')
  PROVE  GroupOrder'
BY DEF GroupOrder

(* What a record that is logged asynchronously adds.                       *)
LEMMA OrderLoggedAsync ==
  ASSUME NEW n, NEW C, NEW L, NEW Q, NEW D, NEW s, NEW T, NEW G, NEW log \in Seq(T), NEW r \in T,
         ~r.sync, Ordered(C, n, L, Q, D, G, log, s)
  PROVE  Ordered(C, n, L, Q, D, G, Append(log, r), s)
<1>1. PICK log2 : log2 = Append(log, r)
  OBVIOUS
<1>2. /\ \A i \in DOMAIN log2 : i \in DOMAIN log \/ log2[i] = r
      /\ \A i \in DOMAIN log : log2[i] = log[i]
  BY <1>1
<1>3. \A i \in DOMAIN log2 : Counts(log2[i], s) => i \in DOMAIN log /\ log2[i] = log[i]
  BY <1>2 DEF Counts
<1>4. Ordered(C, n, L, Q, D, G, log2, s)
  BY <1>3 DEF Ordered
<1> QED BY <1>1, <1>4

(* The blocks as a thread or a callback may change them: what was recorded *)
(* is kept, and a block is written as its lwb says.                        *)
Moved(l, m, d, e) ==
    \/ /\ m.state = l.state /\ m.recs = l.recs /\ m.max_txg = l.max_txg
       /\ e = d \/ (d.at \in Cached /\ e.recs = d.recs)
    \/ /\ l.state \in Unwritten /\ m.state \in Unwritten /\ e = d
       /\ m.recs = l.recs /\ m.max_txg = l.max_txg
    \/ /\ l.state \in Unwritten \cup Done /\ m.state \in Done /\ e.recs = l.recs
       /\ m.recs = l.recs /\ m.max_txg = l.max_txg

LEMMA MovedOk ==
  ASSUME NEW l, NEW m, NEW d, NEW e, Moved(l, m, d, e), NEW b, NEW F, NEW s,
         OnDiskOk(l, d, b, F, s)
  PROVE  /\ OnDiskOk(m, e, b, F, s)
         /\ (IF m.state = "FREE" THEN e.recs ELSE m.recs)
              = (IF l.state = "FREE" THEN d.recs ELSE l.recs)
BY DEF Moved, OnDiskOk, Unwritten, Done, Cached

LEMMA BlocksMoved ==
  ASSUME LwbInv, WrittenInv, ChainInv, KnownInv, Len(lwb') = Len(lwb),
         \A b \in 1 .. Len(lwb) : Moved(lwb[b], lwb'[b], disk[b], disk'[b]),
         zh_log \in 0 .. Len(lwb),
         UNCHANGED <<lwb_list, zh_log, zh_syncing, freed, synced>>,
         spa' = spa \/ (spa # "sync" /\ spa' # "sync")
  PROVE  /\ WrittenInv' /\ ChainInv' /\ Contents' = Contents /\ Len(lwb') = Len(lwb)
         /\ \A b \in 1 .. Len(lwb) : Content(b)' = Content(b)
<1>1. \A b \in 1 .. Len(lwb) :
        /\ OnDiskOk(lwb'[b], disk'[b], b, freed, synced)
        /\ Content(b)' = Content(b)
  <2> TAKE b \in 1 .. Len(lwb)
  <2>1. OnDiskOk(lwb[b], disk[b], b, freed, synced)
    BY DEF WrittenInv
  <2> QED BY <2>1, MovedOk DEF Content
<1>2. WrittenInv'
  BY <1>1 DEF WrittenInv
<1>3. ChainInv'
  <2>1. zh_log # 0 => \A b \in 1 .. zh_log - 1 : b \in 1 .. Len(lwb)
    BY DEF LwbInv
  <2> QED BY <1>1, <2>1 DEF ChainInv
<1>4. Contents' = Contents
  BY <1>1 DEF Contents
<1> QED BY <1>1, <1>2, <1>3, <1>4

LEMMA LoggedFacts ==
  ASSUME OrderInv
  PROVE  /\ logged \in Seq(Itxs)
         /\ \A i \in DOMAIN logged : logged[i].txg \in Nat /\ logged[i].n # 0
<1>1. logged \in Seq(Itxs) /\ \A j \in DOMAIN logged : logged[j].n # 0
  BY DEF OrderInv, EntryInv, LoggedInv
<1>2. \A i \in DOMAIN logged : logged[i] \in Itxs
  BY <1>1
<1>3. \A z \in Itxs : z.txg \in Nat
  BY DEF Itxs
<1> QED BY <1>1, <1>2, <1>3

(* Blocks are added or emptied, and nothing else is moved.                 *)
LEMMA OrderFrame ==
  ASSUME OrderInv, Len(lwb) \in Nat, Len(lwb') \in Nat, Len(lwb) <= Len(lwb'),
         synced \in Nat, synced' \in Nat, synced <= synced', WrittenInv', ChainInv', HeadInv',
         \A b \in 1 .. Len(lwb) :
            \/ Content(b)' = Content(b)
            \/ Content(b)' = <<>> /\ \A k \in DOMAIN Content(b) : Content(b)[k].txg <= synced',
         \A b \in Len(lwb) + 1 .. Len(lwb') : Content(b)' = <<>>,
         UNCHANGED <<itxg, logged, vanished, commit_list>>, budget'.recs = budget.recs,
         \A t \in GivenUp : t \in GivenUp' \/ t <= synced'
  PROVE  OrderInv'
<1>1. EntryInv'
  BY DEF OrderInv, EntryInv, SlotOk, LoggedInv
<1>2. KnownInv'
  <2>1. \A q : AllKnown(q) => AllKnown(q)'
    BY DEF AllKnown, Known
  <2>2. \A b \in 1 .. Len(lwb') : AllKnown(Content(b))'
    <3> TAKE b \in 1 .. Len(lwb')
    <3>1. CASE b \in 1 .. Len(lwb) /\ Content(b)' = Content(b)
      BY <3>1 DEF OrderInv, KnownInv, AllKnown, Known
    <3>2. CASE Content(b)' = <<>>
      BY <3>2 DEF AllKnown
    <3> QED BY <3>1, <3>2
  <2> QED BY <2>1, <2>2 DEF OrderInv, KnownInv, AllKnown, Known
<1>3. GroupOrder'
  <2>1. \A i \in DOMAIN logged : logged[i].txg \in Nat
    BY LoggedFacts
  <2>2. /\ \A b \in 1 .. Len(lwb) :
              \/ Contents'[b] = Contents[b]
              \/ Contents'[b] = <<>> /\ \A k \in DOMAIN Contents[b] : Contents[b][k].txg <= synced'
        /\ \A b \in Len(lwb) + 1 .. Len(lwb') : Contents'[b] = <<>>
    BY DEF Contents
  <2>3. Queues' = Queues
    BY DEF Queues
  <2>4. Ordered(Contents, Len(lwb), commit_list, Queues, GivenUp, vanished, logged, synced)
    BY DEF OrderInv, GroupOrder
  <2>5. Ordered(Contents', Len(lwb'), commit_list, Queues', GivenUp', vanished, logged, synced')
    BY <2>1, <2>2, <2>3, <2>4, OrderKept
  <2> QED BY <2>5, OrderNext
<1> QED BY <1>1, <1>2, <1>3 DEF OrderInv

(* The first itx of the commit list is dropped.                            *)
LEMMA DropFrame ==
  ASSUME OrderInv, Len(lwb') = Len(lwb), synced \in Nat, WrittenInv', ChainInv', HeadInv',
         \A b \in 1 .. Len(lwb) : Content(b)' = Content(b), Contents' = Contents,
         NEW S, commit_list \in Seq(S), commit_list # <<>>, commit_list' = Tail(commit_list),
         UNCHANGED <<itxg, logged, synced>>, budget'.recs = budget.recs,
         GivenUp \subseteq GivenUp', vanished \subseteq vanished',
         \/ Head(commit_list).txg <= synced \/ Head(commit_list).txg \in GivenUp'
         \/ Head(commit_list).n = 0 \/ Head(commit_list) \in vanished'
  PROVE  OrderInv'
<1>1. EntryInv'
  BY DEF OrderInv, EntryInv, SlotOk, LoggedInv
<1>2. KnownInv'
  <2>1. AllKnown(commit_list)'
    <3>1. \A k \in DOMAIN commit_list' : \E m \in DOMAIN commit_list : commit_list'[k] = commit_list[m]
      BY TailIs
    <3> QED BY <3>1 DEF OrderInv, KnownInv, AllKnown, Known
  <2>2. \A b \in 1 .. Len(lwb') : AllKnown(Content(b))'
    BY DEF OrderInv, KnownInv, AllKnown, Known
  <2> QED BY <2>1, <2>2 DEF OrderInv, KnownInv, AllKnown, Known
<1>3. GroupOrder'
  <2>1. \A i \in DOMAIN logged : logged[i].txg \in Nat /\ logged[i].n # 0
    BY LoggedFacts
  <2>2. Queues' = Queues
    BY DEF Queues
  <2>3. Ordered(Contents, Len(lwb), commit_list, Queues, GivenUp, vanished, logged, synced)
    BY DEF OrderInv, GroupOrder
  <2>4. \/ Head(commit_list).txg <= synced \/ Head(commit_list).txg \in GivenUp'
        \/ Head(commit_list) \in vanished'
        \/ \A i \in DOMAIN logged : logged[i] # Head(commit_list)
    BY <2>1
  <2>5. Ordered(Contents, Len(lwb), Tail(commit_list), Queues, GivenUp', vanished', logged, synced)
    BY <2>1, <2>3, <2>4, OrderDropped
  <2> QED BY <2>2, <2>5, OrderNext
<1> QED BY <1>1, <1>2, <1>3 DEF OrderInv

(* A step of one thread, and where that leaves the records given up.       *)
OnlyThread(th) ==
    \A u \in Threads : u # th => /\ pc'[u] = pc[u] /\ pos'[u] = pos[u] /\ tx'[u] = tx[u]
                                 /\ budget'.recs[u] = budget.recs[u]

LEMMA HeadMove ==
  ASSUME HeadInv, NEW th \in Threads, OnlyThread(th), HeadOk(th)'
  PROVE  HeadInv'
<1> SUFFICES ASSUME NEW u \in Threads, u # th PROVE HeadOk(u)'
  BY DEF HeadInv
<1>1. HeadOk(u)
  BY DEF HeadInv
<1> QED BY <1>1 DEF OnlyThread, HeadOk

LEMMA GivenUpOutside ==
  ASSUME IssuerInv, NEW th \in Threads, OnlyThread(th), pc[th] \notin IssuerPcs, cur' = cur,
         open \in Nat, open' \in Nat, open <= open'
  PROVE  GivenUp \subseteq GivenUp'
<1>1. \A u \in Threads : \A t : GivesUp(u, t) => u # th
  BY DEF GivesUp, IssuerPcs, Stalls
<1>2. \A u \in Threads : \A t : GivesUp(u, t) => GivesUp(u, t)'
  BY <1>1 DEF GivesUp, OnlyThread
<1> QED BY <1>2 DEF GivenUp

LEMMA GivenUpInside ==
  ASSUME IssuerInv, NEW th \in Threads, pc[th] \in IssuerPcs \/ issuer = NoThread
  PROVE  \A t \in GivenUp : GivesUp(th, t)
<1>1. \A u \in Threads : \A t : GivesUp(u, t) => pc[u] \in IssuerPcs
  BY DEF GivesUp, IssuerPcs, Stalls
<1>2. \A u \in Threads : u # th => pc[u] \notin IssuerPcs
  BY OneIssuer
<1> QED BY <1>1, <1>2 DEF GivenUp

(* The blocks are left alone.                                              *)
LEMMA BlocksQuiet ==
  ASSUME LwbInv, DiskInv, OrderInv, LogQuiet, UNCHANGED <<lwb_list, freed, synced>>,
         spa' = spa \/ (spa # "sync" /\ spa' # "sync")
  PROVE  /\ WrittenInv' /\ ChainInv' /\ Contents' = Contents /\ Len(lwb') = Len(lwb)
         /\ \A b \in 1 .. Len(lwb) : Content(b)' = Content(b)
<1>1. \A b \in 1 .. Len(lwb) : Moved(lwb[b], lwb'[b], disk[b], disk'[b])
  BY DEF Moved, LogQuiet
<1>2. /\ Len(lwb') = Len(lwb) /\ UNCHANGED <<zh_log, zh_syncing>>
      /\ zh_log \in 0 .. Len(lwb)
  BY DEF LogQuiet, DiskInv
<1> QED BY <1>1, <1>2, BlocksMoved DEF OrderInv

LEMMA QuietFrame ==
  ASSUME PoolInv, LwbInv, DiskInv, OrderInv, LogQuiet,
         UNCHANGED <<lwb_list, freed, synced, itxg, commit_list, logged, vanished>>,
         spa' = spa \/ (spa # "sync" /\ spa' # "sync"), budget'.recs = budget.recs, HeadInv',
         \A t \in GivenUp : t \in GivenUp' \/ t <= synced
  PROVE  OrderInv'
<1>1. /\ WrittenInv' /\ ChainInv' /\ Len(lwb') = Len(lwb)
      /\ \A b \in 1 .. Len(lwb) : Content(b)' = Content(b)
  BY BlocksQuiet
<1>2. Len(lwb) \in Nat /\ synced \in Nat
  BY DEF LwbInv, PoolInv
<1>3. \A b \in Len(lwb) + 1 .. Len(lwb') : Content(b)' = <<>>
  BY <1>1, <1>2
<1> QED BY <1>1, <1>2, <1>3, OrderFrame

(* Steps of a thread that leave the queue and the blocks alone.            *)
LEMMA ThreadQuiet ==
  ASSUME PoolInv, RunInv, DiskInv, OrderInv, NEW th \in Threads, LogQuiet, OnlyThread(th),
         HeadOk(th)', UNCHANGED <<lwb_list, freed, synced, spa, open, itxg, commit_list, logged,
                                  vanished>>,
         budget'.recs = budget.recs,
         \/ pc[th] \notin IssuerPcs /\ cur' = cur
         \/ /\ pc[th] \in IssuerPcs \/ issuer = NoThread
            /\ \A t \in 0 .. open : GivesUp(th, t) => GivesUp(th, t)' \/ t <= synced
  PROVE  OrderInv'
<1>1. HeadInv'
  BY HeadMove DEF OrderInv, EntryInv
<1>2. \A t \in GivenUp : t \in GivenUp' \/ t <= synced
  <2>1. CASE pc[th] \notin IssuerPcs /\ cur' = cur
    BY <2>1, GivenUpOutside DEF RunInv, PoolInv
  <2>2. CASE /\ pc[th] \in IssuerPcs \/ issuer = NoThread
             /\ \A t \in 0 .. open : GivesUp(th, t) => GivesUp(th, t)' \/ t <= synced
    BY <2>2, GivenUpInside DEF RunInv, GivenUp
  <2> QED BY <2>1, <2>2
<1> QED BY <1>1, <1>2, QuietFrame DEF RunInv

LEMMA PcMove ==
  ASSUME RunInv, NEW th \in Threads, NEW l, Goto(th, l)
  PROVE  pc'[th] = l /\ \A u \in Threads : u # th => pc'[u] = pc[u]
BY DEF RunInv, IssuerInv, Goto

LEMMA WriteOrder ==
  ASSUME PoolInv, RunInv, DiskInv, OrderInv, NEW th \in Threads,
         Write(th) \/ TxAssign(th, "commit", "commit_itx")
  PROVE  OrderInv'
<1>1. \E from, to : /\ TxAssign(th, from, to) /\ from \in {"idle", "commit"}
                    /\ to \in {"log", "commit_itx"}
                    /\ to = "log" => budget.recs[th] > 0
  BY DEF Write
<1>2. PICK from, to : /\ TxAssign(th, from, to) /\ from \in {"idle", "commit"}
                      /\ to \in {"log", "commit_itx"}
                      /\ to = "log" => budget.recs[th] > 0
  BY <1>1
<1>3. /\ LogQuiet /\ pc[th] \notin IssuerPcs /\ Goto(th, to)
      /\ UNCHANGED <<lwb_list, freed, synced, spa, open, itxg, commit_list, logged, vanished,
                     pos, cur>>
      /\ budget' = budget /\ tx' = [tx EXCEPT ![th] = open]
  BY <1>2 DEF TxAssign, LogQuiet, poolVars, lwbVars, queueVars, ghostVars, IssuerPcs
<1>4. pc'[th] = to /\ \A u \in Threads : u # th => pc'[u] = pc[u]
  BY <1>3, PcMove
<1>5. tx = [u \in Threads |-> tx[u]] /\ open # 0
  BY DEF RunInv, HeldInv, PoolInv, Syncing
<1>6. OnlyThread(th)
  BY <1>3, <1>4, <1>5 DEF OnlyThread
<1>7. HeadOk(th)'
  BY <1>2, <1>3, <1>4, <1>5 DEF HeadOk, Stalls
<1> QED BY <1>3, <1>6, <1>7, ThreadQuiet

LEMMA CommitOrder ==
  ASSUME PoolInv, RunInv, DiskInv, OrderInv, NEW th \in Threads, Commit(th)
  PROVE  OrderInv'
<1>1. /\ LogQuiet /\ pc[th] \notin IssuerPcs /\ \E l \in {"commit", "async"} : Goto(th, l)
      /\ UNCHANGED <<lwb_list, freed, synced, spa, open, itxg, commit_list, logged, vanished,
                     tx, cur>>
      /\ budget' = [budget EXCEPT !.commits[th] = @ - 1]
      /\ pos' = [pos EXCEPT ![th] = OwnGroups(th)]
  BY DEF Commit, LogQuiet, poolVars, lwbVars, queueVars, IssuerPcs
<1>2. PICK l \in {"commit", "async"} : Goto(th, l)
  BY <1>1
<1>3. pc'[th] = l /\ \A u \in Threads : u # th => pc'[u] = pc[u] /\ pos'[u] = pos[u]
  BY <1>1, <1>2, PcMove DEF RunInv, IssuerInv
<1>4. budget'.recs = budget.recs
  BY <1>1 DEF RunInv, QueueInv, BudgetOk
<1>5. OnlyThread(th)
  BY <1>1, <1>3, <1>4 DEF OnlyThread
<1>6. HeadOk(th)'
  BY <1>3 DEF HeadOk, Stalls
<1> QED BY <1>1, <1>4, <1>5, <1>6, ThreadQuiet

LEMMA WaitOrder ==
  ASSUME PoolInv, RunInv, DiskInv, OrderInv, NEW th \in Threads,
         WaiterTimeout(th) \/ TimeoutLate(th) \/ Return(th) \/ Writer(th)
  PROVE  OrderInv'
<1>1. LogQuiet
  BY QuietSteps
<1>2. /\ \E l \in {"timeout", "wait", "error", "idle", "scan"} : Goto(th, l)
      /\ UNCHANGED <<lwb_list, freed, synced, spa, open, itxg, commit_list, logged, vanished,
                     tx, cur,
                     budget>>
      /\ pc[th] \in {"wait", "timeout", "writer"}
      /\ pos' = pos \/ \E p : pos' = [pos EXCEPT ![th] = p]
  <2>1. CASE WaiterTimeout(th) \/ TimeoutLate(th)
    BY <2>1 DEF WaiterTimeout, TimeoutLate, poolVars, lwbVars, queueVars, ghostVars
  <2>2. CASE Return(th)
    BY <2>2 DEF Return, poolVars, lwbVars, queueVars
  <2>3. CASE Writer(th)
    BY <2>3 DEF Writer, poolVars, lwbVars, queueVars, ghostVars
  <2> QED BY <2>1, <2>2, <2>3
<1>3. PICK l \in {"timeout", "wait", "error", "idle", "scan"} : Goto(th, l)
  BY <1>2
<1>4. pc'[th] = l /\ \A u \in Threads : u # th => pc'[u] = pc[u] /\ pos'[u] = pos[u]
  BY <1>2, <1>3, PcMove DEF RunInv, IssuerInv
<1>5. OnlyThread(th)
  BY <1>2, <1>4 DEF OnlyThread
<1>6. HeadOk(th)' /\ pc[th] \notin IssuerPcs
  BY <1>2, <1>4 DEF HeadOk, Stalls, IssuerPcs
<1> QED BY <1>1, <1>2, <1>5, <1>6, ThreadQuiet

LEMMA SyncedOrder ==
  ASSUME PoolInv, RunInv, DiskInv, OrderInv, NEW th \in Threads, Synced(th)
  PROVE  OrderInv'
<1>1. LogQuiet
  BY QuietSteps
<1>2. /\ UNCHANGED <<lwb_list, freed, synced, spa, open, itxg, commit_list, logged, vanished,
                     tx, cur,
                     budget>>
      /\ pos' = [pos EXCEPT ![th] = <<>>] /\ LastSynced >= Head(pos[th])
      /\ pc[th] \in {"create_wait", "stall", "timeout_stall", "eio", "error"}
      /\ \E l \in {"process", "wait", "idle"} :
            Goto(th, l) /\ (pc[th] = "create_wait" => l = "process")
  BY DEF Synced, poolVars, lwbVars, queueVars, Waiting
<1>3. PICK l \in {"process", "wait", "idle"} :
            Goto(th, l) /\ (pc[th] = "create_wait" => l = "process")
  BY <1>2
<1>4. pc'[th] = l /\ \A u \in Threads : u # th => pc'[u] = pc[u] /\ pos'[u] = pos[u]
  BY <1>2, <1>3, PcMove DEF RunInv, IssuerInv
<1>5. OnlyThread(th)
  BY <1>2, <1>4 DEF OnlyThread
<1>6. HeadOk(th)'
  BY <1>2, <1>4 DEF HeadOk, Stalls
<1>7. CASE pc[th] = "error"
  BY <1>1, <1>2, <1>5, <1>6, <1>7, ThreadQuiet DEF IssuerPcs
<1>8. CASE pc[th] # "error"
  <2>1. pc[th] \in IssuerPcs
    BY <1>2, <1>8 DEF IssuerPcs
  <2>2. ASSUME NEW t \in 0 .. open, GivesUp(th, t) PROVE GivesUp(th, t)' \/ t <= synced
    <3>1. CASE pc[th] = "create_wait"
      BY <1>2, <1>3, <1>4, <2>2, <3>1 DEF GivesUp, Stalls
    <3>2. CASE pc[th] # "create_wait"
      <4>1. pc[th] \in {"eio"} \cup Stalls /\ t <= Head(pos[th])
        BY <1>2, <2>2, <3>2 DEF GivesUp
      <4>2. Head(pos[th]) \in Nat
        BY <4>1 DEF OrderInv, EntryInv, HeadInv, HeadOk
      <4>3. LastSynced <= synced /\ LastSynced \in Int /\ synced \in Nat /\ open \in Nat
        BY DEF PoolInv, LastSynced
      <4> QED BY <1>2, <4>1, <4>2, <4>3
    <3> QED BY <3>1, <3>2
  <2> QED BY <1>1, <1>2, <1>5, <1>6, <2>1, <2>2, ThreadQuiet
<1> QED BY <1>7, <1>8

LEMMA PruneEndOrder ==
  ASSUME PoolInv, RunInv, DiskInv, OrderInv, NEW th \in Threads, PruneEnd(th)
  PROVE  OrderInv'
<1>1. LogQuiet
  BY QuietSteps
<1>2. /\ UNCHANGED <<lwb_list, freed, synced, spa, open, itxg, commit_list, logged, vanished,
                     tx, pos,
                     budget>>
      /\ pc[th] = "prune" /\ \E l \in {"process", "wait", "create"} : Goto(th, l)
  BY DEF PruneEnd, poolVars, lwbVars, queueVars, ghostVars
<1>3. PICK l \in {"process", "wait", "create"} : Goto(th, l)
  BY <1>2
<1>4. pc'[th] = l /\ \A u \in Threads : u # th => pc'[u] = pc[u]
  BY <1>3, PcMove
<1>5. OnlyThread(th)
  BY <1>2, <1>4 DEF OnlyThread
<1>6. HeadOk(th)' /\ pc[th] \in IssuerPcs /\ \A t : ~GivesUp(th, t)
  BY <1>2, <1>4 DEF HeadOk, Stalls, IssuerPcs, GivesUp
<1> QED BY <1>1, <1>2, <1>5, <1>6, ThreadQuiet

LEMMA ProcessEndOrder ==
  ASSUME PoolInv, RunInv, DiskInv, OrderInv, NEW th \in Threads, ProcessEnd(th)
  PROVE  OrderInv'
<1>1. LogQuiet
  BY QuietSteps
<1>2. /\ UNCHANGED <<lwb_list, freed, synced, spa, open, itxg, commit_list, logged, vanished,
                     tx, budget>>
      /\ pc[th] = "process"
      /\ \/ cur = 0 /\ Goto(th, "stall") /\ pos' = [pos EXCEPT ![th] = SyncAll]
         \/ cur # 0 /\ Goto(th, "wait") /\ pos' = pos
  BY DEF ProcessEnd, poolVars, lwbVars, queueVars, ghostVars, MustStall
<1>3. PICK l \in {"stall", "wait"} : Goto(th, l) /\ (cur = 0 <=> l = "stall")
  BY <1>2
<1>4. pc'[th] = l /\ \A u \in Threads : u # th => pc'[u] = pc[u] /\ pos'[u] = pos[u]
  BY <1>2, <1>3, PcMove DEF RunInv, IssuerInv
<1>5. OnlyThread(th)
  BY <1>2, <1>4 DEF OnlyThread
<1>6. open \in Nat /\ Head(SyncAll) = open + 2
  BY DEF SyncAll, PoolInv, TXG_DEFER_SIZE
<1>7. l = "stall" => pos'[th] = SyncAll
  BY <1>2, <1>3 DEF RunInv, IssuerInv
<1>8. HeadOk(th)'
  BY <1>4, <1>6, <1>7 DEF HeadOk, Stalls
<1>9. \A t \in 0 .. open : GivesUp(th, t) => GivesUp(th, t)'
  BY <1>2, <1>3, <1>4, <1>6, <1>7 DEF GivesUp, Stalls
<1>10. pc[th] \in IssuerPcs
  BY <1>2 DEF IssuerPcs
<1> QED BY <1>1, <1>2, <1>5, <1>8, <1>9, <1>10, ThreadQuiet

-----------------------------------------------------------------------------
(* Steps that change the queue                                             *)

LEMMA SlotTypes ==
  ASSUME RunInv
  PROVE  /\ itxg \in [0 .. TXG_SIZE - 1 -> Itxgs(open)] /\ commit_list \in Seq(UpTo(open))
         /\ UpTo(open) \subseteq Itxs
         /\ \A i \in 0 .. TXG_SIZE - 1 :
              /\ itxg[i] = [f \in {"txg", "sync", "async"} |-> itxg[i][f]]
              /\ itxg[i].txg \in Nat /\ itxg[i].sync \in Seq(UpTo(open))
              /\ itxg[i].async = [u \in Threads |-> itxg[i].async[u]]
              /\ \A u \in Threads : itxg[i].async[u] \in Seq(UpTo(open))
<1>1. itxg \in [0 .. TXG_SIZE - 1 -> Itxgs(open)] /\ commit_list \in Seq(UpTo(open))
  BY DEF RunInv, QueueInv
<1>2. UpTo(open) \subseteq Itxs
  BY DEF UpTo
<1> QED BY <1>1, <1>2 DEF Itxgs

LEMMA ContentType ==
  ASSUME DiskInv, NEW b \in 1 .. Len(lwb)
  PROVE  Content(b) \in Seq(Itxs)
BY DEF DiskInv, RecsOk, BlockOk, Content

LEMMA KnownKept ==
  ASSUME \A z \in Itxs : Known(z) => Known(z)', NEW q \in Seq(Itxs), AllKnown(q)
  PROVE  AllKnown(q)'
<1>1. \A k \in DOMAIN q : q[k] \in Itxs
  OBVIOUS
<1> QED BY <1>1 DEF AllKnown

(* One slot is changed.                                                    *)
LEMMA SlotChange ==
  ASSUME PoolInv, RunInv, DiskInv, OrderInv, LogQuiet, UNCHANGED <<lwb_list, freed, synced>>,
         spa' = spa \/ (spa # "sync" /\ spa' # "sync"), HeadInv', LoggedInv',
         \A z \in Itxs : Known(z) => Known(z)',
         NEW x \in 0 .. TXG_SIZE - 1, NEW e, itxg' = [itxg EXCEPT ![x] = e], SlotOk(e),
         AllKnown(e.sync)', \A u \in Threads : AllKnown(e.async[u])', AllKnown(commit_list)',
         Ordered(Contents, Len(lwb), commit_list', Queues', GivenUp', vanished', logged', synced)
  PROVE  OrderInv'
<1>1. /\ WrittenInv' /\ ChainInv' /\ Contents' = Contents /\ Len(lwb') = Len(lwb)
      /\ \A b \in 1 .. Len(lwb) : Content(b)' = Content(b)
  BY BlocksQuiet DEF RunInv
<1>2. \A i \in 0 .. TXG_SIZE - 1 : itxg'[i] = IF i = x THEN e ELSE itxg[i]
  BY SlotTypes
<1>3. EntryInv'
  BY <1>2 DEF OrderInv, EntryInv, SlotOk
<1>4. KnownInv'
  <2>1. \A b \in 1 .. Len(lwb) : AllKnown(Content(b))'
    <3> TAKE b \in 1 .. Len(lwb)
    <3>1. PICK q \in Seq(Itxs) : q = Content(b)
      BY ContentType
    <3>2. AllKnown(q)
      BY <3>1 DEF OrderInv, KnownInv
    <3>3. AllKnown(q)' /\ q = Content(b)'
      BY <1>1, <3>1, <3>2, KnownKept
    <3> QED BY <3>3 DEF AllKnown
  <2>2. ASSUME NEW i \in 0 .. TXG_SIZE - 1
        PROVE  AllKnown(itxg[i].sync)' /\ \A u \in Threads : AllKnown(itxg[i].async[u])'
    <3>1. CASE i = x
      BY <1>2, <3>1 DEF AllKnown
    <3>2. CASE i # x
      <4>1. itxg'[i] = itxg[i]
        BY <1>2, <3>2
      <4>2. itxg[i].sync \in Seq(Itxs) /\ \A u \in Threads : itxg[i].async[u] \in Seq(Itxs)
        BY SlotTypes, SeqGrows
      <4>3. AllKnown(itxg[i].sync) /\ \A u \in Threads : AllKnown(itxg[i].async[u])
        BY DEF OrderInv, KnownInv
      <4>4. PICK g : g = itxg[i]
        OBVIOUS
      <4>5. AllKnown(g.sync)' /\ \A u \in Threads : AllKnown(g.async[u])'
        BY <4>2, <4>3, <4>4, KnownKept
      <4> QED BY <4>1, <4>4, <4>5 DEF AllKnown
    <3> QED BY <3>1, <3>2
  <2>3. AllKnown(commit_list)'
    OBVIOUS
  <2> QED BY <1>1, <2>1, <2>2, <2>3 DEF KnownInv
<1>5. GroupOrder'
  BY <1>1, OrderNext
<1> QED BY <1>1, <1>3, <1>4, <1>5 DEF OrderInv

(* More records are given up.                                              *)
LEMMA Regiven ==
  ASSUME PoolInv, LwbInv, NEW D, NEW D2, D \subseteq D2, NEW L, NEW Q, NEW G, NEW log,
         \A i \in DOMAIN log : log[i].txg \in Nat,
         Ordered(Contents, Len(lwb), L, Q, D, G, log, synced)
  PROVE  Ordered(Contents, Len(lwb), L, Q, D2, G, log, synced)
<1>1. Len(lwb) \in Nat /\ synced \in Int
  BY DEF PoolInv, LwbInv
<1>2. \A b \in Len(lwb) + 1 .. Len(lwb) : Contents[b] = <<>>
  BY <1>1
<1> QED BY <1>1, <1>2, OrderKept

LEMMA AsyncOrder ==
  ASSUME PoolInv, RunInv, DiskInv, OrderInv, NEW th \in Threads, AsyncToSync(th)
  PROVE  OrderInv'
<1>1. LogQuiet
  BY QuietSteps
<1>2. PICK s, l : /\ l \in {"commit", "async"} /\ Goto(th, l)
                  /\ \/ itxg' = itxg
                     \/ itxg' = [itxg EXCEPT ![s].sync = @ \o itxg[s].async[th],
                                             ![s].async[th] = <<>>]
  <2>1. pc[th] = "async" => pc = [pc EXCEPT ![th] = "async"]
    BY DEF RunInv, IssuerInv
  <2> QED BY <2>1 DEF AsyncToSync, Goto
<1>3. /\ UNCHANGED <<lwb_list, freed, synced, spa, open, commit_list, logged, vanished, tx, cur,
                     budget>>
      /\ pc[th] = "async" /\ pos' = [pos EXCEPT ![th] = Tail(@)]
  BY DEF AsyncToSync, poolVars, lwbVars, ghostVars
<1>4. pc'[th] = l /\ \A u \in Threads : u # th => pc'[u] = pc[u] /\ pos'[u] = pos[u]
  BY <1>2, <1>3, PcMove DEF RunInv, IssuerInv
<1>5. OnlyThread(th)
  BY <1>3, <1>4 DEF OnlyThread
<1>6. HeadOk(th)' /\ pc[th] \notin IssuerPcs
  BY <1>2, <1>3, <1>4 DEF HeadOk, Stalls, IssuerPcs
<1>7. CASE itxg' = itxg
  BY <1>1, <1>3, <1>5, <1>6, <1>7, ThreadQuiet
<1>8. CASE s \in 0 .. TXG_SIZE - 1 /\ itxg' # itxg
  <2>1. /\ itxg = [i \in 0 .. TXG_SIZE - 1 |-> itxg[i]]
        /\ itxg[s] = [f \in {"txg", "sync", "async"} |-> itxg[s][f]]
        /\ itxg[s].sync \in Seq(UpTo(open)) /\ itxg[s].async[th] \in Seq(UpTo(open))
        /\ itxg[s].async = [u \in Threads |-> itxg[s].async[u]] /\ UpTo(open) \subseteq Itxs
    BY <1>8, SlotTypes
  <2>2. PICK e : /\ itxg' = [itxg EXCEPT ![s] = e] /\ e.txg = itxg[s].txg
                 /\ e.sync = itxg[s].sync \o itxg[s].async[th] /\ e.async[th] = <<>>
                 /\ \A u \in Threads : u # th => e.async[u] = itxg[s].async[u]
    <3>1. PICK f : f = [itxg EXCEPT ![s].sync = @ \o itxg[s].async[th]]
      OBVIOUS
    <3>2. /\ f = [i \in 0 .. TXG_SIZE - 1 |-> f[i]]
          /\ f[s] = [itxg[s] EXCEPT !.sync = @ \o itxg[s].async[th]]
          /\ \A i \in 0 .. TXG_SIZE - 1 : i # s => f[i] = itxg[i]
      BY <1>8, <2>1, <3>1
    <3>3. /\ f[s].txg = itxg[s].txg /\ f[s].async = itxg[s].async
          /\ f[s].sync = itxg[s].sync \o itxg[s].async[th]
          /\ f[s] = [h \in {"txg", "sync", "async"} |-> f[s][h]]
      BY <2>1, <3>2
    <3>4. PICK e : e = [f[s] EXCEPT !.async[th] = <<>>]
      OBVIOUS
    <3>5. /\ e.txg = itxg[s].txg /\ e.sync = itxg[s].sync \o itxg[s].async[th]
          /\ e.async = [itxg[s].async EXCEPT ![th] = <<>>]
      BY <3>3, <3>4
    <3>6. itxg' = [f EXCEPT ![s] = e]
      BY <1>2, <1>8, <3>1, <3>4
    <3>7. itxg' = [itxg EXCEPT ![s] = e]
      BY <1>8, <2>1, <3>2, <3>6
    <3> QED BY <2>1, <3>5, <3>7
  <2>3. PICK S, q, more, w :
          /\ S = UpTo(open) /\ q = itxg[s].sync /\ more = itxg[s].async[th] /\ w = q \o more
          /\ q \in Seq(S) /\ more \in Seq(S)
    BY <2>1
  <2>4. \A k \in DOMAIN w : \/ k \in DOMAIN q /\ w[k] = q[k]
                            \/ \E m \in DOMAIN more : w[k] = more[m]
    <3>1. /\ Len(q) \in Nat
          /\ \A k \in DOMAIN q : w[k] = q[k]
          /\ \A k \in DOMAIN more : w[Len(q) + k] = more[k]
          /\ \A k \in DOMAIN w :
                k \in DOMAIN q \/ (k - Len(q) \in DOMAIN more /\ k = Len(q) + (k - Len(q)))
      <4>1. /\ Len(q) \in Nat
            /\ \A k \in DOMAIN q : (q \o more)[k] = q[k]
            /\ \A k \in DOMAIN more : (q \o more)[Len(q) + k] = more[k]
            /\ \A k \in DOMAIN (q \o more) :
                  k \in DOMAIN q \/ (k - Len(q) \in DOMAIN more /\ k = Len(q) + (k - Len(q)))
        <5>1. q \in Seq(S) /\ more \in Seq(S)
          BY <2>3
        <5> QED BY <5>1, JoinIs
      <4> QED BY <2>3, <4>1, Zenon
    <3> QED BY <3>1
  <2>5. SlotOk(itxg[s]) /\ AllKnown(q) /\ \A u \in Threads : AllKnown(itxg[s].async[u])
    BY <1>8, <2>3 DEF OrderInv, EntryInv, KnownInv
  <2>a. /\ e.sync = w /\ e.txg = itxg[s].txg
        /\ \A k \in DOMAIN q : q[k].txg = itxg[s].txg
        /\ \A k \in DOMAIN more : more[k].txg = itxg[s].txg
        /\ AllKnown(q) /\ AllKnown(more)
    BY <2>2, <2>3, <2>5 DEF SlotOk
  <2>6. SlotOk(e)
    <3>1. \A k \in DOMAIN e.sync : e.sync[k].txg = e.txg
      BY <2>4, <2>a
    <3>2. \A u \in Threads : \A k \in DOMAIN e.async[u] :
            ~e.async[u][k].sync /\ e.async[u][k].txg = e.txg
      BY <2>2, <2>5 DEF SlotOk
    <3>3. e.txg = 0 => e.sync = <<>> /\ \A u \in Threads : e.async[u] = <<>>
      <4>1. <<>> \o <<>> = <<>>
        OBVIOUS
      <4> QED BY <2>2, <2>5, <4>1 DEF SlotOk
    <3> QED BY <3>1, <3>2, <3>3 DEF SlotOk
  <2>7. \A z : Known(z) => Known(z)'
    BY <1>3 DEF Known
  <2>8. AllKnown(e.sync)' /\ (\A u \in Threads : AllKnown(e.async[u])') /\ AllKnown(commit_list)'
    <3>1. AllKnown(e.sync)'
      BY <2>4, <2>7, <2>a DEF AllKnown
    <3>2. \A u \in Threads : AllKnown(e.async[u])'
      BY <2>2, <2>5, <2>7 DEF AllKnown
    <3>3. AllKnown(commit_list)'
      BY <1>3, <2>7 DEF AllKnown, OrderInv, KnownInv
    <3> QED BY <3>1, <3>2, <3>3
  <2>9. Ordered(Contents, Len(lwb), commit_list, Queues', GivenUp, vanished, logged, synced)
    <3>1. /\ Queues[s] = q /\ Queues'[s] = Queues[s] \o more
          /\ \A i \in 0 .. TXG_SIZE - 1 : i # s => Queues'[i] = Queues[i]
      BY <1>8, <2>1, <2>2, <2>3 DEF Queues
    <3>2. \A k \in DOMAIN more : \A i \in DOMAIN logged : logged[i].sync => more[k] # logged[i]
      BY <2>3, <2>5 DEF SlotOk
    <3>3. Ordered(Contents, Len(lwb), commit_list, Queues, GivenUp, vanished, logged, synced)
      BY DEF OrderInv, GroupOrder
    <3>4. Queues[s] \in Seq(S) /\ more \in Seq(S) /\ s \in 0 .. TXG_SIZE - 1
      BY <1>8, <2>3, <3>1
    <3>5. \A i \in DOMAIN logged : logged[i].txg \in Nat
      BY LoggedFacts
    <3>6. Longer(Queues, Queues', logged)
      BY <3>1, <3>2, <3>4, <3>5 DEF Longer
    <3> QED BY <3>3, <3>6, OrderQueued
  <2>10. Ordered(Contents, Len(lwb), commit_list', Queues', GivenUp', vanished', logged', synced)
    <3>1. GivenUp \subseteq GivenUp'
      BY <1>3, <1>5, <1>6, GivenUpOutside DEF RunInv, PoolInv
    <3> QED BY <1>3, <2>9, <3>1, LoggedFacts, Regiven DEF RunInv
  <2>11. HeadInv' /\ LoggedInv'
    BY <1>3, <1>5, <1>6, HeadMove DEF OrderInv, EntryInv, LoggedInv
  <2> QED BY <1>1, <1>3, <1>8, <2>2, <2>6, <2>7, <2>8, <2>10, <2>11, SlotChange
<1>9. CASE s \notin 0 .. TXG_SIZE - 1
  <2>1. itxg \in [0 .. TXG_SIZE - 1 -> Itxgs(open)]
    BY SlotTypes
  <2>2. itxg' = itxg
    <3>1. [itxg EXCEPT ![s].sync = @ \o itxg[s].async[th], ![s].async[th] = <<>>] = itxg
      BY <1>9, <2>1
    <3> QED BY <1>2, <3>1
  <2> QED BY <1>7, <2>2
<1> QED BY <1>7, <1>8, <1>9

LEMMA GetCommitListOrder ==
  ASSUME PoolInv, RunInv, DiskInv, OrderInv, NEW th \in Threads, GetCommitList(th)
  PROVE  OrderInv'
<1>1. LogQuiet
  BY QuietSteps
<1>2. PICK l : /\ l \in {"scan", "prune"} /\ Goto(th, l)
  <2>1. pc[th] = "scan" => pc = [pc EXCEPT ![th] = "scan"]
    BY DEF RunInv, IssuerInv
  <2> QED BY <2>1 DEF GetCommitList, Goto
<1>3. /\ UNCHANGED <<lwb_list, freed, synced, spa, open, logged, vanished, tx, cur, budget>>
      /\ pc[th] = "scan" /\ pos' = [pos EXCEPT ![th] = Tail(@)]
  BY DEF GetCommitList, poolVars, lwbVars, ghostVars
<1>4. pc'[th] = l /\ \A u \in Threads : u # th => pc'[u] = pc[u] /\ pos'[u] = pos[u]
  BY <1>2, <1>3, PcMove DEF RunInv, IssuerInv
<1>5. OnlyThread(th)
  BY <1>3, <1>4 DEF OnlyThread
<1>6. HeadOk(th)' /\ pc[th] \in IssuerPcs /\ \A t : ~GivesUp(th, t)
  BY <1>2, <1>3, <1>4 DEF HeadOk, Stalls, IssuerPcs, GivesUp
<1>7. GivenUp = {}
  BY <1>6, GivenUpInside DEF RunInv
<1>8. Slot(Head(pos[th])) \in 0 .. TXG_SIZE - 1
  <2>1. pos[th] \in Seq(Nat) \ {<<>>}
    BY <1>3 DEF RunInv, IssuerInv
  <2>2. Head(pos[th]) \in Nat
    BY <2>1
  <2> QED BY <2>2, SlotType
<1>9. PICK s \in 0 .. TXG_SIZE - 1 :
        \/ UNCHANGED <<commit_list, itxg>>
        \/ commit_list' = commit_list \o itxg[s].sync /\ itxg' = [itxg EXCEPT ![s].sync = <<>>]
  BY <1>8 DEF GetCommitList
<1>10. CASE UNCHANGED <<commit_list, itxg>>
  BY <1>1, <1>3, <1>5, <1>6, <1>10, ThreadQuiet
<1>11. CASE commit_list' = commit_list \o itxg[s].sync /\ itxg' = [itxg EXCEPT ![s].sync = <<>>]
  <2>1. PICK S, L, q : /\ S = UpTo(open) /\ L = commit_list /\ q = itxg[s].sync
                       /\ L \in Seq(S) /\ q \in Seq(S)
    BY SlotTypes
  <2>2. PICK e : e = [itxg[s] EXCEPT !.sync = <<>>]
    OBVIOUS
  <2>3. /\ itxg' = [itxg EXCEPT ![s] = e] /\ e.sync = <<>> /\ e.txg = itxg[s].txg
        /\ e.async = itxg[s].async
    BY <1>11, <2>2, SlotTypes
  <2>4. SlotOk(itxg[s]) /\ AllKnown(q) /\ AllKnown(L) /\ \A u \in Threads : AllKnown(itxg[s].async[u])
    BY <2>1 DEF OrderInv, EntryInv, KnownInv
  <2>5. SlotOk(e)
    BY <2>3, <2>4 DEF SlotOk
  <2>6. \A z : Known(z) => Known(z)'
    BY <1>3 DEF Known
  <2>7. AllKnown(e.sync)' /\ (\A u \in Threads : AllKnown(e.async[u])')
    BY <2>3, <2>4, <2>6 DEF AllKnown
  <2>8. AllKnown(commit_list)'
    <3>1. /\ Len(L) \in Nat
          /\ \A k \in DOMAIN L : (L \o q)[k] = L[k]
          /\ \A k \in DOMAIN q : (L \o q)[Len(L) + k] = q[k]
          /\ \A k \in DOMAIN (L \o q) :
                k \in DOMAIN L \/ (k - Len(L) \in DOMAIN q /\ k = Len(L) + (k - Len(L)))
      <4>1. L \in Seq(S) /\ q \in Seq(S)
        BY <2>1
      <4> QED BY <4>1, JoinIs
    <3>2. PICK w : w = L \o q
      OBVIOUS
    <3>3. \A k \in DOMAIN w : (k \in DOMAIN L /\ w[k] = L[k]) \/ \E m \in DOMAIN q : w[k] = q[m]
      BY <3>1, <3>2, Zenon
    <3>4. commit_list' = w
      BY <1>11, <2>1, <3>2
    <3> QED BY <2>4, <2>6, <3>3, <3>4 DEF AllKnown
  <2>9. Ordered(Contents, Len(lwb), L \o q, Queues', GivenUp, vanished, logged, synced)
    <3>1. /\ Queues[s] = q /\ Queues'[s] = <<>>
          /\ \A i \in 0 .. TXG_SIZE - 1 : i # s => Queues'[i] = Queues[i]
      BY <2>1, <2>3, SlotTypes DEF Queues
    <3>2. \A k \in DOMAIN q : Slot(q[k].txg) = s
      <4>1. \A k \in DOMAIN q : q[k].txg = itxg[s].txg
        BY <2>1, <2>4 DEF SlotOk
      <4>2. itxg[s].txg = 0 \/ Slot(itxg[s].txg) = s
        BY DEF RunInv, QueueInv
      <4>3. itxg[s].txg = 0 => DOMAIN q = {}
        BY <2>1, <2>4 DEF SlotOk
      <4> QED BY <4>1, <4>2, <4>3
    <3>3. Ordered(Contents, Len(lwb), L, Queues, GivenUp, vanished, logged, synced)
      BY <2>1 DEF OrderInv, GroupOrder
    <3>4. Queues[s] \in Seq(S) /\ L \in Seq(S) /\ \A k \in DOMAIN Queues[s] : Slot(Queues[s][k].txg) = s
      BY <2>1, <3>1, <3>2
    <3>5. \A i \in DOMAIN logged : logged[i].txg \in Nat
      BY LoggedFacts
    <3>6. Ordered(Contents, Len(lwb), L \o Queues[s], Queues', GivenUp, vanished, logged, synced)
      BY <3>1, <3>3, <3>4, <3>5, OrderFetched
    <3> QED BY <3>1, <3>6
  <2>10. Ordered(Contents, Len(lwb), commit_list', Queues', GivenUp', vanished', logged', synced)
    <3>1. commit_list' = L \o q
      BY <1>11, <2>1
    <3> QED BY <1>3, <1>7, <2>9, <3>1, LoggedFacts, Regiven DEF RunInv
  <2>11. HeadInv' /\ LoggedInv'
    BY <1>3, <1>5, <1>6, HeadMove DEF OrderInv, EntryInv, LoggedInv
  <2> QED BY <1>1, <1>3, <2>3, <2>5, <2>6, <2>7, <2>8, <2>10, <2>11, SlotChange
<1> QED BY <1>9, <1>10, <1>11

LEMMA CleanOrder ==
  ASSUME PoolInv, RunInv, DiskInv, OrderInv, ZilClean
  PROVE  OrderInv'
<1>1. LogQuiet
  BY QuietSteps
<1>2. /\ UNCHANGED <<lwb_list, freed, synced, open, logged, vanished, commit_list, tx, pc, pos,
                     cur, budget>>
      /\ spa = "clean" /\ spa' = "done"
      /\ itxg' = [itxg EXCEPT ![Slot(synced)] = EmptyItxg]
  BY DEF ZilClean, CleanSlot, lwbVars, threadVars, ghostVars
<1>3. PICK s : s = Slot(synced) /\ s \in 0 .. TXG_SIZE - 1
  BY SlotType, PoolFacts
<1>4. HeadInv' /\ LoggedInv' /\ GivenUp' = GivenUp
  BY <1>2 DEF OrderInv, EntryInv, LoggedInv, HeadInv, HeadOk, GivenUp, GivesUp
<1>5. \A z : Known(z) => Known(z)'
  BY <1>2 DEF Known
<1>6. SlotOk(EmptyItxg) /\ AllKnown(EmptyItxg.sync)' /\ \A u \in Threads : AllKnown(EmptyItxg.async[u])'
  BY DEF SlotOk, EmptyItxg, AllKnown
<1>7. AllKnown(commit_list)'
  BY <1>2, <1>5 DEF OrderInv, KnownInv, AllKnown
<1>8. Ordered(Contents, Len(lwb), commit_list', Queues', GivenUp', vanished', logged', synced)
  <2>1. /\ Queues'[s] = <<>> /\ Queues[s] = itxg[s].sync
        /\ \A i \in 0 .. TXG_SIZE - 1 : i # s => Queues'[i] = Queues[i]
    BY <1>2, <1>3, SlotTypes DEF Queues, EmptyItxg
  <2>2. \A k \in DOMAIN Queues[s] : Queues[s][k].txg <= synced
    <3> SUFFICES ASSUME NEW k \in DOMAIN itxg[s].sync PROVE itxg[s].sync[k].txg <= synced
      BY <2>1
    <3>1. SlotOk(itxg[s])
      BY <1>3 DEF OrderInv, EntryInv
    <3>2. itxg[s].sync[k].txg = itxg[s].txg /\ itxg[s].txg # 0 /\ itxg[s].txg \in Nat
      <4>1. itxg[s].txg = 0 => itxg[s].sync = <<>>
        BY <3>1 DEF SlotOk
      <4>2. itxg[s].sync # <<>>
        OBVIOUS
      <4>3. itxg[s].sync[k].txg = itxg[s].txg
        BY <3>1 DEF SlotOk
      <4>4. itxg[s].txg \in Nat
        BY <1>3, SlotTypes
      <4> QED BY <4>1, <4>2, <4>3, <4>4
    <3>3. Slot(itxg[s].txg) = s /\ Cleaned < itxg[s].txg /\ itxg[s].txg <= open
      BY <1>3, <3>2 DEF RunInv, QueueInv
    <3>4. Cleaned = synced - 1 /\ open <= synced + 2 /\ synced \in Nat /\ open \in Nat
      BY <1>2 DEF Cleaned, LastSynced, PoolInv, TXG_CONCURRENT_STATES
    <3> QED BY <1>3, <3>2, <3>3, <3>4 DEF Slot, TXG_SIZE
  <2>3. Ordered(Contents, Len(lwb), commit_list, Queues, GivenUp, vanished, logged, synced)
    BY DEF OrderInv, GroupOrder
  <2>4. Len(lwb) \in Nat /\ synced \in Int
    BY DEF RunInv, LwbInv, PoolInv
  <2>5. \A b \in Len(lwb) + 1 .. Len(lwb) : Contents[b] = <<>>
    BY <2>4
  <2>6. \A i \in 0 .. TXG_SIZE - 1 :
          \/ Queues'[i] = Queues[i]
          \/ Queues'[i] = <<>> /\ \A k \in DOMAIN Queues[i] : Queues[i][k].txg <= synced
    BY <2>1, <2>2
  <2> QED BY <1>2, <1>4, <2>3, <2>4, <2>5, <2>6, LoggedFacts, OrderKept
<1> QED BY <1>1, <1>2, <1>3, <1>4, <1>5, <1>6, <1>7, <1>8, SlotChange

(* An itx is put in its slot, which is empty if it was another group's.    *)
LEMMA AssignedSlot ==
  ASSUME PoolInv, RunInv, OrderInv, NEW th \in Threads, NEW itx \in Itxs, Holds(itx.txg),
         itx.txg # 0, itx.by = th, ItxAssign(th, itx), NEW x, x = Slot(itx.txg)
  PROVE  /\ x \in 0 .. TXG_SIZE - 1
         /\ \E e : /\ itxg' = [itxg EXCEPT ![x] = e] /\ e.txg = itx.txg
                   /\ e.sync = IF itx.sync THEN Append(itxg[x].sync, itx) ELSE itxg[x].sync
                   /\ \A u \in Threads :
                        e.async[u] = IF ~itx.sync /\ u = th THEN Append(itxg[x].async[u], itx)
                                     ELSE itxg[x].async[u]
         /\ \/ itxg[x].txg = itx.txg
            \/ itxg[x].sync = <<>> /\ \A u \in Threads : itxg[x].async[u] = <<>>
<1>1. x \in 0 .. TXG_SIZE - 1 /\ itx.txg \in Nat
  BY SlotType DEF Itxs
<1>2. /\ itxg \in [0 .. TXG_SIZE - 1 -> Itxgs(open)]
      /\ itxg[x] = [f \in {"txg", "sync", "async"} |-> itxg[x][f]] /\ itxg[x].txg \in Nat
      /\ itxg[x].async = [u \in Threads |-> itxg[x].async[u]]
  BY <1>1, SlotTypes
<1>3. itxg[x].txg = itx.txg \/ itxg[x].txg = 0
  <2> SUFFICES ASSUME itxg[x].txg # 0 PROVE itxg[x].txg = itx.txg
    OBVIOUS
  <2>1. Slot(itxg[x].txg) = x /\ Cleaned < itxg[x].txg /\ itxg[x].txg <= open
    BY <1>1 DEF RunInv, QueueInv
  <2>2. Cleaned < itx.txg /\ itx.txg <= open
    BY <1>1, PoolFacts DEF Holds
  <2>3. Cleaned \in Int /\ open \in Nat /\ open <= Cleaned + 3
    BY PoolFacts DEF PoolInv, TXG_CONCURRENT_STATES
  <2> QED BY <1>1, <1>2, <2>1, <2>2, <2>3 DEF Slot, TXG_SIZE
<1>4. SlotOk(itxg[x])
  BY <1>1 DEF OrderInv, EntryInv
<1>5. \/ itxg[x].txg = itx.txg
      \/ itxg[x].sync = <<>> /\ \A u \in Threads : itxg[x].async[u] = <<>>
  BY <1>3, <1>4 DEF SlotOk
<1>6. PICK g : /\ g = [f \in {"txg", "sync", "async"} |-> g[f]] /\ g.txg = itx.txg
               /\ g.sync = itxg[x].sync
               /\ g.async = [u \in Threads |-> itxg[x].async[u]]
               /\ Assigned(itxg[x], itx) = IF itx.sync THEN [g EXCEPT !.sync = Append(@, itx)]
                                           ELSE [g EXCEPT !.async[itx.by] = Append(@, itx)]
  <2>1. PICK g : /\ g = IF itxg[x].txg = itx.txg THEN itxg[x]
                                                 ELSE [EmptyItxg EXCEPT !.txg = itx.txg]
                 /\ Assigned(itxg[x], itx) = IF itx.sync THEN [g EXCEPT !.sync = Append(@, itx)]
                                             ELSE [g EXCEPT !.async[itx.by] = Append(@, itx)]
    BY DEF Assigned
  <2>2. CASE itxg[x].txg = itx.txg
    BY <1>2, <2>1, <2>2
  <2>3. CASE itxg[x].txg # itx.txg
    <3>1. /\ g = [f \in {"txg", "sync", "async"} |-> g[f]] /\ g.txg = itx.txg
          /\ g.sync = <<>> /\ g.async = [u \in Threads |-> <<>>]
      BY <2>1, <2>3 DEF EmptyItxg
    <3>2. itxg[x].sync = <<>> /\ \A u \in Threads : itxg[x].async[u] = <<>>
      BY <1>5, <2>3
    <3>3. [u \in Threads |-> itxg[x].async[u]] = [u \in Threads |-> <<>>]
      BY <3>2
    <3> QED BY <2>1, <3>1, <3>2, <3>3
  <2> QED BY <2>2, <2>3
<1>7. PICK e : e = Assigned(itxg[x], itx)
  OBVIOUS
<1>8. itxg' = [itxg EXCEPT ![x] = e]
  BY <1>7 DEF ItxAssign
<1>9. /\ e.txg = itx.txg
      /\ e.sync = IF itx.sync THEN Append(itxg[x].sync, itx) ELSE itxg[x].sync
      /\ \A u \in Threads : e.async[u] = IF ~itx.sync /\ u = th
                                         THEN Append(itxg[x].async[u], itx)
                                         ELSE itxg[x].async[u]
  <2>1. CASE itx.sync
    BY <1>6, <1>7, <2>1
  <2>2. CASE ~itx.sync
    <3>1. e = [g EXCEPT !.async[th] = Append(@, itx)]
      BY <1>6, <1>7, <2>2
    <3>2. e.async = [g.async EXCEPT ![th] = Append(@, itx)] /\ e.sync = g.sync /\ e.txg = g.txg
      BY <1>6, <3>1
    <3> QED BY <1>6, <2>2, <3>2
  <2> QED BY <2>1, <2>2
<1> QED BY <1>1, <1>5, <1>8, <1>9

LEMMA AppendKnown ==
  ASSUME NEW S, NEW q \in Seq(S), NEW z \in S, Known(z)', AllKnown(q)'
  PROVE  AllKnown(Append(q, z))'
<1>1. PICK w : w = Append(q, z)
  OBVIOUS
<1>2. \A k \in DOMAIN w : (k \in DOMAIN q /\ w[k] = q[k]) \/ w[k] = z
  BY <1>1
<1>3. AllKnown(w)'
  BY <1>2 DEF AllKnown
<1> QED BY <1>1, <1>3

(* An itx is queued by a thread that goes on without the issuer lock.      *)
LEMMA ItxQueued ==
  ASSUME PoolInv, RunInv, DiskInv, OrderInv, NEW th \in Threads, NEW itx \in Itxs,
         Holds(itx.txg), itx.txg # 0, itx.by = th, ItxAssign(th, itx), LogQuiet,
         UNCHANGED <<lwb_list, freed, synced, spa, open, commit_list, cur>>,
         OnlyThread(th), HeadOk(th)', pc[th] \notin IssuerPcs, LoggedInv',
         \A z \in Itxs : Known(z) => Known(z)', Known(itx)',
         NEW x, x = Slot(itx.txg),
         (itx.sync /\ \A i \in 0 .. TXG_SIZE - 1 :
              Queues'[i] = IF i = x THEN Append(Queues[i], itx) ELSE Queues[i])
         \/ (~itx.sync /\ \A i \in 0 .. TXG_SIZE - 1 : Queues'[i] = Queues[i])
         => Ordered(Contents, Len(lwb), commit_list, Queues', GivenUp, vanished', logged', synced)
  PROVE  OrderInv'
<1>1. /\ x \in 0 .. TXG_SIZE - 1
      /\ \E e : /\ itxg' = [itxg EXCEPT ![x] = e] /\ e.txg = itx.txg
                /\ e.sync = IF itx.sync THEN Append(itxg[x].sync, itx) ELSE itxg[x].sync
                /\ \A u \in Threads :
                     e.async[u] = IF ~itx.sync /\ u = th THEN Append(itxg[x].async[u], itx)
                                  ELSE itxg[x].async[u]
      /\ \/ itxg[x].txg = itx.txg
         \/ itxg[x].sync = <<>> /\ \A u \in Threads : itxg[x].async[u] = <<>>
  BY AssignedSlot
<1>2. PICK e : /\ itxg' = [itxg EXCEPT ![x] = e] /\ e.txg = itx.txg
               /\ e.sync = IF itx.sync THEN Append(itxg[x].sync, itx) ELSE itxg[x].sync
               /\ \A u \in Threads :
                    e.async[u] = IF ~itx.sync /\ u = th THEN Append(itxg[x].async[u], itx)
                                 ELSE itxg[x].async[u]
  BY <1>1
<1>3. /\ itxg[x].sync \in Seq(Itxs) /\ \A u \in Threads : itxg[x].async[u] \in Seq(Itxs)
      /\ itxg = [i \in 0 .. TXG_SIZE - 1 |-> itxg[i]]
  <2>1. /\ itxg[x].sync \in Seq(UpTo(open)) /\ UpTo(open) \subseteq Itxs
        /\ \A u \in Threads : itxg[x].async[u] \in Seq(UpTo(open))
        /\ itxg = [i \in 0 .. TXG_SIZE - 1 |-> itxg[i]]
    BY <1>1, SlotTypes
  <2>2. \A q \in Seq(UpTo(open)) : q \in Seq(Itxs)
    BY <2>1, SeqGrows
  <2> QED BY <2>1, <2>2
<1>4. SlotOk(itxg[x]) /\ AllKnown(itxg[x].sync) /\ \A u \in Threads : AllKnown(itxg[x].async[u])
  BY <1>1 DEF OrderInv, EntryInv, KnownInv
<1>5. PICK g : g = itxg[x]
  OBVIOUS
<1>6. ASSUME NEW q \in Seq(Itxs)
      PROVE  \A k \in DOMAIN Append(q, itx) :
                \/ k \in DOMAIN q /\ Append(q, itx)[k] = q[k]
                \/ Append(q, itx)[k] = itx
  OBVIOUS
<1>7. SlotOk(e)
  <2>1. \A k \in DOMAIN e.sync : (k \in DOMAIN itxg[x].sync /\ e.sync[k] = itxg[x].sync[k])
                                 \/ e.sync[k] = itx
    <3>1. CASE itx.sync
      <4>1. PICK q \in Seq(Itxs) : q = itxg[x].sync
        BY <1>3
      <4>2. PICK w : w = Append(q, itx)
        OBVIOUS
      <4>3. e.sync = w /\ \A k \in DOMAIN w : (k \in DOMAIN q /\ w[k] = q[k]) \/ w[k] = itx
        BY <1>2, <1>6, <3>1, <4>1, <4>2
      <4> QED BY <4>1, <4>3
    <3>2. CASE ~itx.sync
      BY <1>2, <3>2
    <3> QED BY <3>1, <3>2
  <2>2. \A k \in DOMAIN e.sync : e.sync[k].txg = e.txg
    BY <1>1, <1>2, <1>4, <2>1 DEF SlotOk
  <2>3. ASSUME NEW u \in Threads, NEW k \in DOMAIN e.async[u]
        PROVE  ~e.async[u][k].sync /\ e.async[u][k].txg = e.txg
    <3>1. CASE e.async[u] = itxg[x].async[u]
      BY <1>1, <1>2, <1>4, <2>3, <3>1 DEF SlotOk
    <3>2. CASE ~itx.sync /\ e.async[u] = Append(itxg[x].async[u], itx)
      <4>1. PICK q \in Seq(Itxs) : q = itxg[x].async[u]
        BY <1>3
      <4>2. PICK w : w = Append(q, itx)
        OBVIOUS
      <4>3. e.async[u] = w /\ \A m \in DOMAIN w : (m \in DOMAIN q /\ w[m] = q[m]) \/ w[m] = itx
        BY <1>6, <3>2, <4>1, <4>2
      <4>4. \A m \in DOMAIN q : ~q[m].sync /\ q[m].txg = e.txg
        BY <1>1, <1>2, <1>4, <4>1 DEF SlotOk
      <4> QED BY <1>2, <2>3, <3>2, <4>3, <4>4
    <3> QED BY <1>2, <3>1, <3>2
  <2> QED BY <1>2, <2>2, <2>3 DEF SlotOk
<1>8. AllKnown(g.sync)' /\ \A u \in Threads : AllKnown(g.async[u])'
  BY <1>3, <1>4, <1>5, KnownKept
<1>9. AllKnown(e.sync)'
  <2>1. AllKnown(Append(g.sync, itx))'
    BY <1>3, <1>5, <1>8, AppendKnown
  <2>2. e.sync = g.sync \/ e.sync = Append(g.sync, itx)
    BY <1>2, <1>5
  <2> QED BY <1>8, <2>1, <2>2
<1>10. \A u \in Threads : AllKnown(e.async[u])'
  <2> TAKE u \in Threads
  <2>1. AllKnown(Append(g.async[u], itx))'
    BY <1>3, <1>5, <1>8, AppendKnown
  <2>2. e.async[u] = g.async[u] \/ e.async[u] = Append(g.async[u], itx)
    BY <1>2, <1>5
  <2> QED BY <1>8, <2>1, <2>2
<1>11. AllKnown(commit_list)'
  <2>1. PICK q \in Seq(Itxs) : q = commit_list
    BY SlotTypes, SeqGrows
  <2>2. AllKnown(q)'
    BY <2>1, KnownKept DEF OrderInv, KnownInv
  <2>3. commit_list' = q
    BY <2>1
  <2> QED BY <2>2, <2>3 DEF AllKnown
<1>12. Ordered(Contents, Len(lwb), commit_list, Queues', GivenUp, vanished', logged', synced)
  <2>1. \A i \in 0 .. TXG_SIZE - 1 : itxg'[i] = IF i = x THEN e ELSE itxg[i]
    BY <1>2, <1>3
  <2>2. \A i \in 0 .. TXG_SIZE - 1 : Queues[i] = itxg[i].sync /\ Queues'[i] = itxg'[i].sync
    BY DEF Queues
  <2>3. CASE itx.sync
    <3>1. \A i \in 0 .. TXG_SIZE - 1 :
              Queues'[i] = IF i = x THEN Append(Queues[i], itx) ELSE Queues[i]
      <4>1. e.sync = Append(itxg[x].sync, itx)
        BY <1>2, <2>3
      <4>2. ASSUME NEW i \in 0 .. TXG_SIZE - 1, i = x PROVE Queues'[i] = Append(Queues[i], itx)
        BY <2>1, <2>2, <4>1, <4>2
      <4>3. ASSUME NEW i \in 0 .. TXG_SIZE - 1, i # x PROVE Queues'[i] = Queues[i]
        BY <2>1, <2>2, <4>3
      <4> QED BY <4>2, <4>3
    <3> QED BY <2>3, <3>1
  <2>4. CASE ~itx.sync
    <3>1. \A i \in 0 .. TXG_SIZE - 1 : Queues'[i] = Queues[i]
      BY <1>2, <2>1, <2>2, <2>4
    <3> QED BY <2>4, <3>1
  <2> QED BY <2>3, <2>4
<1>13. \A i \in DOMAIN logged' : logged'[i].txg \in Nat
  <2>1. \A z \in Itxs : z.txg \in Nat
    BY DEF Itxs
  <2>2. PICK q \in Seq(Itxs) : q = logged'
    BY DEF LoggedInv
  <2> QED BY <2>1, <2>2
<1>14. Ordered(Contents, Len(lwb), commit_list', Queues', GivenUp', vanished', logged', synced)
  <2>1. GivenUp \subseteq GivenUp'
    BY GivenUpOutside DEF RunInv, PoolInv
  <2> QED BY <1>12, <1>13, <2>1, Regiven DEF RunInv
<1>15. HeadInv'
  BY HeadMove DEF OrderInv, EntryInv
<1> QED BY <1>1, <1>2, <1>7, <1>9, <1>10, <1>11, <1>14, <1>15, SlotChange

LEMMA LogOrder ==
  ASSUME PoolInv, RunInv, DiskInv, OrderInv, NEW th \in Threads, LogItx(th)
  PROVE  OrderInv'
<1>1. LogQuiet
  BY QuietSteps
<1>2. PICK sync \in BOOLEAN :
        LET r == [by |-> th, n |-> budget.recs[th], sync |-> sync, txg |-> tx[th]]
        IN  ItxAssign(th, r) /\ logged' = Append(logged, r)
  BY DEF LogItx
<1>3. /\ UNCHANGED <<lwb_list, freed, synced, spa, open, commit_list, cur, pos,
                     vanished>>
      /\ pc[th] = "log" /\ Goto(th, "idle")
      /\ budget' = [budget EXCEPT !.recs[th] = @ - 1]
  BY DEF LogItx, lwbVars
<1>4. tx' = [tx EXCEPT ![th] = 0]
  BY <1>2 DEF ItxAssign
<1>5. /\ budget.recs \in [Threads -> Int] /\ Holds(tx[th]) /\ tx = [u \in Threads |-> tx[u]]
      /\ budget'.recs = [budget.recs EXCEPT ![th] = @ - 1]
  BY <1>3 DEF RunInv, QueueInv, BudgetOk, HeldInv
<1>6. budget.recs[th] > 0 /\ tx[th] # 0 /\ tx[th] \in Nat
  BY <1>3, <1>5 DEF OrderInv, EntryInv, HeadInv, HeadOk, Holds
<1>7. pc'[th] = "idle" /\ \A u \in Threads : u # th => pc'[u] = pc[u]
  BY <1>3, PcMove
<1>8. OnlyThread(th) /\ HeadOk(th)' /\ pc[th] \notin IssuerPcs
  BY <1>3, <1>4, <1>5, <1>7 DEF OnlyThread, HeadOk, Stalls, IssuerPcs
<1>9. PICK r : /\ r = [by |-> th, n |-> budget.recs[th], sync |-> sync, txg |-> tx[th]]
               /\ ItxAssign(th, r) /\ logged' = Append(logged, r)
  BY <1>2
<1>10. /\ r \in Itxs /\ r.by = th /\ r.txg = tx[th] /\ r.n = budget.recs[th] /\ r.sync = sync
  BY <1>5, <1>6, <1>9 DEF Itxs
<1>11. LoggedInv'
  <2>1. logged \in Seq(Itxs) /\ \A j \in DOMAIN logged : logged[j].n # 0
    BY LoggedFacts
  <2>2. PICK w : w = Append(logged, r)
    OBVIOUS
  <2>3. w \in Seq(Itxs) /\ \A j \in DOMAIN w : (j \in DOMAIN logged /\ w[j] = logged[j]) \/ w[j] = r
    BY <1>10, <2>1, <2>2
  <2>4. \A j \in DOMAIN w : w[j].n # 0
    BY <1>5, <1>6, <1>10, <2>1, <2>3
  <2> QED BY <1>9, <2>2, <2>3, <2>4 DEF LoggedInv
<1>12. (\A z \in Itxs : Known(z) => Known(z)') /\ Known(r)' /\ ~Known(r)
  <2>1. \A z \in Itxs : z.by \in Threads /\ z.n \in Int
    BY DEF Itxs
  <2>2. \A u \in Threads : /\ budget.recs[u] \in Int /\ budget'.recs[u] \in Int
                           /\ budget'.recs[u] <= budget.recs[u]
    BY <1>5
  <2>3. budget'.recs[th] = budget.recs[th] - 1
    BY <1>5
  <2>4. \A z \in Itxs : Known(z) => Known(z)'
    BY <2>1, <2>2 DEF Known
  <2>5. Known(r)' /\ ~Known(r)
    BY <1>6, <1>10, <2>2, <2>3 DEF Known
  <2> QED BY <2>4, <2>5
<1>13. PICK x : x = Slot(r.txg) /\ x \in 0 .. TXG_SIZE - 1
  BY <1>6, <1>10, SlotType
<1>14. Ordered(Contents, Len(lwb), commit_list, Queues, GivenUp, vanished, logged, synced)
  BY DEF OrderInv, GroupOrder
<1>15. ASSUME sync, \A i \in 0 .. TXG_SIZE - 1 :
                      Queues'[i] = IF i = x THEN Append(Queues[i], r) ELSE Queues[i]
       PROVE  Ordered(Contents, Len(lwb), commit_list, Queues', GivenUp, vanished', logged', synced)
  <2>1. \A q : AllKnown(q) => ~In(r, q)
    BY <1>12 DEF AllKnown, In
  <2>2. ~Stored(r, Contents, Len(lwb)) /\ ~In(r, commit_list) /\ ~In(r, Queues[x])
    <3>1. \A b \in 1 .. Len(lwb) : ~In(r, Contents[b])
      BY <2>1 DEF OrderInv, KnownInv, Contents
    <3>2. ~In(r, commit_list) /\ ~In(r, Queues[x])
      BY <1>13, <2>1 DEF OrderInv, KnownInv, Queues
    <3> QED BY <3>1, <3>2 DEF Stored
  <2>3. Queues[x] \in Seq(Itxs)
    <3>1. itxg[x].sync \in Seq(UpTo(open)) /\ UpTo(open) \subseteq Itxs
      BY <1>13, SlotTypes
    <3> QED BY <1>13, <3>1, SeqGrows DEF Queues
  <2>4. /\ logged \in Seq(Itxs) /\ \A i \in DOMAIN logged : logged[i].txg \in Nat
        /\ r.txg \in Nat /\ Slot(r.txg) = x
    BY <1>6, <1>10, <1>13, LoggedFacts
  <2>5. /\ Queues'[x] = Append(Queues[x], r)
        /\ \A i \in 0 .. TXG_SIZE - 1 : i # x => Queues'[i] = Queues[i]
    BY <1>13, <1>15
  <2>6. Ordered(Contents, Len(lwb), commit_list, Queues', GivenUp, vanished, Append(logged, r), synced)
    BY <1>10, <1>13, <1>14, <2>2, <2>3, <2>4, <2>5, OrderLogged
  <2> QED BY <1>3, <1>9, <2>6
<1>16. ASSUME ~sync, \A i \in 0 .. TXG_SIZE - 1 : Queues'[i] = Queues[i]
       PROVE  Ordered(Contents, Len(lwb), commit_list, Queues', GivenUp, vanished', logged', synced)
  <2>1. Queues' = Queues
    BY <1>16 DEF Queues
  <2>2. logged \in Seq(Itxs)
    BY LoggedFacts
  <2>3. Ordered(Contents, Len(lwb), commit_list, Queues, GivenUp, vanished, Append(logged, r), synced)
    BY <1>10, <1>14, <1>16, <2>2, OrderLoggedAsync
  <2> QED BY <1>3, <1>9, <2>1, <2>3
<1>17. Holds(r.txg) /\ r.txg # 0
  BY <1>5, <1>6, <1>10
<1> QED BY <1>1, <1>3, <1>8, <1>9, <1>10, <1>11, <1>12, <1>13, <1>15, <1>16, <1>17, ItxQueued

LEMMA CommitItxOrder ==
  ASSUME PoolInv, RunInv, DiskInv, OrderInv, NEW th \in Threads, CommitItx(th)
  PROVE  OrderInv'
<1>1. LogQuiet
  BY QuietSteps
<1>2. /\ UNCHANGED <<lwb_list, freed, synced, spa, open, commit_list, cur, pos, logged,
                     vanished, budget>>
      /\ pc[th] = "commit_itx" /\ Goto(th, "writer")
  BY DEF CommitItx, poolVars, lwbVars
<1>3. PICK r : /\ r = [by |-> th, n |-> 0, sync |-> TRUE, txg |-> tx[th]]
               /\ ItxAssign(th, r)
  BY DEF CommitItx
<1>4. tx' = [tx EXCEPT ![th] = 0]
  BY <1>3 DEF ItxAssign
<1>5. Holds(tx[th]) /\ tx = [u \in Threads |-> tx[u]]
  BY DEF RunInv, HeldInv
<1>6. tx[th] # 0 /\ tx[th] \in Nat
  BY <1>2, <1>5 DEF OrderInv, EntryInv, HeadInv, HeadOk, Holds
<1>7. pc'[th] = "writer" /\ \A u \in Threads : u # th => pc'[u] = pc[u]
  BY <1>2, PcMove
<1>8. OnlyThread(th) /\ HeadOk(th)' /\ pc[th] \notin IssuerPcs
  BY <1>2, <1>4, <1>5, <1>7 DEF OnlyThread, HeadOk, Stalls, IssuerPcs
<1>9. /\ r \in Itxs /\ r.by = th /\ r.txg = tx[th] /\ r.n = 0 /\ r.sync
      /\ Holds(r.txg) /\ r.txg # 0
  BY <1>3, <1>5, <1>6 DEF Itxs
<1>10. LoggedInv' /\ (\A z \in Itxs : Known(z) => Known(z)') /\ Known(r)'
  BY <1>2, <1>9 DEF Known, OrderInv, EntryInv, LoggedInv
<1>11. PICK x : x = Slot(r.txg) /\ x \in 0 .. TXG_SIZE - 1
  BY <1>6, <1>9, SlotType
<1>12. ASSUME \A i \in 0 .. TXG_SIZE - 1 :
                Queues'[i] = IF i = x THEN Append(Queues[i], r) ELSE Queues[i]
       PROVE  Ordered(Contents, Len(lwb), commit_list, Queues', GivenUp, vanished', logged', synced)
  <2>1. Queues[x] \in Seq(Itxs) /\ <<r>> \in Seq(Itxs)
    <3>1. itxg[x].sync \in Seq(UpTo(open)) /\ UpTo(open) \subseteq Itxs
      BY <1>11, SlotTypes
    <3> QED BY <1>9, <1>11, <3>1, SeqGrows DEF Queues
  <2>2. Append(Queues[x], r) = Queues[x] \o <<r>>
    BY <1>9, <2>1
  <2>3. /\ Queues'[x] = Queues[x] \o <<r>>
        /\ \A i \in 0 .. TXG_SIZE - 1 : i # x => Queues'[i] = Queues[i]
    BY <1>11, <1>12, <2>2
  <2>4. PICK more : more = <<r>> /\ more \in Seq(Itxs)
    BY <2>1
  <2>5. \A k \in DOMAIN more : \A i \in DOMAIN logged : logged[i].sync => more[k] # logged[i]
    BY <1>9, <2>4, LoggedFacts
  <2>6. Ordered(Contents, Len(lwb), commit_list, Queues, GivenUp, vanished, logged, synced)
    BY DEF OrderInv, GroupOrder
  <2>7. Ordered(Contents, Len(lwb), commit_list, Queues', GivenUp, vanished, logged, synced)
    <3>1. Queues'[x] = Queues[x] \o more /\ Queues[x] \in Seq(Itxs)
      BY <2>1, <2>3, <2>4
    <3>2. \A i \in 0 .. TXG_SIZE - 1 : i # x => Queues'[i] = Queues[i]
      BY <2>3
    <3>3. x \in 0 .. TXG_SIZE - 1 /\ more \in Seq(Itxs)
      BY <1>11, <2>4
    <3>4. \A i \in DOMAIN logged : logged[i].txg \in Nat
      BY LoggedFacts
    <3>5. Longer(Queues, Queues', logged)
      BY <2>5, <3>1, <3>2, <3>3, <3>4 DEF Longer
    <3> QED BY <2>6, <3>5, OrderQueued
  <2> QED BY <1>2, <2>7
<1>13. ItxAssign(th, r) /\ x = Slot(r.txg)
  BY <1>3, <1>11
<1> QED BY <1>1, <1>2, <1>8, <1>9, <1>10, <1>12, <1>13, ItxQueued

-----------------------------------------------------------------------------
(* Steps that change the blocks                                            *)

LEMMA OneMoved ==
  ASSUME LwbInv, WrittenInv, NEW b \in 1 .. Len(lwb), NEW m, lwb' = [lwb EXCEPT ![b] = m],
         disk' = disk, m.recs = lwb[b].recs, m.max_txg = lwb[b].max_txg,
         \/ lwb[b].state \in Unwritten /\ m.state \in Unwritten
         \/ lwb[b].state \in Done /\ m.state \in Done
  PROVE  /\ Len(lwb') = Len(lwb)
         /\ \A c \in 1 .. Len(lwb) : Moved(lwb[c], lwb'[c], disk[c], disk'[c])
<1>1. /\ lwb' = [c \in 1 .. Len(lwb) |-> lwb'[c]] /\ Len(lwb) \in Nat
      /\ \A c \in 1 .. Len(lwb) : lwb'[c] = IF c = b THEN m ELSE lwb[c]
  BY DEF LwbInv
<1>2. Len(lwb') = Len(lwb)
  BY <1>1, AppendIs
<1>3. lwb[b].state \in Done => disk[b].recs = lwb[b].recs
  BY DEF WrittenInv, OnDiskOk
<1> QED BY <1>1, <1>2, <1>3 DEF Moved

LEMMA UnmovedBlocks ==
  ASSUME UNCHANGED <<lwb, disk>>
  PROVE  /\ Len(lwb') = Len(lwb)
         /\ \A c \in 1 .. Len(lwb) : Moved(lwb[c], lwb'[c], disk[c], disk'[c])
BY DEF Moved

LEMMA PruneOrder ==
  ASSUME PoolInv, RunInv, DiskInv, OrderInv, NEW th \in Threads, PruneCommit(th)
  PROVE  OrderInv'
<1>1. /\ UNCHANGED <<zh_log, zh_syncing, lwb_list, freed, synced, spa, open, itxg, logged,
                     vanished, tx, pc, pos, cur, budget, disk>>
      /\ pc[th] = "prune" /\ commit_list # <<>> /\ commit_list' = Tail(commit_list)
      /\ Head(commit_list).n = 0
      /\ \/ UNCHANGED lwb
         \/ ~NothingPending /\ lwb' = Linked(lwb, last_opened, Head(commit_list).by)
  BY DEF PruneCommit, HeadIsCommit, IsCommit, poolVars, ghostVars
<1>2. HeadInv' /\ GivenUp' = GivenUp
  BY <1>1 DEF OrderInv, EntryInv, HeadInv, HeadOk, GivenUp, GivesUp
<1>3. /\ Len(lwb') = Len(lwb)
      /\ \A c \in 1 .. Len(lwb) : Moved(lwb[c], lwb'[c], disk[c], disk'[c])
  <2>1. CASE UNCHANGED lwb
    BY <1>1, <2>1, UnmovedBlocks
  <2>2. CASE ~NothingPending /\ lwb' = Linked(lwb, last_opened, Head(commit_list).by)
    <3> DEFINE b == last_opened
               m == [lwb[b] EXCEPT !.waiters = @ \cup {Head(commit_list).by}]
    <3>1. b \in 1 .. Len(lwb) /\ lwb[b] = [f \in LwbFields |-> lwb[b][f]]
          /\ lwb[b].state \in LwbStates /\ lwb[b].state \notin {"FREE", "FLUSH_DONE"}
      BY <2>2 DEF NothingPending, RunInv, LwbInv, LwbOk
    <3>2. lwb' = [lwb EXCEPT ![b] = m]
      BY <2>2 DEF Linked
    <3>3. m.recs = lwb[b].recs /\ m.max_txg = lwb[b].max_txg /\ m.state = lwb[b].state
      BY <3>1 DEF LwbFields
    <3>4. lwb[b].state \in Unwritten \/ lwb[b].state \in Done
      BY <3>1 DEF LwbStates, Unwritten, Done
    <3> HIDE DEF b, m
    <3> QED BY <1>1, <3>1, <3>2, <3>3, <3>4, OneMoved DEF RunInv, OrderInv
  <2> QED BY <1>1, <2>1, <2>2
<1>4. /\ WrittenInv' /\ ChainInv' /\ Contents' = Contents
      /\ \A b \in 1 .. Len(lwb) : Content(b)' = Content(b)
  BY <1>1, <1>3, BlocksMoved DEF RunInv, OrderInv, DiskInv
<1>5. synced \in Nat /\ commit_list \in Seq(UpTo(open))
  BY SlotTypes, PoolFacts
<1> QED BY <1>1, <1>2, <1>3, <1>4, <1>5, DropFrame

(* The block the issuer fills is opened.                                   *)
LEMMA CurMoved ==
  ASSUME RunInv, OrderInv, cur # 0, disk' = disk, NEW th,
         lwb' = Opened(cur) \/ lwb' = Linked(Opened(cur), cur, th)
  PROVE  /\ Len(lwb') = Len(lwb)
         /\ \A c \in 1 .. Len(lwb) : Moved(lwb[c], lwb'[c], disk[c], disk'[c])
<1>1. PICK r : /\ Opened(cur) = [lwb EXCEPT ![cur] = r] /\ r = [f \in LwbFields |-> r[f]]
               /\ r.state = "OPENED" /\ r.recs = lwb[cur].recs
               /\ r.max_txg = lwb[cur].max_txg
  BY CurFacts, OpenedFacts DEF RunInv
<1>2. cur \in 1 .. Len(lwb) /\ lwb[cur].state \in Unwritten /\ LwbInv /\ WrittenInv
  BY CurFacts DEF RunInv, OrderInv, Unwritten, Fillable
<1>3. PICK s : s = [r EXCEPT !.waiters = @ \cup {th}]
  OBVIOUS
<1>4. s.state = "OPENED" /\ s.recs = lwb[cur].recs /\ s.max_txg = lwb[cur].max_txg
  BY <1>1, <1>3 DEF LwbFields
<1>5. lwb' = [lwb EXCEPT ![cur] = r] \/ lwb' = [lwb EXCEPT ![cur] = s]
  <2>1. lwb = [c \in 1 .. Len(lwb) |-> lwb[c]]
    BY <1>2 DEF LwbInv
  <2>2. Linked([lwb EXCEPT ![cur] = r], cur, th) = [lwb EXCEPT ![cur] = s]
    BY <1>2, <1>3, <2>1 DEF Linked
  <2> QED BY <1>1, <2>2
<1>6. "OPENED" \in Unwritten
  BY DEF Unwritten
<1>7. CASE lwb' = [lwb EXCEPT ![cur] = r]
  BY <1>1, <1>2, <1>6, <1>7, OneMoved
<1>8. CASE lwb' = [lwb EXCEPT ![cur] = s]
  BY <1>2, <1>4, <1>6, <1>8, OneMoved
<1> QED BY <1>5, <1>7, <1>8

LEMMA ProcessCommitOrder ==
  ASSUME PoolInv, RunInv, DiskInv, OrderInv, NEW th \in Threads, ProcessCommit(th)
  PROVE  OrderInv'
<1>1. /\ UNCHANGED <<zh_log, zh_syncing, lwb_list, freed, synced, spa, open, itxg, logged,
                     vanished, tx, pc, pos, cur, budget, disk>>
      /\ pc[th] = "process" /\ commit_list # <<>> /\ commit_list' = Tail(commit_list)
      /\ \/ UNCHANGED lwb
         \/ cur # 0 /\ lwb' = Linked(Opened(cur), cur, Head(commit_list).by)
      /\ \/ Head(commit_list).n = 0 \/ ~Unsynced(Head(commit_list)) \/ cur = 0
  BY DEF ProcessCommit, IsCommit, poolVars, ghostVars
<1>2. HeadInv' /\ GivenUp' = GivenUp
  BY <1>1 DEF OrderInv, EntryInv, HeadInv, HeadOk, GivenUp, GivesUp
<1>3. /\ Len(lwb') = Len(lwb)
      /\ \A c \in 1 .. Len(lwb) : Moved(lwb[c], lwb'[c], disk[c], disk'[c])
  BY <1>1, UnmovedBlocks, CurMoved
<1>4. /\ WrittenInv' /\ ChainInv' /\ Contents' = Contents
      /\ \A b \in 1 .. Len(lwb) : Content(b)' = Content(b)
  BY <1>1, <1>3, BlocksMoved DEF RunInv, OrderInv, DiskInv
<1>5. synced \in Nat /\ commit_list \in Seq(UpTo(open))
  BY SlotTypes, PoolFacts
<1>6. \/ Head(commit_list).txg <= synced \/ Head(commit_list).txg \in GivenUp'
      \/ Head(commit_list).n = 0
  <2>1. Head(commit_list).txg \in 0 .. open /\ Head(commit_list).txg \in Nat
    BY <1>1, HeadFacts, PoolFacts DEF RunInv
  <2>2. CASE ~Unsynced(Head(commit_list))
    <3>1. LastSynced \in Int /\ LastSynced <= synced
      BY DEF PoolInv, LastSynced
    <3> QED BY <1>5, <2>1, <2>2, <3>1 DEF Unsynced
  <2>3. CASE cur = 0
    BY <1>1, <1>2, <2>1, <2>3 DEF GivenUp, GivesUp
  <2> QED BY <1>1, <2>2, <2>3
<1> QED BY <1>1, <1>2, <1>3, <1>4, <1>5, <1>6, DropFrame

LEMMA ProcessEIOOrder ==
  ASSUME PoolInv, RunInv, DiskInv, OrderInv, NEW th \in Threads, ProcessEIO(th)
  PROVE  OrderInv'
<1>1. /\ UNCHANGED <<zh_log, zh_syncing, lwb_list, freed, synced, spa, open, itxg, logged,
                     vanished, tx, cur, disk>>
      /\ pc[th] \in {"process", "next"} /\ cur # 0 /\ commit_list # <<>>
      /\ commit_list' = Tail(commit_list) /\ lwb' = Opened(cur) /\ Goto(th, "eio")
      /\ pos' = [pos EXCEPT ![th] = <<Head(commit_list).txg>>]
      /\ budget' = [budget EXCEPT !.fails = @ - 1]
  BY DEF ProcessEIO, HasRoom, poolVars, lwbVars, ghostVars
<1>2. pc'[th] = "eio" /\ \A u \in Threads : u # th => pc'[u] = pc[u] /\ pos'[u] = pos[u]
  BY <1>1, PcMove DEF RunInv, IssuerInv
<1>3. budget'.recs = budget.recs /\ pos'[th] = <<Head(commit_list).txg>>
  BY <1>1 DEF RunInv, QueueInv, BudgetOk, IssuerInv
<1>4. /\ Head(commit_list).txg \in 0 .. open /\ Head(commit_list).txg \in Nat
      /\ Head(pos'[th]) = Head(commit_list).txg
  BY <1>1, <1>3, HeadFacts, PoolFacts DEF RunInv
<1>5. OnlyThread(th) /\ HeadOk(th)'
  BY <1>1, <1>2, <1>3, <1>4 DEF OnlyThread, HeadOk
<1>6. HeadInv'
  BY <1>5, HeadMove DEF OrderInv, EntryInv
<1>7. GivenUp = {}
  <2>1. pc[th] \in IssuerPcs /\ \A t : ~GivesUp(th, t)
    BY <1>1 DEF IssuerPcs, GivesUp, Stalls
  <2> QED BY <2>1, GivenUpInside DEF RunInv
<1>8. Head(commit_list).txg \in GivenUp'
  BY <1>1, <1>2, <1>4 DEF GivenUp, GivesUp
<1>9. /\ Len(lwb') = Len(lwb)
      /\ \A c \in 1 .. Len(lwb) : Moved(lwb[c], lwb'[c], disk[c], disk'[c])
  BY <1>1, CurMoved
<1>10. /\ WrittenInv' /\ ChainInv' /\ Contents' = Contents
       /\ \A b \in 1 .. Len(lwb) : Content(b)' = Content(b)
  BY <1>1, <1>9, BlocksMoved DEF RunInv, OrderInv, DiskInv
<1>11. synced \in Nat /\ commit_list \in Seq(UpTo(open))
  BY SlotTypes, PoolFacts
<1> QED BY <1>1, <1>3, <1>6, <1>7, <1>8, <1>9, <1>10, <1>11, DropFrame

LEMMA ProcessGoneOrder ==
  ASSUME PoolInv, RunInv, DiskInv, OrderInv, NEW th \in Threads, ProcessGone(th)
  PROVE  OrderInv'
<1>1. /\ UNCHANGED <<zh_log, zh_syncing, lwb_list, freed, synced, spa, open, itxg, logged, tx,
                     pos, cur, disk>>
      /\ pc[th] \in {"process", "next"} /\ cur # 0 /\ commit_list # <<>>
      /\ commit_list' = Tail(commit_list) /\ lwb' = Opened(cur) /\ Goto(th, "process")
      /\ vanished' = vanished \cup {Head(commit_list)}
      /\ budget' = [budget EXCEPT !.fails = @ - 1]
  BY DEF ProcessGone, HasRoom, poolVars, lwbVars
<1>2. pc'[th] = "process" /\ \A u \in Threads : u # th => pc'[u] = pc[u]
  BY <1>1, PcMove DEF RunInv, IssuerInv
<1>3. budget'.recs = budget.recs
  BY <1>1 DEF RunInv, QueueInv, BudgetOk
<1>4. OnlyThread(th) /\ HeadOk(th)'
  BY <1>1, <1>2, <1>3 DEF OnlyThread, HeadOk, Stalls
<1>5. HeadInv'
  BY <1>4, HeadMove DEF OrderInv, EntryInv
<1>6. GivenUp = {}
  <2>1. pc[th] \in IssuerPcs /\ \A t : ~GivesUp(th, t)
    BY <1>1 DEF IssuerPcs, GivesUp, Stalls
  <2> QED BY <2>1, GivenUpInside DEF RunInv
<1>7. /\ Len(lwb') = Len(lwb)
      /\ \A c \in 1 .. Len(lwb) : Moved(lwb[c], lwb'[c], disk[c], disk'[c])
  BY <1>1, CurMoved
<1>8. /\ WrittenInv' /\ ChainInv' /\ Contents' = Contents
      /\ \A b \in 1 .. Len(lwb) : Content(b)' = Content(b)
  BY <1>1, <1>7, BlocksMoved DEF RunInv, OrderInv, DiskInv
<1>9. synced \in Nat /\ commit_list \in Seq(UpTo(open))
  BY SlotTypes, PoolFacts
<1> QED BY <1>1, <1>3, <1>5, <1>6, <1>7, <1>8, <1>9, DropFrame

(* The blocks are written or flushed by the callbacks.                     *)
LEMMA MovedFrame ==
  ASSUME PoolInv, RunInv, DiskInv, OrderInv, Len(lwb') = Len(lwb),
         \A c \in 1 .. Len(lwb) : Moved(lwb[c], lwb'[c], disk[c], disk'[c]),
         UNCHANGED <<zh_log, zh_syncing, lwb_list, freed, synced, spa, itxg, logged, vanished,
                     commit_list>>,
         budget'.recs = budget.recs, HeadInv', GivenUp \subseteq GivenUp'
  PROVE  OrderInv'
<1>1. /\ WrittenInv' /\ ChainInv'
      /\ \A b \in 1 .. Len(lwb) : Content(b)' = Content(b)
  BY BlocksMoved DEF RunInv, OrderInv, DiskInv
<1>2. Len(lwb) \in Nat /\ synced \in Nat
  BY DEF RunInv, LwbInv, PoolInv
<1>3. \A b \in Len(lwb) + 1 .. Len(lwb') : Content(b)' = <<>>
  BY <1>2
<1> QED BY <1>1, <1>2, <1>3, OrderFrame

LEMMA ZioOrder ==
  ASSUME PoolInv, RunInv, DiskInv, OrderInv, ZioStep
  PROVE  OrderInv'
<1>0. /\ LwbInv /\ WrittenInv /\ Blocks = 1 .. Len(lwb) /\ Len(lwb) \in Nat
      /\ lwb = [c \in 1 .. Len(lwb) |-> lwb[c]] /\ disk = [c \in 1 .. Len(lwb) |-> disk[c]]
      /\ \A c \in 1 .. Len(lwb) : lwb[c] = [f \in LwbFields |-> lwb[c][f]]
  BY DEF RunInv, LwbInv, LwbOk, Blocks, OrderInv, DiskInv
<1>1. PICK b \in 1 .. Len(lwb) : WriteDone(b) \/ FlushVdevs(b) \/ FlushVdevsDone(b)
  BY <1>0 DEF ZioStep
<1>2. /\ UNCHANGED <<zh_log, zh_syncing, lwb_list, freed, synced, spa, open, itxg, logged,
                     vanished, commit_list, tx, pc, pos, cur>>
      /\ budget' = budget \/ budget' = [budget EXCEPT !.fails = @ - 1]
  BY <1>1 DEF WriteDone, FlushVdevs, FlushVdevsDone, poolVars, queueVars, threadVars, ghostVars
<1>3. budget'.recs = budget.recs
  BY <1>2 DEF RunInv, QueueInv, BudgetOk
<1>4. HeadInv' /\ GivenUp' = GivenUp
  BY <1>2, <1>3 DEF OrderInv, EntryInv, HeadInv, HeadOk, GivenUp, GivesUp
<1>5. CASE WriteDone(b)
  <2>1. PICK error \in BOOLEAN :
          /\ lwb' = [lwb EXCEPT ![b].state = "WRITE_DONE", ![b].cb = "flush",
                                ![b].error = error]
          /\ \/ disk' = [disk EXCEPT ![b] = [Written(b) EXCEPT !.at = "failed"]]
             \/ disk' = [disk EXCEPT ![b] = Written(b)]
    BY <1>5 DEF WriteDone
  <2>2. PICK m : m = [lwb[b] EXCEPT !.state = "WRITE_DONE", !.cb = "flush", !.error = error]
    OBVIOUS
  <2>3. /\ m.state = "WRITE_DONE" /\ m.recs = lwb[b].recs /\ m.max_txg = lwb[b].max_txg
    BY <1>0, <2>2 DEF LwbFields
  <2>4. /\ lwb' = [c \in 1 .. Len(lwb) |-> lwb'[c]]
        /\ \A c \in 1 .. Len(lwb) : lwb'[c] = IF c = b THEN m ELSE lwb[c]
    BY <1>0, <2>1, <2>2
  <2>5. Len(lwb') = Len(lwb)
    BY <1>0, <2>4, AppendIs
  <2>6. /\ Written(b).recs = lwb[b].recs
        /\ [Written(b) EXCEPT !.at = "failed"].recs = lwb[b].recs
    BY DEF Written
  <2>7. \A c \in 1 .. Len(lwb) : (c # b => disk'[c] = disk[c]) /\ disk'[b].recs = lwb[b].recs
    BY <1>0, <2>1, <2>6
  <2>8. lwb[b].state = "ISSUED"
    BY <1>5 DEF WriteDone
  <2>9. \A c \in 1 .. Len(lwb) : Moved(lwb[c], lwb'[c], disk[c], disk'[c])
    BY <2>3, <2>4, <2>7, <2>8 DEF Moved, Unwritten, Done
  <2> QED BY <1>2, <1>3, <1>4, <2>5, <2>9, MovedFrame
<1>6. CASE FlushVdevs(b)
  <2> DEFINE over == [lwb EXCEPT ![b].cb = "over", ![b].tree = {}]
             Same(m, l) == m.state = l.state /\ m.recs = l.recs /\ m.max_txg = l.max_txg
  <2>1. lwb' = over \/ lwb' = [over EXCEPT ![b + 1].tree = @ \cup lwb[b].tree]
    BY <1>6 DEF FlushVdevs
  <2>2. /\ over = [c \in 1 .. Len(lwb) |-> over[c]]
        /\ \A c \in 1 .. Len(lwb) : /\ Same(over[c], lwb[c]) /\ (c # b => over[c] = lwb[c])
                                    /\ over[c] = [f \in LwbFields |-> over[c][f]]
    <3>1. PICK m : m = [lwb[b] EXCEPT !.cb = "over", !.tree = {}]
      OBVIOUS
    <3>2. Same(m, lwb[b]) /\ m = [f \in LwbFields |-> m[f]]
      BY <1>0, <3>1 DEF LwbFields
    <3>3. /\ over = [c \in 1 .. Len(lwb) |-> over[c]]
          /\ \A c \in 1 .. Len(lwb) : over[c] = IF c = b THEN m ELSE lwb[c]
      BY <1>0, <3>1
    <3> HIDE DEF over
    <3> QED BY <1>0, <3>2, <3>3
  <2> HIDE DEF over
  <2>3. /\ lwb' = [c \in 1 .. Len(lwb) |-> lwb'[c]]
        /\ \A c \in 1 .. Len(lwb) : /\ Same(lwb'[c], lwb[c])
                                    /\ c \notin {b, b + 1} => lwb'[c] = lwb[c]
    <3>1. CASE lwb' = over
      BY <2>2, <3>1
    <3>2. CASE lwb' = [over EXCEPT ![b + 1].tree = @ \cup lwb[b].tree]
      <4>1. \A c \in 1 .. Len(lwb) :
              lwb'[c] = IF c = b + 1 THEN [over[c] EXCEPT !.tree = @ \cup lwb[b].tree]
                        ELSE over[c]
        BY <2>2, <3>2
      <4>2. \A c \in 1 .. Len(lwb) :
              Same([over[c] EXCEPT !.tree = @ \cup lwb[b].tree], over[c])
        BY <2>2 DEF LwbFields
      <4>3. lwb' = [c \in 1 .. Len(lwb) |-> lwb'[c]]
        BY <2>2, <3>2
      <4> QED BY <2>2, <4>1, <4>2, <4>3
    <3> QED BY <2>1, <3>1, <3>2
  <2>4. Len(lwb') = Len(lwb)
    BY <1>0, <2>3, AppendIs
  <2>5. \A c \in 1 .. Len(lwb) : \/ disk'[c] = disk[c]
                                 \/ disk[c].at \in Cached /\ disk'[c].recs = disk[c].recs
    <3>1. \A c \in 1 .. Len(lwb) : disk[c] = [f \in {"recs", "next", "vdev", "at"} |-> disk[c][f]]
      BY DEF DiskInv, BlockOk
    <3>2. \A c \in 1 .. Len(lwb) : \A w : [disk[c] EXCEPT !.at = w].recs = disk[c].recs
      BY <3>1
    <3>3. \A c \in 1 .. Len(lwb) : FlushMoves(disk[c], disk'[c])
      BY <1>6, FlushDisk
    <3>4. \A c \in 1 .. Len(lwb) : disk'[c] = disk[c] \/ disk[c].at \in Cached
      BY <3>3 DEF FlushMoves
    <3>5. \A c \in 1 .. Len(lwb) : disk'[c].recs = disk[c].recs
      <4> TAKE c \in 1 .. Len(lwb)
      <4>1. disk'[c] = disk[c] \/ \E w : disk'[c] = [disk[c] EXCEPT !.at = w]
        BY <3>3 DEF FlushMoves
      <4> QED BY <3>2, <4>1
    <3> QED BY <3>4, <3>5
  <2>7. \A c \in 1 .. Len(lwb) : Moved(lwb[c], lwb'[c], disk[c], disk'[c])
    BY <2>3, <2>5 DEF Moved
  <2> QED BY <1>2, <1>3, <1>4, <2>4, <2>7, MovedFrame
<1>7. CASE FlushVdevsDone(b)
  <2>1. PICK m : m = [lwb[b] EXCEPT !.state = "FLUSH_DONE", !.buf = FALSE, !.tx = 0,
                                    !.waiters = {}]
    OBVIOUS
  <2>2. lwb' = [lwb EXCEPT ![b] = m] /\ disk' = disk /\ lwb[b].state = "WRITE_DONE"
    BY <1>7, <2>1 DEF FlushVdevsDone
  <2>3. m.state = "FLUSH_DONE" /\ m.recs = lwb[b].recs /\ m.max_txg = lwb[b].max_txg
    BY <1>0, <2>1 DEF LwbFields
  <2>4. lwb[b].state \in Done /\ m.state \in Done
    BY <2>2, <2>3 DEF Done
  <2>5. /\ Len(lwb') = Len(lwb)
        /\ \A c \in 1 .. Len(lwb) : Moved(lwb[c], lwb'[c], disk[c], disk'[c])
    BY <1>0, <2>2, <2>3, <2>4, OneMoved
  <2> QED BY <1>2, <1>3, <1>4, <2>5, MovedFrame
<1> QED BY <1>1, <1>5, <1>6, <1>7

(* The groups of the pool go on.                                           *)
LEMMA PoolOrder ==
  ASSUME PoolInv, RunInv, DiskInv, OrderInv, OpenNext \/ UbSync \/ ItxgClean
  PROVE  OrderInv'
<1>1. LogQuiet
  BY QuietSteps
<1>2. /\ UNCHANGED <<lwb_list, freed, synced, itxg, commit_list, logged, vanished, tx, pc, pos,
                     cur, budget>>
      /\ spa' = spa \/ (spa # "sync" /\ spa' # "sync")
      /\ open' = open \/ open' = open + 1
  BY DEF OpenNext, UbSync, ItxgClean, poolVars, lwbVars, queueVars, threadVars, ghostVars
<1>3. HeadInv'
  BY <1>2 DEF OrderInv, EntryInv, HeadInv, HeadOk
<1>4. GivenUp \subseteq GivenUp'
  <2>1. \A u \in Threads : \A t : GivesUp(u, t) => GivesUp(u, t)'
    BY <1>2 DEF GivesUp
  <2>2. \A t \in 0 .. open : t \in 0 .. open'
    BY <1>2 DEF PoolInv
  <2> QED BY <2>1, <2>2 DEF GivenUp
<1> QED BY <1>1, <1>2, <1>3, <1>4, QuietFrame DEF RunInv

(* A block is allocated.                                                   *)
LEMMA BlockAdded ==
  ASSUME LwbInv, DiskInv, OrderInv, NEW l, NEW v, l = [c \in 1 .. Len(lwb) |-> l[c]],
         \A c \in 1 .. Len(lwb) : Moved(lwb[c], l[c], disk[c], disk[c]),
         lwb' = Append(l, Fresh(open, v)), disk' = Append(disk, NoBlock),
         lwb_list' = Append(lwb_list, Len(lwb) + 1), lwb_list = <<>> => zh_syncing = 0,
         UNCHANGED <<zh_log, zh_syncing, freed, synced, spa>>
  PROVE  /\ WrittenInv' /\ ChainInv' /\ Len(lwb') = Len(lwb) + 1
         /\ \A b \in 1 .. Len(lwb) : Content(b)' = Content(b)
         /\ \A b \in Len(lwb) + 1 .. Len(lwb') : Content(b)' = <<>>
<1>1. PICK n : n = Len(lwb)
  OBVIOUS
<1>2. /\ n \in Nat /\ l = [c \in 1 .. n |-> l[c]] /\ disk = [c \in 1 .. n |-> disk[c]]
      /\ lwb_list \in Seq(1 .. n) /\ zh_log \in 0 .. n /\ freed \subseteq 1 .. n
  BY <1>1 DEF LwbInv, DiskInv, OrderInv, ChainInv
<1>3. PICK e : e = Fresh(open, v)
  OBVIOUS
<1>4. e.state = "CLOSED" /\ e.recs = <<>>
  BY <1>3 DEF Fresh, NoLwb
<1>5. NoBlock.at = "unwritten" /\ NoBlock.recs = <<>>
  BY DEF NoBlock
<1>6. /\ Len(lwb') = n + 1 /\ lwb'[n + 1] = e /\ disk'[n + 1] = NoBlock
      /\ \A c \in 1 .. n : lwb'[c] = l[c] /\ disk'[c] = disk[c]
  <2>1. /\ Len(lwb') = n + 1
        /\ lwb' = [b \in 1 .. n + 1 |-> IF b = n + 1 THEN e ELSE l[b]]
    BY <1>2, <1>3, AppendIs
  <2>2. disk' = [b \in 1 .. n + 1 |-> IF b = n + 1 THEN NoBlock ELSE disk[b]]
    BY <1>2, AppendIs
  <2>3. n + 1 \in 1 .. n + 1 /\ \A c \in 1 .. n : c \in 1 .. n + 1 /\ c # n + 1
    BY <1>2
  <2> QED BY <2>1, <2>2, <2>3
<1>7. \A c \in 1 .. n : /\ OnDiskOk(lwb'[c], disk'[c], c, freed, synced)
                        /\ Content(c)' = Content(c)
  <2> TAKE c \in 1 .. n
  <2>1. OnDiskOk(lwb[c], disk[c], c, freed, synced)
    BY <1>1 DEF WrittenInv, OrderInv
  <2>2. Moved(lwb[c], lwb'[c], disk[c], disk'[c])
    BY <1>1, <1>6
  <2>3. /\ OnDiskOk(lwb'[c], disk'[c], c, freed, synced)
        /\ (IF lwb'[c].state = "FREE" THEN disk'[c].recs ELSE lwb'[c].recs)
             = (IF lwb[c].state = "FREE" THEN disk[c].recs ELSE lwb[c].recs)
    BY <2>1, <2>2, MovedOk
  <2> QED BY <2>3 DEF Content
<1>8. /\ OnDiskOk(lwb'[n + 1], disk'[n + 1], n + 1, freed, synced)
      /\ Content(n + 1)' = <<>>
  <2>1. n + 1 \notin freed
    BY <1>2
  <2>2. OnDiskOk(e, NoBlock, n + 1, freed, synced)
    BY <1>4, <1>5, <2>1 DEF OnDiskOk, Unwritten, Done
  <2> QED BY <1>4, <1>6, <2>2 DEF Content
<1>9. \A c \in 1 .. n + 1 : c \in 1 .. n \/ c = n + 1
  BY <1>2
<1>10. WrittenInv'
  BY <1>6, <1>7, <1>8, <1>9 DEF WrittenInv
<1>11. ChainInv'
  <2>1. PICK k : k = Len(lwb_list)
    OBVIOUS
  <2>2. /\ k \in Nat /\ DOMAIN lwb_list = 1 .. k /\ \A i \in 1 .. k : lwb_list[i] \in 1 .. n
        /\ DOMAIN lwb_list' = 1 .. k + 1 /\ Len(lwb_list') = k + 1 /\ lwb_list'[k + 1] = n + 1
        /\ \A i \in 1 .. k : lwb_list'[i] = lwb_list[i]
        /\ k = 0 <=> lwb_list = <<>>
    <3>1. k \in Nat /\ DOMAIN lwb_list = 1 .. k /\ (k = 0 <=> lwb_list = <<>>)
          /\ lwb_list = [i \in 1 .. k |-> lwb_list[i]]
      BY <1>2, <2>1
    <3>2. \A i \in 1 .. k : lwb_list[i] \in 1 .. n
      BY <1>2, <3>1
    <3>3. /\ Len(lwb_list') = k + 1
          /\ lwb_list' = [i \in 1 .. k + 1 |-> IF i = k + 1 THEN n + 1 ELSE lwb_list[i]]
      BY <1>1, <3>1, AppendIs
    <3>4. k + 1 \in 1 .. k + 1 /\ \A i \in 1 .. k : i \in 1 .. k + 1 /\ i # k + 1
      BY <3>1
    <3> QED BY <3>1, <3>2, <3>3, <3>4
  <2>3. \A i, j \in DOMAIN lwb_list' : i < j => lwb_list'[i] < lwb_list'[j]
    <3> SUFFICES ASSUME NEW i \in 1 .. k + 1, NEW j \in 1 .. k + 1, i < j
                 PROVE  lwb_list'[i] < lwb_list'[j]
      BY <2>2
    <3>1. i \in 1 .. k
      BY <2>2
    <3>2. CASE j = k + 1
      BY <1>2, <2>2, <3>1, <3>2
    <3>3. CASE j \in 1 .. k
      BY <2>2, <3>1, <3>3 DEF OrderInv, ChainInv
    <3> QED BY <2>2, <3>2, <3>3
  <2>4. lwb_list' # <<>> /\ lwb_list'[Len(lwb_list')] = Len(lwb')
    BY <1>6, <2>2
  <2>5. zh_syncing' \in {0, lwb_list'[1]}
    BY <2>2 DEF OrderInv, ChainInv
  <2>6. freed' \subseteq 1 .. Len(lwb') /\ zh_syncing' \notin freed' /\ (spa' # "sync" => freed' = {})
    BY <1>2, <1>6 DEF OrderInv, ChainInv
  <2>7. zh_log' # 0 => \A b \in 1 .. zh_log' - 1 : Content(b)' = <<>>
    <3>1. \A b \in 1 .. zh_log - 1 : b \in 1 .. n
      BY <1>2
    <3> QED BY <1>7, <3>1 DEF OrderInv, ChainInv
  <2> QED BY <2>3, <2>4, <2>5, <2>6, <2>7 DEF ChainInv
<1>12. \A b \in Len(lwb) + 1 .. Len(lwb') : b = n + 1
  BY <1>1, <1>2, <1>6
<1> QED BY <1>1, <1>6, <1>7, <1>8, <1>10, <1>11, <1>12

(* The block b is issued, and another one allocated or not.                *)
Allocs(l) ==
    \/ /\ \E v \in Vdevs : lwb' = Append(l, Fresh(open, v))
       /\ disk' = Append(disk, NoBlock) /\ lwb_list' = Append(lwb_list, Len(lwb) + 1)
       /\ UNCHANGED budget
    \/ /\ lwb' = l /\ budget' = [budget EXCEPT !.fails = @ - 1] /\ UNCHANGED <<disk, lwb_list>>

LEMMA IssueMoved ==
  ASSUME LwbInv, DiskInv, OrderInv, NEW b \in 1 .. Len(lwb), lwb[b].state \in Fillable,
         WriteIssue(b)
  PROVE  \E l : /\ l = [c \in 1 .. Len(lwb) |-> l[c]] /\ Len(l) = Len(lwb)
                /\ \A c \in 1 .. Len(lwb) : Moved(lwb[c], l[c], disk[c], disk[c])
                /\ Allocs(l)
<1> DEFINE issued == [lwb EXCEPT ![b].state = "ISSUED", ![b].tx = open,
                                 ![b].tree = @ \cup {lwb[b].vdev}]
           r == [lwb[b] EXCEPT !.state = "ISSUED", !.tx = open,
                               !.tree = @ \cup {lwb[b].vdev}]
           l == [issued EXCEPT ![b].next = Len(lwb) + 1]
           s == [r EXCEPT !.next = Len(lwb) + 1]
<1>0. lwb = [c \in 1 .. Len(lwb) |-> lwb[c]] /\ Len(lwb) \in Nat
      /\ lwb[b] = [f \in LwbFields |-> lwb[b][f]]
  BY DEF LwbInv, LwbOk
<1>1. issued = [lwb EXCEPT ![b] = r] /\ l = [lwb EXCEPT ![b] = s]
  BY <1>0
<1>2. /\ r.recs = lwb[b].recs /\ r.max_txg = lwb[b].max_txg /\ r.state = "ISSUED"
      /\ s.recs = lwb[b].recs /\ s.max_txg = lwb[b].max_txg /\ s.state = "ISSUED"
  BY <1>0 DEF LwbFields
<1>3. AllocZil(l, issued)
  BY DEF WriteIssue
<1> HIDE DEF r, s, issued, l
<1>4. \A x : x.recs = lwb[b].recs /\ x.max_txg = lwb[b].max_txg /\ x.state = "ISSUED"
             => Moved(lwb[b], x, disk[b], disk[b])
  BY DEF Moved, Unwritten, Fillable
<1>5. \A c \in 1 .. Len(lwb) : Moved(lwb[c], lwb[c], disk[c], disk[c])
  BY DEF Moved
<1>6. /\ issued = [c \in 1 .. Len(lwb) |-> issued[c]]
      /\ \A c \in 1 .. Len(lwb) : Moved(lwb[c], issued[c], disk[c], disk[c])
  <2>1. /\ issued = [c \in 1 .. Len(lwb) |-> issued[c]]
        /\ \A c \in 1 .. Len(lwb) : issued[c] = IF c = b THEN r ELSE lwb[c]
    BY <1>0, <1>1
  <2>2. Moved(lwb[b], r, disk[b], disk[b])
    BY <1>2, <1>4
  <2> QED BY <1>5, <2>1, <2>2
<1>7. /\ l = [c \in 1 .. Len(lwb) |-> l[c]]
      /\ \A c \in 1 .. Len(lwb) : Moved(lwb[c], l[c], disk[c], disk[c])
  <2>1. /\ l = [c \in 1 .. Len(lwb) |-> l[c]]
        /\ \A c \in 1 .. Len(lwb) : l[c] = IF c = b THEN s ELSE lwb[c]
    BY <1>0, <1>1
  <2>2. Moved(lwb[b], s, disk[b], disk[b])
    BY <1>2, <1>4
  <2> QED BY <1>5, <2>1, <2>2
<1>8. Len(issued) = Len(lwb) /\ Len(l) = Len(lwb)
  BY <1>0, <1>6, <1>7, AppendIs
<1>9. CASE \E v \in Vdevs : /\ lwb' = Append(l, Fresh(open, v))
                            /\ disk' = Append(disk, NoBlock)
                            /\ lwb_list' = Append(lwb_list, Len(lwb) + 1)
                            /\ UNCHANGED budget
  BY <1>7, <1>8, <1>9 DEF Allocs
<1>10. CASE /\ budget' = [budget EXCEPT !.fails = @ - 1]
            /\ lwb' = issued /\ UNCHANGED <<disk, lwb_list>>
  BY <1>6, <1>8, <1>10 DEF Allocs
<1> QED BY <1>3, <1>9, <1>10 DEF AllocZil

LEMMA AllocFrame ==
  ASSUME PoolInv, RunInv, DiskInv, OrderInv, NEW l, l = [c \in 1 .. Len(lwb) |-> l[c]],
         Len(l) = Len(lwb),
         \A c \in 1 .. Len(lwb) : Moved(lwb[c], l[c], disk[c], disk[c]),
         Allocs(l),
         lwb_list = <<>> => zh_syncing = 0,
         UNCHANGED <<zh_log, zh_syncing, freed, synced, spa, itxg, logged, vanished,
                     commit_list>>,
         HeadInv', GivenUp \subseteq GivenUp'
  PROVE  OrderInv'
<1>1. budget'.recs = budget.recs /\ Len(lwb) \in Nat /\ synced \in Nat
  BY DEF Allocs, RunInv, QueueInv, BudgetOk, LwbInv, PoolInv
<1>2. CASE \E v \in Vdevs : /\ lwb' = Append(l, Fresh(open, v))
                            /\ disk' = Append(disk, NoBlock)
                            /\ lwb_list' = Append(lwb_list, Len(lwb) + 1)
  <2>1. /\ WrittenInv' /\ ChainInv' /\ Len(lwb') = Len(lwb) + 1
        /\ \A b \in 1 .. Len(lwb) : Content(b)' = Content(b)
        /\ \A b \in Len(lwb) + 1 .. Len(lwb') : Content(b)' = <<>>
    <3>1. PICK v : lwb' = Append(l, Fresh(open, v))
      BY <1>2
    <3> QED BY <1>2, <3>1, BlockAdded DEF RunInv
  <2>2. PICK n, m : n = Len(lwb) /\ m = Len(lwb')
    OBVIOUS
  <2>3. n \in Nat /\ m = n + 1
    BY <1>1, <2>1, <2>2
  <2>4. m \in Nat /\ n <= m
    BY <2>3
  <2>5. synced' \in Nat /\ synced <= synced' /\ \A t \in GivenUp : t \in GivenUp'
    BY <1>1
  <2> QED BY <1>1, <2>1, <2>2, <2>4, <2>5, OrderFrame
<1>3. CASE lwb' = l /\ UNCHANGED <<disk, lwb_list>>
  <2>1. /\ Len(lwb') = Len(lwb)
        /\ \A c \in 1 .. Len(lwb) : Moved(lwb[c], lwb'[c], disk[c], disk'[c])
    BY <1>3
  <2> QED BY <1>1, <1>3, <2>1, MovedFrame
<1> QED BY <1>2, <1>3 DEF Allocs

LEMMA CreateOrder ==
  ASSUME PoolInv, RunInv, DiskInv, OrderInv, NEW th \in Threads, Create(th)
  PROVE  OrderInv'
<1>1. /\ UNCHANGED <<open, zh_log, zh_syncing, freed, synced, spa, itxg, logged, vanished,
                     commit_list, tx>>
      /\ pc[th] = "create" /\ zh_syncing = 0 /\ Goto(th, "create_wait")
      /\ pos' = [pos EXCEPT ![th] = <<open>>] /\ AllocZil(lwb, lwb)
  BY DEF Create, queueVars
<1>2. pc'[th] = "create_wait" /\ \A u \in Threads : u # th => pc'[u] = pc[u] /\ pos'[u] = pos[u]
  BY <1>1, PcMove DEF RunInv, IssuerInv
<1>3. budget'.recs = budget.recs
  BY <1>1 DEF AllocZil, RunInv, QueueInv, BudgetOk
<1>4. OnlyThread(th) /\ HeadOk(th)'
  BY <1>1, <1>2, <1>3 DEF OnlyThread, HeadOk, Stalls
<1>5. HeadInv'
  BY <1>4, HeadMove DEF OrderInv, EntryInv
<1>6. GivenUp = {}
  <2>1. pc[th] \in IssuerPcs /\ \A t : ~GivesUp(th, t)
    BY <1>1 DEF IssuerPcs, GivesUp, Stalls
  <2> QED BY <2>1, GivenUpInside DEF RunInv
<1>7. \A c \in 1 .. Len(lwb) : Moved(lwb[c], lwb[c], disk[c], disk[c])
  BY DEF Moved
<1>8. lwb = [c \in 1 .. Len(lwb) |-> lwb[c]]
  BY DEF RunInv, LwbInv
<1>9. Allocs(lwb)
  BY <1>1 DEF AllocZil, Allocs
<1> QED BY <1>1, <1>5, <1>6, <1>7, <1>8, <1>9, AllocFrame

LEMMA TimeoutIssueOrder ==
  ASSUME PoolInv, RunInv, DiskInv, OrderInv, NEW th \in Threads, TimeoutIssue(th)
  PROVE  OrderInv'
<1>1. /\ UNCHANGED <<open, zh_log, zh_syncing, freed, synced, spa, itxg, logged, vanished,
                     commit_list, tx,
                     cur>>
      /\ pc[th] = "timeout" /\ issuer = NoThread /\ StillOpen(th) /\ WriteIssue(zcw[th].lwb)
      /\ \/ Goto(th, "wait") /\ UNCHANGED pos
         \/ Goto(th, "timeout_stall") /\ pos' = [pos EXCEPT ![th] = SyncAll]
  BY DEF TimeoutIssue, queueVars
<1>2. PICK b : b = zcw[th].lwb
  OBVIOUS
<1>3. b \in 1 .. Len(lwb) /\ lwb[b].state \in Fillable
  BY <1>1, <1>2 DEF StillOpen, RunInv, WaiterInv, Fillable
<1>4. lwb_list # <<>>
  BY <1>3, FillableLast DEF RunInv
<1>5. /\ pc'[th] = "wait" \/ (pc'[th] = "timeout_stall" /\ pos'[th] = SyncAll)
      /\ \A u \in Threads : u # th => pc'[u] = pc[u] /\ pos'[u] = pos[u]
  <2>1. /\ pc = [u \in Threads |-> pc[u]] /\ pos = [u \in Threads |-> pos[u]]
    BY DEF RunInv, IssuerInv
  <2> QED BY <1>1, <2>1 DEF Goto
<1>6. budget'.recs = budget.recs
  BY <1>1 DEF WriteIssue, AllocZil, RunInv, QueueInv, BudgetOk
<1>7. Head(SyncAll) \in Nat
  BY DEF SyncAll, TXG_DEFER_SIZE, PoolInv
<1>8. OnlyThread(th) /\ HeadOk(th)'
  BY <1>1, <1>5, <1>6, <1>7 DEF OnlyThread, HeadOk, Stalls
<1>9. HeadInv'
  BY <1>8, HeadMove DEF OrderInv, EntryInv
<1>10. GivenUp = {}
  <2>1. \A t : ~GivesUp(th, t)
    BY <1>1 DEF GivesUp, Stalls
  <2> QED BY <1>1, <2>1, GivenUpInside DEF RunInv
<1>11. PICK l : /\ l = [c \in 1 .. Len(lwb) |-> l[c]] /\ Len(l) = Len(lwb)
                /\ \A c \in 1 .. Len(lwb) : Moved(lwb[c], l[c], disk[c], disk[c])
                /\ Allocs(l)
  BY <1>1, <1>2, <1>3, IssueMoved DEF RunInv
<1> QED BY <1>1, <1>4, <1>9, <1>10, <1>11, AllocFrame

LEMMA ProcessFullOrder ==
  ASSUME PoolInv, RunInv, DiskInv, OrderInv, NEW th \in Threads, ProcessFull(th)
  PROVE  OrderInv'
<1>1. /\ UNCHANGED <<open, zh_log, zh_syncing, freed, synced, spa, itxg, logged, vanished, tx,
                     pos>>
      /\ pc[th] = "process" /\ cur # 0 /\ WriteIssue(cur) /\ commit_list # <<>>
      /\ \/ Allocated /\ Goto(th, "next") /\ UNCHANGED commit_list
         \/ /\ ~Allocated /\ cur' = 0 /\ commit_list' = Tail(commit_list) /\ UNCHANGED pc
  BY DEF ProcessFull
<1>2. cur \in 1 .. Len(lwb) /\ lwb[cur].state \in Fillable /\ lwb_list # <<>>
  BY <1>1, CurFacts
<1>3. /\ pc'[th] \in {"process", "next"}
      /\ \A u \in Threads : u # th => pc'[u] = pc[u] /\ pos'[u] = pos[u]
  <2>1. pc = [u \in Threads |-> pc[u]] /\ pos = [u \in Threads |-> pos[u]]
    BY DEF RunInv, IssuerInv
  <2> QED BY <1>1, <2>1 DEF Goto
<1>4. budget'.recs = budget.recs
  BY <1>1 DEF WriteIssue, AllocZil, RunInv, QueueInv, BudgetOk
<1>5. OnlyThread(th) /\ HeadOk(th)'
  BY <1>1, <1>3, <1>4 DEF OnlyThread, HeadOk, Stalls
<1>6. HeadInv'
  BY <1>5, HeadMove DEF OrderInv, EntryInv
<1>7. GivenUp = {}
  <2>1. pc[th] \in IssuerPcs /\ \A t : ~GivesUp(th, t)
    BY <1>1 DEF IssuerPcs, GivesUp, Stalls
  <2> QED BY <2>1, GivenUpInside DEF RunInv
<1>8. PICK l : /\ l = [c \in 1 .. Len(lwb) |-> l[c]] /\ Len(l) = Len(lwb)
               /\ \A c \in 1 .. Len(lwb) : Moved(lwb[c], l[c], disk[c], disk[c])
               /\ Allocs(l)
  BY <1>1, <1>2, IssueMoved DEF RunInv
<1>9. CASE Allocated /\ UNCHANGED commit_list
  BY <1>1, <1>2, <1>6, <1>7, <1>8, <1>9, AllocFrame
<1>10. CASE ~Allocated /\ cur' = 0 /\ commit_list' = Tail(commit_list) /\ UNCHANGED pc
  <2>1. lwb' = l /\ UNCHANGED <<disk, lwb_list>>
    <3>1. \A e : Len(Append(l, e)) = Len(lwb) + 1
      BY <1>8, AppendIs DEF RunInv, LwbInv
    <3> QED BY <1>8, <1>10, <3>1 DEF Allocated, Allocs, RunInv, LwbInv
  <2>2. /\ WrittenInv' /\ ChainInv' /\ Contents' = Contents
        /\ \A b \in 1 .. Len(lwb) : Content(b)' = Content(b)
    BY <1>1, <1>8, <2>1, BlocksMoved DEF RunInv, OrderInv, DiskInv
  <2>3. synced \in Nat /\ commit_list \in Seq(UpTo(open))
    BY SlotTypes, PoolFacts
  <2>4. Head(commit_list).txg \in 0 .. open
    BY <1>1, HeadFacts, PoolFacts DEF RunInv
  <2>5. Head(commit_list).txg \in GivenUp'
    BY <1>1, <1>10, <2>4 DEF GivenUp, GivesUp
  <2> QED BY <1>1, <1>4, <1>6, <1>7, <1>8, <1>10, <2>1, <2>2, <2>3, <2>5, DropFrame
<1> QED BY <1>1, <1>9, <1>10

LEMMA CreateKeptOrder ==
  ASSUME PoolInv, RunInv, DiskInv, OrderInv, NEW th \in Threads, CreateKept(th)
  PROVE  OrderInv'
<1>1. /\ UNCHANGED <<open, zh_log, zh_syncing, freed, synced, spa, itxg, logged, vanished,
                     commit_list, tx,
                     pos, budget, disk>>
      /\ pc[th] = "create" /\ zh_syncing # 0 /\ Goto(th, "process") /\ lwb_list' = <<zh_syncing>>
      /\ lwb_list = <<>>
  BY DEF CreateKept, poolVars, queueVars, ghostVars, RunInv, IssuerInv
<1>2. PICK v : lwb' = [lwb EXCEPT ![zh_syncing] = Fresh(0, v)]
  BY DEF CreateKept
<1>3. PICK b : b = zh_syncing
  OBVIOUS
<1>4. PICK e : e = Fresh(0, v)
  OBVIOUS
<1>5. /\ b = Len(lwb) /\ b \in 1 .. Len(lwb) /\ b \notin freed /\ Len(lwb) \in Nat
      /\ lwb = [c \in 1 .. Len(lwb) |-> lwb[c]] /\ zh_log \in 0 .. Len(lwb)
  BY <1>1, <1>3 DEF OrderInv, ChainInv, RunInv, LwbInv, DiskInv
<1>6. /\ lwb' = [c \in 1 .. Len(lwb) |-> lwb'[c]]
      /\ \A c \in 1 .. Len(lwb) : lwb'[c] = IF c = b THEN e ELSE lwb[c]
  BY <1>2, <1>3, <1>4, <1>5
<1>7. Len(lwb') = Len(lwb)
  BY <1>5, <1>6, AppendIs
<1>8. lwb[b].state = "FREE" /\ OnDiskOk(lwb[b], disk[b], b, freed, synced)
  BY <1>1, <1>5, AllFree DEF OrderInv, WrittenInv
<1>9. e.state = "CLOSED" /\ e.recs = <<>>
  BY <1>4 DEF Fresh, NoLwb
<1>10. disk[b].recs = <<>> /\ OnDiskOk(e, disk[b], b, freed, synced)
  BY <1>5, <1>8, <1>9 DEF OnDiskOk, Unwritten, Done
<1>11. \A c \in 1 .. Len(lwb) : Content(c)' = Content(c)
  <2> TAKE c \in 1 .. Len(lwb)
  <2>1. CASE c = b
    BY <1>1, <1>6, <1>8, <1>9, <1>10, <2>1 DEF Content
  <2>2. CASE c # b
    BY <1>1, <1>6, <2>2 DEF Content
  <2> QED BY <2>1, <2>2
<1>12. WrittenInv'
  BY <1>1, <1>6, <1>7, <1>10 DEF OrderInv, WrittenInv
<1>13. ChainInv'
  <2>1. DOMAIN lwb_list' = {1} /\ lwb_list'[1] = b /\ Len(lwb_list') = 1 /\ lwb_list' # <<>>
    BY <1>1, <1>3
  <2>2. \A c \in 1 .. zh_log - 1 : c \in 1 .. Len(lwb)
    BY <1>5
  <2> QED BY <1>1, <1>3, <1>5, <1>7, <1>11, <2>1, <2>2 DEF OrderInv, ChainInv
<1>14. pc'[th] = "process" /\ \A u \in Threads : u # th => pc'[u] = pc[u]
  BY <1>1, PcMove
<1>15. OnlyThread(th) /\ HeadOk(th)'
  BY <1>1, <1>14 DEF OnlyThread, HeadOk, Stalls
<1>16. HeadInv'
  BY <1>15, HeadMove DEF OrderInv, EntryInv
<1>17. GivenUp = {}
  <2>1. pc[th] \in IssuerPcs /\ \A t : ~GivesUp(th, t)
    BY <1>1 DEF IssuerPcs, GivesUp, Stalls
  <2> QED BY <2>1, GivenUpInside DEF RunInv
<1>18. \A c \in Len(lwb) + 1 .. Len(lwb') : Content(c)' = <<>>
  BY <1>5, <1>7
<1>19. synced \in Nat
  BY DEF PoolInv
<1> QED BY <1>1, <1>5, <1>7, <1>11, <1>12, <1>13, <1>16, <1>17, <1>18, <1>19, OrderFrame

LEMMA AppendHas ==
  ASSUME NEW S, NEW q \in Seq(S), NEW e \in S
  PROVE  \A k \in DOMAIN Append(q, e) : \/ k \in DOMAIN q /\ Append(q, e)[k] = q[k]
                                        \/ Append(q, e)[k] = e
BY AppendProperties

(* A record is put in the last block.                                      *)
LEMMA ProcessRecordOrder ==
  ASSUME PoolInv, RunInv, DiskInv, OrderInv, NEW th \in Threads, ProcessRecord(th)
  PROVE  OrderInv'
<1>1. /\ UNCHANGED <<open, zh_log, zh_syncing, freed, synced, spa, itxg, logged, vanished, tx,
                     pos, cur,
                     budget, disk, lwb_list>>
      /\ pc[th] \in {"process", "next"} /\ cur # 0 /\ commit_list # <<>>
      /\ commit_list' = Tail(commit_list) /\ Goto(th, "process")
  BY DEF ProcessRecord, HasRoom, poolVars, ghostVars
<1>2. PICK itx : itx = Head(commit_list)
  OBVIOUS
<1>3. PICK n : n = cur
  OBVIOUS
<1>4. /\ n = Len(lwb) /\ n \in 1 .. n /\ n \in Nat /\ lwb[n].state \in Fillable
      /\ lwb = [c \in 1 .. n |-> lwb[c]] /\ zh_log \in 0 .. n /\ LwbOk(lwb[n])
  <2>1. lwb_list # <<>> /\ n = Last(lwb_list) /\ n \in 1 .. Len(lwb)
        /\ lwb[n].state \in Fillable /\ LwbOk(lwb[n])
    BY <1>1, <1>3, CurFacts
  <2>2. n = Len(lwb)
    BY <2>1 DEF OrderInv, ChainInv, Last
  <2> QED BY <2>1, <2>2 DEF RunInv, LwbInv, DiskInv
<1>5. /\ commit_list \in Seq(Itxs) /\ itx \in Itxs /\ itx.txg \in Nat
      /\ lwb[n].recs \in Seq(Itxs) /\ lwb[n].max_txg \in Nat
  <2>1. commit_list \in Seq(Itxs)
    BY DEF RunInv, QueueInv, UpTo
  <2>2. itx \in Itxs
    BY <1>1, <1>2, <2>1
  <2> QED BY <1>4, <2>1, <2>2 DEF Itxs, LwbOk, DiskInv, RecsOk
<1>6. PICK r : /\ Opened(n) = [lwb EXCEPT ![n] = r] /\ r = [f \in LwbFields |-> r[f]]
               /\ r.state = "OPENED" /\ r.recs = lwb[n].recs /\ r.max_txg = lwb[n].max_txg
  BY <1>4, OpenedFacts DEF RunInv
<1>7. PICK m : m = [r EXCEPT !.recs = Append(@, itx),
                             !.max_txg = IF itx.txg > @ THEN itx.txg ELSE @]
  OBVIOUS
<1>8. /\ m.state = "OPENED" /\ m.recs = Append(lwb[n].recs, itx)
      /\ m.max_txg = IF itx.txg > lwb[n].max_txg THEN itx.txg ELSE lwb[n].max_txg
  BY <1>6, <1>7 DEF LwbFields
<1>9. /\ lwb' = [c \in 1 .. n |-> lwb'[c]]
      /\ \A c \in 1 .. n : lwb'[c] = IF c = n THEN m ELSE lwb[c]
  <2>1. lwb' = [Opened(n) EXCEPT ![n].recs = Append(@, itx),
                                 ![n].max_txg = IF itx.txg > @ THEN itx.txg ELSE @]
    BY <1>2, <1>3 DEF ProcessRecord
  <2>2. lwb' = [lwb EXCEPT ![n] = m]
    BY <1>4, <1>6, <1>7, <2>1
  <2> QED BY <1>4, <2>2
<1>10. Len(lwb') = n
  BY <1>4, <1>9, AppendIs
<1>11. /\ Content(n)' = Append(Content(n), itx) /\ Content(n) = lwb[n].recs
       /\ \A c \in 1 .. n - 1 : Content(c)' = Content(c)
  <2>1. Content(n)' = Append(lwb[n].recs, itx) /\ Content(n) = lwb[n].recs
    BY <1>4, <1>8, <1>9 DEF Content, Fillable
  <2>2. \A c \in 1 .. n - 1 : lwb'[c] = lwb[c]
    BY <1>4, <1>9
  <2> QED BY <1>1, <2>1, <2>2 DEF Content
<1>12. WrittenInv'
  <2>1. OnDiskOk(m, disk[n], n, freed, synced)
    <3>1. OnDiskOk(lwb[n], disk[n], n, freed, synced)
      BY <1>4 DEF OrderInv, WrittenInv
    <3>2. \A k \in DOMAIN m.recs : m.recs[k].txg <= m.max_txg
      <4> TAKE k \in DOMAIN m.recs
      <4>1. \/ k \in DOMAIN lwb[n].recs /\ m.recs[k] = lwb[n].recs[k]
            \/ m.recs[k] = itx
        BY <1>5, <1>8, AppendHas
      <4>2. \A i \in DOMAIN lwb[n].recs : /\ lwb[n].recs[i].txg \in Nat
                                          /\ lwb[n].recs[i].txg <= lwb[n].max_txg
        <5>1. \A i \in DOMAIN lwb[n].recs : lwb[n].recs[i] \in Itxs
          BY <1>5
        <5> QED BY <3>1, <5>1 DEF OnDiskOk, Itxs
      <4>3. CASE k \in DOMAIN lwb[n].recs /\ m.recs[k] = lwb[n].recs[k]
        <5>1. PICK t : t = lwb[n].recs[k].txg
          OBVIOUS
        <5>2. t \in Nat /\ t <= lwb[n].max_txg
          BY <4>2, <4>3, <5>1
        <5>3. PICK x, y : x = m.max_txg /\ y = lwb[n].max_txg
          OBVIOUS
        <5>4. x \in Nat /\ y \in Nat /\ y <= x
          BY <1>5, <1>8, <5>3
        <5>5. t <= x
          BY <5>2, <5>3, <5>4
        <5> QED BY <4>3, <5>1, <5>3, <5>5
      <4>4. CASE m.recs[k] = itx
        BY <1>5, <1>8, <4>4
      <4> QED BY <4>1, <4>3, <4>4
    <3>3. lwb[n].state \in Unwritten /\ "OPENED" \in Unwritten /\ "OPENED" \notin Done
      BY <1>4 DEF Fillable, Unwritten, Done
    <3>4. lwb[n].state # "FREE"
      BY <1>4 DEF Fillable
    <3> QED BY <1>8, <3>1, <3>2, <3>3, <3>4 DEF OnDiskOk
  <2> QED BY <1>1, <1>4, <1>9, <1>10, <2>1 DEF OrderInv, WrittenInv
<1>13. ChainInv'
  <2>1. \A c \in 1 .. zh_log - 1 : c \in 1 .. n - 1
    BY <1>4
  <2> QED BY <1>1, <1>4, <1>10, <1>11, <2>1 DEF OrderInv, ChainInv
<1>14. EntryInv'
  <2>1. pc'[th] = "process" /\ \A u \in Threads : u # th => pc'[u] = pc[u]
    BY <1>1, PcMove
  <2>2. OnlyThread(th) /\ HeadOk(th)'
    BY <1>1, <2>1 DEF OnlyThread, HeadOk, Stalls
  <2>3. HeadInv'
    BY <2>2, HeadMove DEF OrderInv, EntryInv
  <2> QED BY <1>1, <2>3 DEF OrderInv, EntryInv, SlotOk, LoggedInv
<1>15. KnownInv'
  <2>1. \A z : Known(z) <=> Known(z)'
    BY <1>1 DEF Known
  <2>2. /\ \A c \in 1 .. n : AllKnown(Content(c)) /\ AllKnown(commit_list) /\ Known(itx)
    <3>1. 1 \in DOMAIN commit_list /\ itx = commit_list[1]
      BY <1>1, <1>2, <1>5
    <3> QED BY <1>4, <3>1 DEF OrderInv, KnownInv, AllKnown
  <2>3. AllKnown(commit_list')
    <3>1. \A k \in DOMAIN commit_list' : \E i \in DOMAIN commit_list : commit_list'[k] = commit_list[i]
      BY <1>1, <1>5, TailIs
    <3>2. AllKnown(commit_list)
      BY DEF OrderInv, KnownInv
    <3> QED BY <3>1, <3>2 DEF AllKnown
  <2>4. \A c \in 1 .. n : AllKnown(Content(c)')
    <3> TAKE c \in 1 .. n
    <3>1. CASE c \in 1 .. n - 1
      BY <1>11, <2>2, <3>1
    <3>2. CASE c = n
      <4>1. \A k \in DOMAIN Append(lwb[n].recs, itx) :
              \/ k \in DOMAIN lwb[n].recs /\ Append(lwb[n].recs, itx)[k] = lwb[n].recs[k]
              \/ Append(lwb[n].recs, itx)[k] = itx
        BY <1>5, AppendHas
      <4>2. AllKnown(Append(lwb[n].recs, itx))
        BY <1>4, <1>11, <2>2, <4>1 DEF AllKnown
      <4> QED BY <1>11, <3>2, <4>2
    <3> QED BY <1>4, <3>1, <3>2
  <2>5. \A i \in 0 .. TXG_SIZE - 1 : /\ AllKnown(itxg[i].sync)
                                     /\ \A u \in Threads : AllKnown(itxg[i].async[u])
    BY DEF OrderInv, KnownInv
  <2>6. \A q : AllKnown(q) <=> \A k \in DOMAIN q : Known(q[k])'
    BY <2>1 DEF AllKnown
  <2> QED BY <1>1, <1>10, <2>3, <2>4, <2>5, <2>6 DEF KnownInv, AllKnown
<1>16. GroupOrder'
  <2>1. GivenUp = {}
    <3>1. pc[th] \in IssuerPcs /\ \A t : ~GivesUp(th, t)
      BY <1>1 DEF IssuerPcs, GivesUp, Stalls
    <3> QED BY <3>1, GivenUpInside DEF RunInv
  <2>2. Ordered(Contents, n, commit_list, Queues, {}, vanished, logged, synced)
    BY <1>4, <2>1 DEF OrderInv, GroupOrder
  <2>3. synced \in Int /\ n > 0 /\ \A i \in DOMAIN logged : logged[i].txg \in Nat
    BY <1>4, LoggedFacts DEF PoolInv
  <2>4. /\ Contents[n] \in Seq(Itxs) /\ Contents'[n] = Append(Contents[n], Head(commit_list))
        /\ \A c \in 1 .. n - 1 : Contents'[c] = Contents[c]
    <3>1. \A c \in 1 .. n - 1 : c \in 1 .. n
      BY <1>4
    <3> QED BY <1>2, <1>4, <1>5, <1>10, <1>11, <3>1 DEF Contents
  <2>5. Ordered(Contents', n, Tail(commit_list), Queues, {}, vanished, logged, synced)
    BY <1>1, <1>4, <1>5, <2>2, <2>3, <2>4, OrderStored
  <2>6. Ordered(Contents', n, Tail(commit_list), Queues, GivenUp', vanished, logged, synced)
    BY <1>4, <2>3, <2>5, OrderKept
  <2>7. Queues' = Queues
    BY <1>1 DEF Queues
  <2> QED BY <1>1, <1>10, <2>6, <2>7, OrderNext
<1> QED BY <1>12, <1>13, <1>14, <1>15, <1>16 DEF OrderInv

(* The lwbs that are freed were written, and their records synced.         *)
LEMMA FreedOk ==
  ASSUME PoolInv, RunInv, DiskInv, OrderInv, freed = {}, NEW c \in 1 .. Len(lwb),
         Freeable(c, synced + 1), Listed(c), NEW F, c \in F
  PROVE  OnDiskOk(NoLwb, disk[c], c, F, synced) /\ disk[c].recs = Content(c)
<1>1. /\ LwbOk(lwb[c]) /\ lwb[c].state # "FREE" /\ OnDiskOk(lwb[c], disk[c], c, freed, synced)
      /\ lwb[c].recs \in Seq(Itxs)
  BY DEF RunInv, LwbInv, OrderInv, WrittenInv, DiskInv, RecsOk
<1>2. lwb[c].state = "FLUSH_DONE"
  BY <1>1 DEF Freeable, LwbOk, LwbStates, Fillable, InFlight
<1>3. disk[c].recs = lwb[c].recs /\ Content(c) = lwb[c].recs
  BY <1>1, <1>2 DEF OnDiskOk, Done, Content
<1>4. NoLwb.state = "FREE" /\ NoLwb.recs = <<>>
  BY DEF NoLwb
<1>5. \A k \in DOMAIN disk[c].recs : disk[c].recs[k].txg <= synced + 1
  <2> TAKE k \in DOMAIN disk[c].recs
  <2>1. PICK t : t = lwb[c].recs[k].txg
    OBVIOUS
  <2>2. t <= lwb[c].max_txg /\ t \in Nat
    <3>1. lwb[c].recs[k] \in Itxs
      BY <1>1, <1>3
    <3> QED BY <1>1, <1>3, <2>1, <3>1 DEF OnDiskOk, Itxs
  <2>3. lwb[c].max_txg \in Nat /\ lwb[c].max_txg <= synced + 1 /\ synced \in Nat
    BY <1>1 DEF LwbOk, Freeable, PoolInv
  <2> QED BY <1>3, <2>1, <2>2, <2>3
<1> QED BY <1>3, <1>4, <1>5 DEF OnDiskOk, Unwritten, Done

LEMMA ZilSyncOrder ==
  ASSUME PoolInv, RunInv, DiskInv, OrderInv, ZilSync
  PROVE  OrderInv'
<1>1. PICK t, kept, first, gone :
        /\ t = synced + 1
        /\ kept = {i \in DOMAIN lwb_list : ~Freeable(lwb_list[i], t)}
        /\ first = IF kept = {} THEN Len(lwb_list) + 1 ELSE Min(kept)
        /\ gone = {lwb_list[i] : i \in 1 .. first - 1}
        /\ IF t \in dirty /\ lwb_list # <<>>
           THEN /\ lwb_list' = SubSeq(lwb_list, first, Len(lwb_list))
                /\ zh_syncing' = IF kept = {} THEN 0 ELSE lwb_list[first]
                /\ freed' = gone
                /\ lwb' = [b \in Blocks |-> IF b \in gone THEN NoLwb ELSE lwb[b]]
                /\ last_opened' = IF last_opened \in gone THEN 0 ELSE last_opened
           ELSE UNCHANGED <<lwb_list, zh_syncing, freed, lwb, last_opened>>
  BY Zenon DEF ZilSync
<1>2. /\ spa = "idle" /\ spa' = "sync" /\ UNCHANGED <<open, synced, zh_log, tx, disk>>
      /\ UNCHANGED <<pos, pc, cur, commit_list, budget, itxg, logged, vanished>>
  BY DEF ZilSync, queueVars, threadVars, ghostVars
<1>3. PICK n : n = Len(lwb)
  OBVIOUS
<1>4. /\ n \in Nat /\ lwb = [b \in 1 .. n |-> lwb[b]] /\ Blocks = 1 .. n /\ freed = {}
      /\ synced \in Nat /\ lwb_list \in Seq(1 .. n) /\ zh_log \in 0 .. n
  BY <1>2, <1>3 DEF RunInv, LwbInv, Blocks, OrderInv, ChainInv, PoolInv, DiskInv
<1>5. HeadInv' /\ GivenUp' = GivenUp
  BY <1>2 DEF OrderInv, EntryInv, HeadInv, HeadOk, GivenUp, GivesUp
<1>6. CASE UNCHANGED <<lwb_list, zh_syncing, freed, lwb>>
  <2>1. \A b : Content(b)' = Content(b)
    BY <1>2, <1>6 DEF Content
  <2>2. WrittenInv'
    BY <1>2, <1>6 DEF OrderInv, WrittenInv
  <2>3. ChainInv'
    BY <1>2, <1>6, <2>1 DEF OrderInv, ChainInv
  <2>4. Len(lwb') = n /\ \A b \in Len(lwb) + 1 .. Len(lwb') : Content(b)' = <<>>
    BY <1>3, <1>4, <1>6
  <2> QED BY <1>2, <1>3, <1>4, <1>5, <1>6, <2>1, <2>2, <2>3, <2>4, OrderFrame
<1>7. CASE /\ lwb_list # <<>>
           /\ lwb_list' = SubSeq(lwb_list, first, Len(lwb_list))
           /\ zh_syncing' = IF kept = {} THEN 0 ELSE lwb_list[first]
           /\ freed' = gone
           /\ lwb' = [b \in Blocks |-> IF b \in gone THEN NoLwb ELSE lwb[b]]
  <2>1. PICK k : k = Len(lwb_list)
    OBVIOUS
  <2>2. /\ DOMAIN lwb_list = 1 .. k /\ k \in Nat /\ k > 0
        /\ \A i \in 1 .. k : lwb_list[i] \in 1 .. n
    <3>1. DOMAIN lwb_list = 1 .. k /\ k \in Nat /\ k # 0
      BY <1>4, <1>7, <2>1
    <3>2. \A i \in 1 .. k : lwb_list[i] \in 1 .. n
      BY <1>4, <3>1
    <3> QED BY <3>1, <3>2
  <2>3. /\ kept \subseteq 1 .. k /\ kept \subseteq Nat
        /\ kept # {} => first \in kept /\ \A i \in kept : first <= i
    <3>1. kept \subseteq 1 .. k /\ kept \subseteq Nat
      BY <1>1, <2>2
    <3>2. kept # {} => Min(kept) \in kept /\ \A i \in kept : Min(kept) <= i
      BY <3>1, MinIs
    <3> QED BY <1>1, <3>1, <3>2
  <2>4. first \in 1 .. k + 1 /\ first \in Nat /\ (kept = {} => first = k + 1)
        /\ (kept # {} => first \in 1 .. k)
    <3>1. CASE kept = {}
      BY <1>1, <2>1, <2>2, <3>1
    <3>2. CASE kept # {}
      <4>1. first \in 1 .. k
        BY <2>3, <3>2
      <4> QED BY <2>2, <3>2, <4>1
    <3> QED BY <3>1, <3>2
  <2>5. \A i \in 1 .. first - 1 : i \in 1 .. k /\ Freeable(lwb_list[i], synced + 1)
    <3> TAKE i \in 1 .. first - 1
    <3>1. i \in 1 .. k /\ ~(first <= i)
      BY <2>2, <2>4
    <3>2. i \notin kept
      BY <2>3, <3>1
    <3> QED BY <1>1, <2>2, <3>1, <3>2
  <2>6. /\ lwb' = [b \in 1 .. n |-> lwb'[b]]
        /\ \A b \in 1 .. n : lwb'[b] = IF b \in gone THEN NoLwb ELSE lwb[b]
    BY <1>4, <1>7
  <2>7. Len(lwb') = n
    BY <1>4, <2>6, AppendIs
  <2>8. \A b \in 1 .. n : b \in gone => Freeable(b, synced + 1) /\ Listed(b)
    BY <1>1, <2>2, <2>5 DEF Listed
  <2>9. \A b \in 1 .. n : OnDiskOk(lwb'[b], disk[b], b, gone, synced) /\ Content(b)' = Content(b)
    <3> TAKE b \in 1 .. n
    <3>1. CASE b \in gone
      <4>1. OnDiskOk(NoLwb, disk[b], b, gone, synced) /\ disk[b].recs = Content(b)
        BY <1>3, <1>4, <2>8, <3>1, FreedOk
      <4>2. NoLwb.state = "FREE"
        BY DEF NoLwb
      <4>3. Content(b)' = disk[b].recs
        BY <1>2, <2>6, <3>1, <4>2 DEF Content
      <4> QED BY <2>6, <3>1, <4>1, <4>3
    <3>2. CASE b \notin gone
      <4>1. OnDiskOk(lwb[b], disk[b], b, {}, synced)
        BY <1>3, <1>4 DEF OrderInv, WrittenInv
      <4>2. OnDiskOk(lwb[b], disk[b], b, gone, synced)
        BY <3>2, <4>1 DEF OnDiskOk
      <4> QED BY <1>2, <2>6, <3>2, <4>2 DEF Content
    <3> QED BY <3>1, <3>2
  <2>10. WrittenInv'
    BY <1>2, <1>7, <2>7, <2>9 DEF WrittenInv
  <2>11. PICK m : m = k + 1 - first
    OBVIOUS
  <2>12. /\ m \in Nat /\ DOMAIN lwb_list' = 1 .. m /\ Len(lwb_list') = m
         /\ \A i \in 1 .. m : /\ first + i - 1 \in 1 .. k
                              /\ lwb_list'[i] = lwb_list[first + i - 1]
         /\ m = 0 <=> lwb_list' = <<>>
    <3>1. /\ lwb_list' \in Seq(1 .. n) /\ Len(lwb_list') = m
          /\ \A i \in 1 .. m : lwb_list'[i] = lwb_list[first + i - 1]
      <4>1. 1 <= first /\ first <= k + 1
        BY <2>2, <2>4
      <4>2. PICK S, q : S = 1 .. n /\ q = lwb_list
        OBVIOUS
      <4>3. q \in Seq(S) /\ Len(q) = k /\ first \in Nat /\ 1 <= first /\ first <= Len(q) + 1
        BY <1>4, <2>1, <2>4, <4>1, <4>2
      <4>4. /\ SubSeq(q, first, Len(q)) \in Seq(S)
            /\ Len(SubSeq(q, first, Len(q))) = Len(q) + 1 - first
            /\ \A i \in 1 .. Len(q) + 1 - first : SubSeq(q, first, Len(q))[i] = q[first + i - 1]
        BY <4>3, SubSeqIs
      <4>5. lwb_list' = SubSeq(q, first, Len(q)) /\ Len(q) + 1 - first = m
        BY <1>7, <2>11, <4>2, <4>3
      <4> QED BY <4>2, <4>4, <4>5
    <3>2. m \in Nat /\ \A i \in 1 .. m : first + i - 1 \in 1 .. k
      BY <2>2, <2>4, <2>11
    <3> QED BY <3>1, <3>2
  <2>13. \A i, j \in 1 .. k : i < j => lwb_list[i] < lwb_list[j]
    BY <2>2 DEF OrderInv, ChainInv
  <2>14. \A i, j \in DOMAIN lwb_list' : i < j => lwb_list'[i] < lwb_list'[j]
    <3> SUFFICES ASSUME NEW i \in 1 .. m, NEW j \in 1 .. m, i < j
                 PROVE  lwb_list'[i] < lwb_list'[j]
      BY <2>12
    <3>1. first + i - 1 \in 1 .. k /\ first + j - 1 \in 1 .. k /\ first + i - 1 < first + j - 1
      <4>1. first + i - 1 \in 1 .. k /\ first + j - 1 \in 1 .. k
        BY <2>12
      <4> QED BY <2>4, <2>12, <4>1
    <3> QED BY <2>12, <2>13, <3>1
  <2>15. lwb_list' # <<>> => lwb_list'[Len(lwb_list')] = n /\ zh_syncing' = lwb_list'[1]
    <3> SUFFICES ASSUME m # 0 PROVE lwb_list'[m] = n /\ zh_syncing' = lwb_list'[1]
      BY <2>12
    <3>1. m \in 1 .. m /\ first + m - 1 = k /\ 1 \in 1 .. m /\ first + 1 - 1 = first
      BY <2>2, <2>4, <2>11, <2>12
    <3>2. lwb_list'[m] = lwb_list[k] /\ lwb_list'[1] = lwb_list[first]
      BY <2>12, <3>1
    <3>3. lwb_list[k] = n
      BY <1>3, <1>7, <2>1 DEF OrderInv, ChainInv
    <3>4. kept # {}
      BY <2>2, <2>4, <2>11
    <3> QED BY <1>7, <3>2, <3>3, <3>4
  <2>16. lwb_list' = <<>> => zh_syncing' = 0
    BY <1>7, <2>2, <2>4, <2>11, <2>12
  <2>17. gone \subseteq 1 .. n /\ zh_syncing' \notin gone
    <3>1. gone \subseteq 1 .. n
      BY <1>1, <2>2, <2>5
    <3>2. kept # {} => lwb_list[first] \notin gone
      <4> SUFFICES ASSUME kept # {}, NEW i \in 1 .. first - 1, lwb_list[i] = lwb_list[first]
                   PROVE  FALSE
        BY <1>1
      <4>1. i \in 1 .. k /\ first \in 1 .. k /\ i < first
        BY <2>4, <2>5
      <4> QED BY <2>2, <2>13, <4>1
    <3>3. 0 \notin gone
      BY <3>1
    <3> QED BY <1>7, <3>1, <3>2, <3>3
  <2>18. \A c \in 1 .. zh_log - 1 : c \in 1 .. n
    BY <1>4
  <2>19. ChainInv'
    BY <1>2, <1>7, <2>7, <2>9, <2>14, <2>15, <2>16, <2>17, <2>18 DEF OrderInv, ChainInv
  <2>20. \A b \in Len(lwb) + 1 .. Len(lwb') : Content(b)' = <<>>
    BY <1>3, <1>4, <2>7
  <2> QED BY <1>2, <1>3, <1>4, <1>5, <2>7, <2>9, <2>10, <2>19, <2>20, OrderFrame
<1> QED BY <1>1, <1>6, <1>7

LEMMA SyncDoneOrder ==
  ASSUME PoolInv, RunInv, DiskInv, OrderInv, SyncDone
  PROVE  OrderInv'
<1>1. /\ spa = "sync" /\ spa' = "clean" /\ synced' = synced + 1 /\ zh_log' = zh_syncing
      /\ UNCHANGED <<open, zh_syncing, tx, lwb, lwb_list, logged, vanished, pos, pc, cur,
                     commit_list,
                     budget, itxg>>
      /\ freed' = {}
  BY DEF SyncDone, queueVars, threadVars, ghostVars
<1>2. PICK n : n = Len(lwb)
  OBVIOUS
<1>3. n \in Nat /\ Blocks = 1 .. n /\ synced \in Nat /\ zh_syncing \in 0 .. n
      /\ lwb_list \in Seq(1 .. n)
  BY <1>2 DEF RunInv, LwbInv, Blocks, PoolInv, DiskInv
<1>4. PICK e : e = [NoBlock EXCEPT !.at = "reused"]
  OBVIOUS
<1>5. e.recs = <<>> /\ e.at = "reused"
  BY <1>4 DEF NoBlock
<1>6. \A b \in 1 .. n : disk'[b] = IF b \in freed THEN e ELSE disk[b]
  BY <1>3, <1>4 DEF SyncDone
<1>7. \A b \in 1 .. n : OnDiskOk(lwb[b], disk[b], b, freed, synced)
  BY <1>2 DEF OrderInv, WrittenInv
<1>8. \A b \in 1 .. n :
        /\ OnDiskOk(lwb[b], disk'[b], b, {}, synced + 1)
        /\ lwb[b].state = "FREE" => disk'[b].recs = <<>>
        /\ \/ Content(b)' = Content(b)
           \/ Content(b)' = <<>> /\ \A k \in DOMAIN Content(b) : Content(b)[k].txg <= synced'
  <2> TAKE b \in 1 .. n
  <2>1. CASE b \in freed
    <3>1. lwb[b].state = "FREE" /\ \A k \in DOMAIN disk[b].recs : disk[b].recs[k].txg <= synced + 1
      BY <1>7, <2>1 DEF OnDiskOk
    <3>2. Content(b) = disk[b].recs /\ Content(b)' = <<>>
      BY <1>1, <1>5, <1>6, <2>1, <3>1 DEF Content
    <3> QED BY <1>1, <1>5, <1>6, <1>7, <2>1, <3>1, <3>2 DEF OnDiskOk, Unwritten, Done
  <2>2. CASE b \notin freed
    <3>1. Content(b)' = Content(b)
      BY <1>1, <1>6, <2>2 DEF Content
    <3> QED BY <1>6, <1>7, <2>2, <3>1 DEF OnDiskOk
  <2> QED BY <2>1, <2>2
<1>9. WrittenInv'
  BY <1>1, <1>2, <1>8 DEF WrittenInv
<1>10. zh_log' # 0 => \A b \in 1 .. zh_log' - 1 : Content(b)' = <<>>
  <2> SUFFICES ASSUME zh_syncing # 0, NEW b \in 1 .. zh_syncing - 1 PROVE Content(b)' = <<>>
    BY <1>1
  <2>1. b \in 1 .. n /\ b < zh_syncing
    BY <1>3
  <2>2. ~Listed(b)
    <3> SUFFICES ASSUME NEW i \in DOMAIN lwb_list, lwb_list[i] = b PROVE FALSE
      BY DEF Listed
    <3>1. lwb_list # <<>> /\ i \in Nat /\ 1 \in DOMAIN lwb_list /\ 1 <= i
          /\ lwb_list[1] \in 1 .. n
      BY <1>3
    <3>2. zh_syncing = lwb_list[1]
      BY <3>1 DEF OrderInv, ChainInv
    <3>3. i = 1 \/ lwb_list[1] < lwb_list[i]
      BY <3>1 DEF OrderInv, ChainInv
    <3>4. zh_syncing \in Nat /\ b \in Nat /\ (zh_syncing = b \/ zh_syncing < b)
      BY <1>3, <2>1, <3>2, <3>3
    <3> QED BY <2>1, <3>4
  <2>3. lwb[b].state = "FREE"
    BY <1>2, <2>1, <2>2 DEF RunInv, LwbInv
  <2> QED BY <1>1, <1>8, <2>1, <2>3 DEF Content
<1>11. ChainInv'
  BY <1>1, <1>2, <1>10 DEF OrderInv, ChainInv
<1>12. HeadInv' /\ GivenUp' = GivenUp
  BY <1>1 DEF OrderInv, EntryInv, HeadInv, HeadOk, GivenUp, GivesUp
<1>13. Len(lwb') = n /\ \A b \in Len(lwb) + 1 .. Len(lwb') : Content(b)' = <<>>
  BY <1>1, <1>2, <1>3
<1>14. synced' \in Nat /\ synced <= synced'
  BY <1>1, <1>3
<1> QED BY <1>1, <1>2, <1>3, <1>8, <1>9, <1>11, <1>12, <1>13, <1>14, OrderFrame

-----------------------------------------------------------------------------
LEMMA OrderRunning ==
  ASSUME PoolInv, RunInv, DiskInv, OrderInv, Next
  PROVE  OrderInv'
<1>1. CASE \E th \in Threads : Write(th) \/ Commit(th) \/ ThreadStep(th)
  <2>1. PICK th \in Threads : Write(th) \/ Commit(th) \/ ThreadStep(th)
    BY <1>1
  <2>2. CASE Write(th) \/ Commit(th) \/ TxAssign(th, "commit", "commit_itx")
    BY <2>2, WriteOrder, CommitOrder
  <2>3. CASE LogItx(th) \/ AsyncToSync(th) \/ CommitItx(th)
    BY <2>3, LogOrder, AsyncOrder, CommitItxOrder
  <2>4. CASE Writer(th) \/ GetCommitList(th) \/ PruneCommit(th) \/ PruneEnd(th)
    BY <2>4, WaitOrder, GetCommitListOrder, PruneOrder, PruneEndOrder
  <2>5. CASE Create(th) \/ CreateKept(th) \/ ProcessCommit(th) \/ ProcessFull(th)
    BY <2>5, CreateOrder, CreateKeptOrder, ProcessCommitOrder, ProcessFullOrder
  <2>6. CASE ProcessRecord(th) \/ ProcessEIO(th) \/ ProcessGone(th) \/ ProcessEnd(th)
    BY <2>6, ProcessRecordOrder, ProcessEIOOrder, ProcessGoneOrder, ProcessEndOrder
  <2>7. CASE WaiterTimeout(th) \/ TimeoutIssue(th) \/ TimeoutLate(th) \/ Return(th)
             \/ Synced(th)
    BY <2>7, WaitOrder, TimeoutIssueOrder, SyncedOrder
  <2> QED BY <2>1, <2>2, <2>3, <2>4, <2>5, <2>6, <2>7 DEF ThreadStep
<1>2. CASE ZioStep
  BY <1>2, ZioOrder
<1>3. CASE SpaStep
  BY <1>3, PoolOrder, ZilSyncOrder, SyncDoneOrder, CleanOrder DEF SpaStep
<1> QED BY <1>1, <1>2, <1>3 DEF Next

(* A crash leaves none of the records to be in any order.                  *)
OrderKeptInv == IF phase = "running" THEN OrderInv ELSE logged = <<>>

LEMMA OrderInit == ReplayInit => OrderKeptInv
<1> SUFFICES ASSUME ReplayInit PROVE OrderInv
  BY DEF OrderKeptInv, ReplayInit
<1>1. /\ zh_log \in {0, 1} /\ zh_syncing = zh_log /\ lwb = [b \in 1 .. zh_log |-> NoLwb]
      /\ disk = [b \in 1 .. zh_log |-> NoBlock] /\ freed = {} /\ lwb_list = <<>>
      /\ commit_list = <<>> /\ logged = <<>> /\ itxg = [i \in 0 .. TXG_SIZE - 1 |-> EmptyItxg]
      /\ pc = [th \in Threads |-> "idle"]
  BY ZilAssumption DEF ReplayInit, Init
<1>2. Len(lwb) = zh_log
  <2>1. lwb = [b \in 1 .. zh_log |-> lwb[b]] /\ zh_log \in Nat
    BY <1>1
  <2> QED BY <2>1, AppendIs
<1>3. /\ NoLwb.state = "FREE" /\ NoLwb.recs = <<>> /\ NoBlock.recs = <<>>
      /\ NoBlock.at = "unwritten"
  BY DEF NoLwb, NoBlock
<1>4. \A b \in 1 .. Len(lwb) : lwb[b] = NoLwb /\ disk[b] = NoBlock /\ Content(b) = <<>>
  BY <1>1, <1>2, <1>3 DEF Content
<1>5. WrittenInv
  <2>1. \A b : OnDiskOk(NoLwb, NoBlock, b, {}, synced)
    BY <1>3 DEF OnDiskOk, Unwritten, Done
  <2> QED BY <1>1, <1>4, <2>1 DEF WrittenInv
<1>6. ChainInv
  BY <1>1, <1>2, <1>4 DEF ChainInv
<1>7. /\ EmptyItxg.txg = 0 /\ EmptyItxg.sync = <<>>
      /\ \A th \in Threads : EmptyItxg.async[th] = <<>>
  BY DEF EmptyItxg
<1>8. EntryInv
  <2>1. \A i \in 0 .. TXG_SIZE - 1 : SlotOk(itxg[i])
    BY <1>1, <1>7 DEF SlotOk
  <2>2. LoggedInv
    BY <1>1 DEF LoggedInv
  <2>3. HeadInv
    BY <1>1 DEF HeadInv, HeadOk, Stalls
  <2> QED BY <2>1, <2>2, <2>3 DEF EntryInv
<1>9. KnownInv
  <2>1. AllKnown(<<>>)
    BY DEF AllKnown
  <2> QED BY <1>1, <1>4, <1>7, <2>1 DEF KnownInv
<1>10. GroupOrder
  BY <1>1 DEF GroupOrder, Ordered
<1> QED BY <1>5, <1>6, <1>8, <1>9, <1>10 DEF OrderInv

LEMMA OrderStep ==
  ASSUME ZilInv, DiskInv, OrderKeptInv, [ReplayNext]_allVars
  PROVE  OrderKeptInv'
<1>1. CASE Running
  <2>1. phase = "running" /\ phase' = "running" /\ Next /\ PoolInv /\ RunInv /\ OrderInv
    BY <1>1 DEF Running, Up, recoveryVars, ZilInv, OrderKeptInv
  <2> QED BY <2>1, OrderRunning DEF OrderKeptInv
<1>2. CASE Crash
  <2>1. phase' = "down" /\ logged' = <<>>
    BY <1>2, Zenon DEF Crash
  <2> QED BY <2>1 DEF OrderKeptInv
<1>3. CASE Recovery
  <2> USE DEF queueVars, lwbVars, threadVars, recoveryVars, vars, poolVars, ghostVars
  <2>1. phase # "running" /\ phase' # "running"
    BY <1>3 DEF Recovery, Claim, ClaimClear, Mount, ReplaySkip, Replay, ReplayError, ReplayFails,
                ReplayNoObject, RetryError, ReplayEnd, WaitSynced, OpenNextGroup, SyncHeader,
                SyncHeaderDone, SyncNextGroup, LoadWait, Wait, Destroy
  <2>2. CASE Claim \/ ClaimClear \/ Mount \/ ReplaySkip \/ Replay \/ ReplayError \/ ReplayFails
             \/ ReplayNoObject \/ RetryError \/ ReplayEnd \/ WaitSynced
    <3>1. UNCHANGED logged
      BY <2>2 DEF Claim, ClaimClear, Mount, ReplaySkip, Replay, ReplayError, ReplayFails,
                  ReplayNoObject, RetryError, ReplayEnd, WaitSynced
    <3> QED BY <2>1, <3>1 DEF OrderKeptInv
  <2>3. CASE OpenNextGroup \/ SyncHeader \/ SyncHeaderDone \/ SyncNextGroup
    <3>1. UNCHANGED logged
      BY <2>3 DEF OpenNextGroup, SyncHeader, SyncHeaderDone, SyncNextGroup, SyncDone, ZilClean,
                  UbSync
    <3> QED BY <2>1, <3>1 DEF OrderKeptInv
  <2> QED BY <1>3, <2>2, <2>3 DEF Recovery
<1>4. CASE UNCHANGED allVars
  <2> USE DEF allVars, vars, poolVars, queueVars, lwbVars, threadVars, ghostVars, recoveryVars
  <2>1. CASE phase = "running"
    <3>1. PoolInv /\ LwbInv /\ OrderInv /\ LogQuiet
      BY <1>4, <2>1 DEF ZilInv, RunInv, OrderKeptInv, LogQuiet
    <3>2. HeadInv' /\ GivenUp' = GivenUp
      BY <1>4, <3>1 DEF OrderInv, EntryInv, HeadInv, HeadOk, GivenUp, GivesUp
    <3>3. OrderInv'
      BY <1>4, <3>1, <3>2, QuietFrame
    <3> QED BY <1>4, <2>1, <3>3 DEF OrderKeptInv
  <2>2. CASE phase # "running"
    BY <1>4, <2>2 DEF OrderKeptInv
  <2> QED BY <2>1, <2>2
<1> QED BY <1>1, <1>2, <1>3, <1>4 DEF ReplayNext

(* What replay reads of a block is what was put in it.                     *)
LEMMA InvGroupInOrder == ZilInv /\ DiskInv /\ OrderKeptInv => GroupInOrder
<1> SUFFICES ASSUME ZilInv, DiskInv, OrderKeptInv, NEW b \in Chain, NEW i \in DOMAIN logged,
                    NEW j \in DOMAIN logged, i < j, InBlock(logged[j], b),
                    logged[j].txg > synced, logged[i].txg = logged[j].txg,
                    logged[i].sync, logged[j].sync, logged[i] \notin vanished
             PROVE  Precedes(logged[i], b, logged[j])
  BY DEF GroupInOrder
<1>1. OrderInv /\ RunInv
  <2>1. logged # <<>>
    OBVIOUS
  <2> QED BY <2>1 DEF OrderKeptInv, ZilInv
<1>2. PICK n : n = Len(lwb)
  OBVIOUS
<1>3. n \in Nat /\ Blocks = 1 .. n /\ zh_log \in 0 .. n
  BY <1>1, <1>2 DEF RunInv, LwbInv, Blocks, DiskInv
<1>4. \A c \in 1 .. n : Readable(c) => Content(c) = disk[c].recs
  <2> SUFFICES ASSUME NEW c \in 1 .. n, disk[c].at = "stable" PROVE Content(c) = disk[c].recs
    BY DEF Readable, Stable
  <2>1. OnDiskOk(lwb[c], disk[c], c, freed, synced) /\ lwb[c].state \in LwbStates
    BY <1>1, <1>2 DEF OrderInv, WrittenInv, RunInv, LwbInv, LwbOk
  <2> QED BY <2>1 DEF OnDiskOk, Content, LwbStates, Unwritten, Done
<1>5. /\ b \in 1 .. n /\ zh_log # 0 /\ zh_log <= b /\ \A c \in zh_log .. b : Readable(c)
  BY <1>3 DEF Chain, ChainFrom
<1>6. b \in zh_log .. b /\ Readable(b)
  BY <1>3, <1>5
<1>7. Content(b) = disk[b].recs
  BY <1>4, <1>5, <1>6
<1>8. PICK k \in DOMAIN disk[b].recs : disk[b].recs[k] = logged[j]
  BY DEF InBlock, ToSet
<1>9. StoredAfter(logged[i], logged[j], Contents, n)
  BY <1>1, <1>2 DEF OrderInv, GroupOrder, Ordered, Counts
<1>10. Contents[b] = disk[b].recs
  BY <1>2, <1>5, <1>7 DEF Contents
<1>11. (\E c \in 1 .. b - 1 : In(logged[i], Contents[c])) \/ Before(logged[i], disk[b].recs, k)
  BY <1>5, <1>8, <1>9, <1>10 DEF StoredAfter
<1>12. CASE Before(logged[i], disk[b].recs, k)
  BY <1>8, <1>12 DEF Before, Precedes
<1>13. CASE \E c \in 1 .. b - 1 : In(logged[i], Contents[c])
  <2>1. PICK c \in 1 .. b - 1 : In(logged[i], Contents[c])
    BY <1>13
  <2>2. c \in 1 .. n /\ c < b
    BY <1>3, <1>5
  <2>3. Contents[c] = Content(c)
    BY <1>2, <2>2 DEF Contents
  <2>4. c >= zh_log
    <3> SUFFICES ASSUME c < zh_log PROVE FALSE
      BY <1>3, <2>2
    <3>1. c \in 1 .. zh_log - 1
      BY <1>3, <2>2
    <3>2. Content(c) = <<>>
      BY <1>1, <1>5, <3>1 DEF OrderInv, ChainInv
    <3> QED BY <2>1, <2>3, <3>2 DEF In
  <2>5. c \in zh_log .. b /\ \A d \in zh_log .. c : d \in zh_log .. b
    BY <1>3, <1>5, <2>2, <2>4
  <2>6. c \in Chain /\ Readable(c)
    BY <1>3, <1>5, <2>2, <2>4, <2>5 DEF Chain, ChainFrom
  <2>7. Content(c) = disk[c].recs
    BY <1>4, <2>2, <2>6
  <2>8. InBlock(logged[i], c)
    BY <2>1, <2>3, <2>7 DEF In, InBlock, ToSet
  <2> QED BY <2>2, <2>6, <2>8 DEF Precedes
<1> QED BY <1>11, <1>12, <1>13

(* zil_itx_assign, zil_get_commit_list and zil_process_commit_list: the    *)
(* synchronous records of a group reach the chain in the order they were   *)
(* logged in; whatever fails, wherever the system stops, replay finds none *)
(* of them without those before it, but those zl_get_data found gone       *)
(* before they were written.                                               *)
THEOREM GroupInOrderSafe == ReplaySpec => []GroupInOrder
<1>1. ReplayInit => OrderKeptInv
  BY OrderInit
<1>2. ZilInv /\ (DiskInv /\ RecInv) /\ OrderKeptInv /\ [ReplayNext]_allVars => OrderKeptInv'
  BY OrderStep
<1>3. ZilInv /\ (DiskInv /\ RecInv) /\ OrderKeptInv => GroupInOrder
  BY InvGroupInOrder
<1> QED BY <1>1, <1>2, <1>3, ZilInvHolds, RecInvHolds, PTL DEF ReplaySpec
=============================================================================
