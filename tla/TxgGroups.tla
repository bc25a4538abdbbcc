----------------------------- MODULE TxgGroups -----------------------------
(***************************************************************************)
(* What the transaction group subsystem promises to the rest of ZFS, with  *)
(* no threads, locks or slots: transactions join the open group, groups    *)
(* close in order, a group is written only when every transaction in it    *)
(* has committed, and the callbacks of a group are released by the very    *)
(* step that makes it durable.  Txg.tla implements this specification.     *)
(***************************************************************************)
EXTENDS Naturals

CONSTANTS Txs, First

VARIABLES
    open,       \* the group transactions join
    synced,     \* the last group on disk
    state,      \* progress of each transaction
    group,      \* the group it joined, 0 before it has one
    released    \* transactions whose callback may run

gvars == <<open, synced, state, group, released>>

(* Open, quiescing or quiesced, and syncing (txg.h).                       *)
LiveGroups == 3

GInit ==
    /\ open = First
    /\ synced = First - 1
    /\ state = [t \in Txs |-> "new"]
    /\ group = [t \in Txs |-> 0]
    /\ released = {}

(* A transaction is assigned to the open group.                            *)
Join(t) ==
    /\ state[t] = "new"
    /\ state' = [state EXCEPT ![t] = "active"]
    /\ group' = [group EXCEPT ![t] = open]
    /\ UNCHANGED <<open, synced, released>>

(* It leaves its callback to be run when the group is durable.             *)
Register(t) ==
    /\ state[t] = "active"
    /\ state' = [state EXCEPT ![t] = "callback"]
    /\ UNCHANGED <<open, synced, group, released>>

Commit(t) ==
    /\ \/ state[t] = "active" /\ state' = [state EXCEPT ![t] = "plain"]
       \/ state[t] = "callback" /\ state' = [state EXCEPT ![t] = "committed"]
    /\ UNCHANGED <<open, synced, group, released>>

(* The open group closes and the next one opens.                           *)
Close ==
    /\ open - synced < LiveGroups
    /\ open' = open + 1
    /\ UNCHANGED <<synced, state, group, released>>

(* The oldest closed group becomes durable.                                *)
Sync ==
    /\ synced + 1 < open
    /\ \A t \in Txs :
         group[t] = synced + 1 => state[t] \in {"plain", "committed"}
    /\ synced' = synced + 1
    /\ released' = released \cup
         {t \in Txs : state[t] = "committed" /\ group[t] = synced + 1}
    /\ UNCHANGED <<open, state, group>>

GNext ==
    \/ \E t \in Txs : Join(t) \/ Register(t) \/ Commit(t)
    \/ Close
    \/ Sync

GSpec == GInit /\ [][GNext]_gvars
=============================================================================
