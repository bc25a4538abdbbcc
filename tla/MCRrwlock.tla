----------------------------- MODULE MCRrwlock -----------------------------
(* Bounds for checking Rrwlock and Rrmlock with TLC: the threads of a      *)
(* behaviour use lock 0 as an rrwlock, with all tags, nested holds and     *)
(* priorities, or all the locks as one rrmlock.                            *)
EXTENDS Rrmlock

VARIABLE array  \* whether they use the array; never changes

mcVars == <<rrmVars, array>>

MCInit ==
    /\ RrmInit
    /\ array \in BOOLEAN
    /\ ~array => /\ td_lock = [t \in Threads |-> 0]
                 /\ \A l \in Locks \ {0} : ~rr_track_all[l]

(* Readers of the array do not nest their holds: a reader that always      *)
(* takes the next hold before it drops the last one is never waited out.   *)
Unnested(t) ==
    /\ \A l \in Locks : \A h, g \in held'[l] : h[1] = g[1] => h = g
    /\ \A l \in Locks : \A h \in held'[l] : h[3] = 1
    /\ call'[t].op = "read" => call'[t].hold[3] = 1

Array ==
    /\ array
    /\ RrmNext
    /\ \A t \in Threads : Unnested(t)

One ==
    /\ ~array
    /\ RrwNext
    /\ \A l \in Locks \ {0} : held'[l] = {} /\ rr_writer'[l] = NULL
    /\ UNCHANGED <<td_lock, w_st, w_i>>

MCNext == (Array \/ One) /\ UNCHANGED array

MCSpec == MCInit /\ [][MCNext]_mcVars /\ RrmFairness
=============================================================================
