------------------------------ MODULE MCDmuTx ------------------------------
(* Transactions and bounds for checking DmuTx with TLC.                    *)
EXTENDS DmuTx

(* One thread replaces the ACL of the directory "d"; one changes its mode, *)
(* with an ACL in the old object "e"; one links the file "f" into it while *)
(* both are to be upgraded, which holds each of them twice.                *)
Operation == [t \in Txs |-> CASE t = "a" -> "zfs_setacl"
                              [] t = "b" -> "zfs_setattr"
                              [] OTHER -> "zfs_link"]
TxHolds == [t \in Txs |-> CASE t = "a" -> <<"d">>
                            [] t = "b" -> <<"e", "d">>
                            [] OTHER -> <<"f", "d", "f", "d">>]

(* What they write reaches the limit of the throttle, and the quota.       *)
TxSpace == [t \in Txs |-> IF t = "c" THEN 1 ELSE 2]
=============================================================================
