---------------------------- MODULE MCZilReplay ----------------------------
(* ZilReplay with the bounds of MCZil.                                     *)
EXTENDS ZilReplay, MCZil
=============================================================================
