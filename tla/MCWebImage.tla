----------------------------- MODULE MCWebImage -----------------------------
(***************************************************************************)
(* The image page for TLC.                                                 *)
(***************************************************************************)
EXTENDS ImagePage, TLC

CONSTANTS c1, t1, t2, k1, k2, l1, l2
=============================================================================
