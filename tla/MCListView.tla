---------------------------- MODULE MCListView ----------------------------
(***************************************************************************)
(* Small instances of ListView for TLC.                                    *)
(***************************************************************************)
EXTENDS ListView, TLC

CONSTANTS p1, p2, w1, w2
=============================================================================
