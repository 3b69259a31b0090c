-------------------------- MODULE MCMineshaftNode --------------------------
(***************************************************************************)
(* Instances of the node for TLC.                                          *)
(***************************************************************************)
EXTENDS MineshaftNode

CONSTANTS me, o1, o2, g1, g2, w1, w2, k1
=============================================================================
