---------------------------- MODULE MCRendezvous ----------------------------
(***************************************************************************)
(* Instances of the node and the server together for TLC.                  *)
(***************************************************************************)
EXTENDS Rendezvous

CONSTANTS me, o1, g1, w1, w2
=============================================================================
