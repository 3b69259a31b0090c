----------------------------- MODULE MCDiscovery -----------------------------
(***************************************************************************)
(* Instances of the discovery service for TLC.                             *)
(***************************************************************************)
EXTENDS Discovery

CONSTANTS s1, s2, d1, d2, d3, p1, p2
=============================================================================
