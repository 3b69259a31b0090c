------------------------------ MODULE Options ------------------------------
(***************************************************************************)
(* The value that Option::None, a missing key of a map or a free lock is,  *)
(* shared by the modules of the smaller components.                        *)
(***************************************************************************)
CONSTANT NONE
=============================================================================
