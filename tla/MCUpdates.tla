------------------------------ MODULE MCUpdates ------------------------------
(* A small instance of the release store. *)
EXTENDS UpdateManager

CONSTANTS v1, v2, c1, c2
=============================================================================
