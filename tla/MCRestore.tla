------------------------------ MODULE MCRestore ------------------------------
(* A small instance of the complete restore. *)
EXTENDS RestoreProperties

CONSTANTS d1, d2, d3
=============================================================================
