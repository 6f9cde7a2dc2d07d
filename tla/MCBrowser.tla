------------------------------- MODULE MCBrowser -------------------------------
(* Instances of the browser lifecycle for TLC. *)
EXTENDS BrowserProperties, TLC

CONSTANTS d1, d2, l1, l2
=============================================================================
