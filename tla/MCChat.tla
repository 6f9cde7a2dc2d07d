-------------------------------- MODULE MCChat --------------------------------
(* Instances of the desktop chat for TLC. *)
EXTENDS ChatProperties, TLC

CONSTANT w1
=============================================================================
