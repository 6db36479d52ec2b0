------------------------------ MODULE MCChute -------------------------------
(* Chute instances: calls that wait forever, and calls with a timeout and   *)
(* signals, so that responses arrive after their call returned.             *)
EXTENDS Chute
=============================================================================
