---------------------------- MODULE MCCANManager ----------------------------
(* Instances of CANManager for TLC; the cfg files give its constants. *)
EXTENDS CANManager
=============================================================================
