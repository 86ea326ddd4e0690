-------------------------- MODULE MCCanSendChannel --------------------------
(* Instances of CanSendChannel for TLC; the cfg files give its constants. *)
EXTENDS CanSendChannel
=============================================================================
