-------------------------- MODULE MCCircuitBreaker --------------------------
(* Instances of CircuitBreaker for TLC; the cfg files give its constants. *)
EXTENDS CircuitBreaker
=============================================================================
