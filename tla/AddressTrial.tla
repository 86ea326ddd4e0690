----------------------------- MODULE AddressTrial -----------------------------
(***************************************************************************)
(* What the apply, confirm and revert of core/network_config.py promise    *)
(* together, with no timer, file, profile or lock in it: an address that   *)
(* is asked for is on trial; it is kept when somebody says so, and         *)
(* otherwise the one kept before comes back.  Each is one change.          *)
(***************************************************************************)
CONSTANT Addresses  \* that may be asked for

VARIABLES
  address,   \* of the interface
  kept,      \* the last address that somebody kept
  onTrial,   \* the address is not kept yet
  orderly    \* environment: one change at a time, and nothing goes wrong

vars == <<address, kept, onTrial, orderly>>

Init ==
  /\ orderly \in BOOLEAN
  /\ orderly => address \in Addresses /\ kept = address /\ onTrial = FALSE

Try(a) ==
  /\ ~onTrial /\ onTrial' = TRUE
  /\ address' = a
  /\ UNCHANGED kept

Keep ==
  /\ onTrial /\ onTrial' = FALSE
  /\ kept' = address
  /\ UNCHANGED address

PutBack ==
  /\ onTrial /\ onTrial' = FALSE
  /\ address' = kept
  /\ UNCHANGED kept

Change == (\E a \in Addresses : Try(a)) \/ Keep \/ PutBack

\* If things are not orderly nothing is promised.
Next == UNCHANGED orderly /\ (orderly => Change)

Spec == Init /\ [][Next]_vars
=============================================================================
