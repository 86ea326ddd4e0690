------------------------------- MODULE Breaker -------------------------------
(***************************************************************************)
(* What the breaker of core/resilience.py promises whoever shares it, with *)
(* no clock and no thread in it: the failures in a row are counted up to a *)
(* threshold; once they have reached it a call is let in as a trial only;  *)
(* and the first result after that, of a trial or of a call from before,   *)
(* ends the trial.  The states of the code are in it as a consequence:     *)
(* CLOSED is a count below the threshold, HALF_OPEN a trial, and OPEN is   *)
(* neither.                                                                *)
(***************************************************************************)
EXTENDS Naturals

CONSTANTS
  Users,     \* who shares the resource
  Threshold  \* failures in a row after which calls are stopped

VARIABLES
  using,     \* users that are inside the protected function
  failures,  \* failures in a row, up to the threshold
  trying     \* calls are let in to try whether the resource is back

vars == <<using, failures, trying>>

Init == using = {} /\ failures = 0 /\ trying = FALSE

\* Let in below the threshold, or as a trial; when a trial is due is left open.
Enter(u) ==
  /\ u \notin using /\ using' = using \cup {u}
  /\ trying' = (failures = Threshold)
  /\ UNCHANGED failures

Leave(u) == u \in using /\ using' = using \ {u} /\ trying' = FALSE

Succeed(u) == Leave(u) /\ failures' = 0

Fail(u) ==
  Leave(u) /\ failures' = IF failures < Threshold THEN failures + 1 ELSE failures

\* The count is given up with the connection it was about, though calls on that
\* may still be inside.
Reset == failures' = 0 /\ trying' = FALSE /\ UNCHANGED using

Next ==
  \/ \E u \in Users : Enter(u) \/ Succeed(u) \/ Fail(u)
  \/ Reset

Spec == Init /\ [][Next]_vars
=============================================================================
