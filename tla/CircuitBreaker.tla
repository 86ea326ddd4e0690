--------------------------- MODULE CircuitBreaker ---------------------------
(***************************************************************************)
(* core/resilience.py, class CircuitBreaker: the gate that stands between  *)
(* the threads of the controller and a resource that may be down (the CAN  *)
(* chip, one Modbus device).                                               *)
(*                                                                         *)
(* A thread passes the gate under the breaker's lock, runs the protected   *)
(* function WITHOUT the lock, and takes the lock again to record how the   *)
(* function ended.  Several calls are therefore in flight at once, and a   *)
(* call may end in a state of the breaker other than the one it started    *)
(* in.                                                                     *)
(*                                                                         *)
(* Time is the age of the last failure, which is all the code computes     *)
(* from last_failure_time: it grows by Tick up to Timeout, where the       *)
(* comparison `>= timeout` has settled.  Both instances of the class pass  *)
(* expected_exception=Exception, so a call ends in success or in failure.  *)
(***************************************************************************)
EXTENDS Integers, FiniteSets

CONSTANTS
  Callers,           \* threads that use this breaker
  FailureThreshold,  \* failure_threshold
  Timeout,           \* timeout, in ticks
  FailureCap,        \* bound: failure_count saturates here (see CountFailure)
  NoTime             \* last_failure_time is None

ASSUME CallersAssumption == IsFiniteSet(Callers)
ASSUME ThresholdAssumption == FailureThreshold \in Nat \ {0}
ASSUME TimeoutAssumption == Timeout \in Nat \ {0}
ASSUME CapAssumption ==
  FailureCap \in Nat /\ FailureCap >= FailureThreshold + Cardinality(Callers)
ASSUME NoTimeAssumption == NoTime \notin Nat

VARIABLES
  state,          \* CircuitState
  failure_count,
  failure_age,    \* time.time() - last_failure_time, or NoTime
  pc,             \* pc[c] = "calling" while c runs the protected function
  healthy,        \* environment: how a call that ends now would end
  probed,         \* observer: the breaker went HALF_OPEN since failure_count was 0
  admittedIn      \* observer: the state in which c's call was let through

vars == <<state, failure_count, failure_age, pc, healthy, probed, admittedIn>>

CircuitState == {"closed", "open", "half_open"}
InFlight == {c \in Callers : pc[c] = "calling"}

TypeOK ==
  /\ state \in CircuitState
  /\ failure_count \in 0..FailureCap
  /\ failure_age \in 0..Timeout \cup {NoTime}
  /\ pc \in [Callers -> {"idle", "calling"}]
  /\ healthy \in BOOLEAN
  /\ probed \in BOOLEAN
  /\ admittedIn \in [Callers -> CircuitState]

Init ==
  /\ state = "closed"
  /\ failure_count = 0
  /\ failure_age = NoTime
  /\ pc = [c \in Callers |-> "idle"]
  /\ healthy \in BOOLEAN
  /\ probed = FALSE
  /\ admittedIn = [c \in Callers |-> "closed"]

-----------------------------------------------------------------------------
(* The gate: the first `with self.lock` block of wrapper().                *)

ShouldAttemptReset == failure_age # NoTime /\ failure_age >= Timeout

Enter(c, gate) ==
  /\ pc[c] = "idle"
  /\ pc' = [pc EXCEPT ![c] = "calling"]
  /\ admittedIn' = [admittedIn EXCEPT ![c] = gate]

\* CLOSED lets every call through, and so does HALF_OPEN.
Admit(c) ==
  /\ state # "open"
  /\ Enter(c, state)
  /\ UNCHANGED <<state, failure_count, failure_age, healthy, probed>>

\* OPEN and the timeout is over: this caller turns the breaker HALF_OPEN.
Probe(c) ==
  /\ state = "open"
  /\ ShouldAttemptReset
  /\ state' = "half_open"
  /\ probed' = TRUE
  /\ Enter(c, "half_open")
  /\ UNCHANGED <<failure_count, failure_age, healthy>>

RejectCounted(c) ==       \* mutant: a rejected call counts as a failure
  /\ pc[c] = "idle"
  /\ state = "open"
  /\ ~ShouldAttemptReset
  /\ failure_age' = 0
  /\ UNCHANGED <<state, failure_count, pc, healthy, probed, admittedIn>>

\* OPEN and too early: CircuitOpenError, and nothing changes.
Reject(c) ==
  /\ pc[c] = "idle"
  /\ state = "open"
  /\ ~ShouldAttemptReset
  /\ UNCHANGED vars

-----------------------------------------------------------------------------
(* The protected function has ended; its result is recorded under the lock *)

Leave(c) ==
  /\ pc[c] = "calling"
  /\ pc' = [pc EXCEPT ![c] = "idle"]

SuccessInHalfOpenOnly(c) ==  \* mutant: the count is cleared only by a probe
  /\ healthy
  /\ Leave(c)
  /\ failure_count' = IF state = "half_open" THEN 0 ELSE failure_count
  /\ state' = "closed"
  /\ probed' = FALSE
  /\ UNCHANGED <<failure_age, healthy, admittedIn>>

\* _on_success: from whatever state, the breaker is closed with a clean count.
OnSuccess(c) ==
  /\ healthy
  /\ Leave(c)
  /\ failure_count' = 0
  /\ state' = "closed"
  /\ probed' = FALSE
  /\ UNCHANGED <<failure_age, healthy, admittedIn>>

\* The code's integer is unbounded, and is only ever compared with the
\* threshold: beyond FailureCap the count is not told apart.
CountFailure ==
  IF failure_count < FailureCap THEN failure_count + 1 ELSE failure_count

OnFailureLateOpen(c) ==   \* mutant: > instead of >=
  /\ ~healthy
  /\ Leave(c)
  /\ failure_count' = CountFailure
  /\ failure_age' = 0
  /\ state' = IF CountFailure > FailureThreshold THEN "open" ELSE state
  /\ UNCHANGED <<healthy, probed, admittedIn>>

\* _on_failure: counted in every state, and the timeout restarts in every state.
OnFailure(c) ==
  /\ ~healthy
  /\ Leave(c)
  /\ failure_count' = CountFailure
  /\ failure_age' = 0
  /\ state' = IF CountFailure >= FailureThreshold THEN "open" ELSE state
  /\ UNCHANGED <<healthy, probed, admittedIn>>

\* reset(): called by a successful manual reconnect (modbus_manager.connect).
Reset ==
  /\ failure_count' = 0
  /\ state' = "closed"
  /\ failure_age' = NoTime
  /\ probed' = FALSE
  /\ UNCHANGED <<pc, healthy, admittedIn>>

-----------------------------------------------------------------------------
(* The environment *)

Tick ==
  /\ failure_age # NoTime
  /\ failure_age < Timeout
  /\ failure_age' = failure_age + 1
  /\ UNCHANGED <<state, failure_count, pc, healthy, probed, admittedIn>>

HealthChanges ==
  /\ healthy' = ~healthy
  /\ UNCHANGED <<state, failure_count, failure_age, pc, probed, admittedIn>>

Call(c) == Admit(c) \/ Probe(c) \/ Reject(c)
Return(c) == OnSuccess(c) \/ OnFailure(c)

Next ==
  \/ \E c \in Callers : Call(c) \/ Return(c)
  \/ Reset
  \/ Tick
  \/ HealthChanges

Spec == Init /\ [][Next]_vars

\* Time passes, protected functions end (each has an I/O timeout of its own),
\* and each caller keeps calling (the health loop, a client that polls).
Fairness ==
  /\ WF_vars(Tick)
  /\ \A c \in Callers : WF_vars(Return(c)) /\ WF_vars(Call(c))

FairSpec == Spec /\ Fairness

-----------------------------------------------------------------------------
(* Properties *)

\* The state is a function of the failure count: CLOSED exactly below the
\* threshold.  HALF_OPEN keeps the count that opened the breaker, which is the
\* only reason why one failed probe reopens it (_on_failure has no case for
\* HALF_OPEN); OPEN always has a failure time, without which
\* _should_attempt_reset would answer False forever.
CountMatchesState ==
  /\ state = "closed" <=> failure_count < FailureThreshold
  /\ state # "closed" => failure_age # NoTime
  /\ state = "half_open" => failure_age = Timeout /\ probed

\* "call_count <= failure_threshold + len(threads)" (test_race_conditions.py):
\* until the first probe, the failures counted and the calls still running
\* never add up to more than the threshold and the other callers, so a dead
\* resource is touched a bounded number of times however the calls interleave.
FailureBurstBound ==
  ~probed => failure_count + Cardinality(InFlight)
               <= FailureThreshold + Cardinality(Callers) - 1

\* The first call that ends in HALF_OPEN decides: success closes the breaker,
\* failure reopens it and restarts the timeout ("if it fails, it reopens and
\* the timeout restarts").
ProbeDecides ==
  [][ \A c \in Callers :
        (state = "half_open" /\ pc[c] = "calling" /\ pc'[c] = "idle")
          => \/ healthy /\ state' = "closed" /\ failure_count' = 0
             \/ ~healthy /\ state' = "open" /\ failure_age' = 0 ]_vars

\* The breaker as the threads and the resource see it: without the time, and with
\* no more of the state than that calls are let in on trial.
Gate ==
  INSTANCE Breaker WITH
    Users <- Callers, Threshold <- FailureThreshold,
    using <- InFlight,
    failures <- IF failure_count < FailureThreshold THEN failure_count ELSE FailureThreshold,
    trying <- state = "half_open"

\* Of threads that run the protected function without the lock and record their
\* results in any order, each is let in below the threshold or on trial, each
\* result counts once, and the first one ends the trial (resilience.py:79-139).
ImplementsBreaker == Gate!Spec

\* A breaker never stays OPEN: rejected calls do not extend the timeout, and
\* the stragglers that do are finitely many.
OpenIsTemporary == state = "open" ~> state # "open"

\* Once the resource is well for good, the breaker closes for good.
Recovers == <>[]healthy => <>[](state = "closed")

-----------------------------------------------------------------------------
(* What the class comment says, and the code does not do *)

\* "HALF_OPEN: the next call is allowed through as a recovery probe": one call.
SingleProbe ==
  state = "half_open" =>
    Cardinality({c \in InFlight : admittedIn[c] = "half_open"}) <= 1

=============================================================================
