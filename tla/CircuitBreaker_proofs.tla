----------------------- MODULE CircuitBreaker_proofs -----------------------
(***************************************************************************)
(* Proofs about CircuitBreaker for every set of callers, threshold and     *)
(* timeout.  The inductive invariant is the conjunction of the three       *)
(* invariants the breaker run checks: the burst bound needs the state to   *)
(* match the count (a call is admitted before the first probe only below   *)
(* the threshold), and that needs the types.                               *)
(***************************************************************************)
EXTENDS CircuitBreaker, FiniteSetTheorems, TLAPS

IInv == TypeOK /\ CountMatchesState /\ FailureBurstBound

\* Every set of calls in flight is finite, and no larger than the callers.
LEMMA InFlightBound ==
  ASSUME TypeOK
  PROVE  /\ IsFiniteSet(InFlight)
         /\ Cardinality(InFlight) \in Nat
         /\ Cardinality(Callers) \in Nat
         /\ Cardinality(InFlight) <= Cardinality(Callers)
<1>1. InFlight \subseteq Callers
  BY DEF InFlight
<1>2. /\ IsFiniteSet(InFlight)
      /\ Cardinality(InFlight) <= Cardinality(Callers)
  BY <1>1, CallersAssumption, FS_Subset
<1>3. Cardinality(InFlight) \in Nat /\ Cardinality(Callers) \in Nat
  BY <1>2, CallersAssumption, FS_CardinalityType
<1> QED
  BY <1>2, <1>3

\* A call that ends takes exactly one caller out of the calls in flight.
LEMMA LeaveCount ==
  ASSUME TypeOK, NEW c \in Callers, Leave(c)
  PROVE  Cardinality(InFlight') = Cardinality(InFlight) - 1
<1>1. c \in InFlight
  BY DEF InFlight, Leave
<1>2. InFlight' = InFlight \ {c}
  BY DEF InFlight, Leave, TypeOK
<1> QED
  BY <1>1, <1>2, InFlightBound, FS_RemoveElement

\* Initially the breaker is CLOSED, has counted nothing, and no call runs.
LEMMA InitIInv == Init => IInv
<1> SUFFICES ASSUME Init PROVE IInv
  OBVIOUS
<1>1. TypeOK
  <2>1. healthy \in BOOLEAN /\ probed \in BOOLEAN
    BY Zenon DEF Init
  <2> QED
    BY <2>1, TimeoutAssumption, CapAssumption DEF Init, TypeOK, CircuitState
<1>2. CountMatchesState
  BY ThresholdAssumption DEF Init, CountMatchesState
<1>3. InFlight = {}
  BY DEF Init, InFlight
<1>4. Cardinality(InFlight) = 0
  BY <1>3, FS_EmptySet
<1>5. FailureBurstBound
  BY <1>1, <1>4, InFlightBound, ThresholdAssumption DEF Init, FailureBurstBound
<1> QED
  BY <1>1, <1>2, <1>5 DEF IInv

\* Every step preserves the inductive invariant.
LEMMA StepIInv == IInv /\ [Next]_vars => IInv'
<1> SUFFICES ASSUME IInv, [Next]_vars PROVE IInv'
  OBVIOUS
<1> USE ThresholdAssumption, TimeoutAssumption, CapAssumption, NoTimeAssumption
<1>a. TypeOK /\ CountMatchesState /\ FailureBurstBound
  BY DEF IInv
<1>b. /\ Cardinality(InFlight) \in Nat /\ Cardinality(Callers) \in Nat
      /\ Cardinality(InFlight) <= Cardinality(Callers)
  BY <1>a, InFlightBound
<1>1. ASSUME NEW c \in Callers, Admit(c) PROVE IInv'
  <2>1. TypeOK'
    BY <1>1, <1>a DEF Admit, Enter, TypeOK
  <2>2. CountMatchesState'
    BY <1>1, <1>a DEF Admit, Enter, CountMatchesState
  <2>3. FailureBurstBound'
    <3> SUFFICES ASSUME ~probed'
                 PROVE  failure_count' + Cardinality(InFlight')
                          <= FailureThreshold + Cardinality(Callers) - 1
      BY <1>1 DEF Admit, FailureBurstBound
    <3>1. failure_count < FailureThreshold /\ failure_count' = failure_count
      BY <1>1, <1>a DEF Admit, TypeOK, CircuitState, CountMatchesState
    <3>2. /\ Cardinality(InFlight') \in Nat
          /\ Cardinality(InFlight') <= Cardinality(Callers)
      <4>1. InFlight' \subseteq Callers
        BY DEF InFlight
      <4>2. /\ IsFiniteSet(InFlight')
            /\ Cardinality(InFlight') <= Cardinality(Callers)
        BY <4>1, CallersAssumption, FS_Subset
      <4> QED
        BY <4>2, FS_CardinalityType
    <3> QED
      BY <1>a, <1>b, <3>1, <3>2 DEF TypeOK
  <2> QED
    BY <2>1, <2>2, <2>3 DEF IInv
<1>2. ASSUME NEW c \in Callers, Probe(c) PROVE IInv'
  <2>1. TypeOK'
    BY <1>2, <1>a DEF Probe, Enter, TypeOK, CircuitState
  <2>2. CountMatchesState'
    BY <1>2, <1>a DEF Probe, Enter, CountMatchesState, ShouldAttemptReset, TypeOK
  <2>3. FailureBurstBound'
    BY <1>2 DEF Probe, FailureBurstBound
  <2> QED
    BY <2>1, <2>2, <2>3 DEF IInv
<1>3. ASSUME NEW c \in Callers, OnSuccess(c) PROVE IInv'
  <2>1. TypeOK'
    <3>1. healthy' \in BOOLEAN /\ probed' \in BOOLEAN
      BY <1>3, <1>a, Zenon DEF OnSuccess, TypeOK
    <3> QED
      BY <1>3, <1>a, <3>1 DEF OnSuccess, Leave, TypeOK, CircuitState
  <2>2. CountMatchesState'
    BY <1>3, <1>a DEF OnSuccess, CountMatchesState
  <2>3. FailureBurstBound'
    BY <1>3, <1>a, <1>b, LeaveCount DEF OnSuccess, FailureBurstBound
  <2> QED
    BY <2>1, <2>2, <2>3 DEF IInv
<1>4. ASSUME NEW c \in Callers, OnFailure(c) PROVE IInv'
  <2>1. TypeOK'
    BY <1>4, <1>a DEF OnFailure, Leave, CountFailure, TypeOK, CircuitState
  <2>2. CountMatchesState'
    BY <1>4, <1>a, <1>b DEF OnFailure, CountFailure, CountMatchesState, TypeOK, CircuitState
  <2>3. FailureBurstBound'
    <3>1. Cardinality(InFlight') = Cardinality(InFlight) - 1
      BY <1>4, <1>a, LeaveCount DEF OnFailure
    <3> QED
      BY <1>4, <1>a, <1>b, <3>1 DEF OnFailure, CountFailure, FailureBurstBound, TypeOK
  <2> QED
    BY <2>1, <2>2, <2>3 DEF IInv
<1>5. CASE Reset
  <2>1. TypeOK'
    <3>1. healthy' \in BOOLEAN /\ probed' \in BOOLEAN
      BY <1>5, <1>a, Zenon DEF Reset, TypeOK
    <3> QED
      BY <1>5, <1>a, <3>1 DEF Reset, TypeOK, CircuitState
  <2>2. CountMatchesState'
    BY <1>5 DEF Reset, CountMatchesState
  <2>3. InFlight' = InFlight
    BY <1>5 DEF Reset, InFlight
  <2>4. FailureBurstBound'
    BY <1>5, <1>b, <2>3 DEF Reset, FailureBurstBound
  <2> QED
    BY <2>1, <2>2, <2>4 DEF IInv
<1>6. CASE Tick
  <2>1. TypeOK'
    BY <1>6, <1>a DEF Tick, TypeOK
  <2>2. CountMatchesState'
    BY <1>6, <1>a DEF Tick, CountMatchesState, TypeOK
  <2>3. FailureBurstBound'
    BY <1>6, <1>a DEF Tick, FailureBurstBound, InFlight
  <2> QED
    BY <2>1, <2>2, <2>3 DEF IInv
<1>7. CASE HealthChanges
  BY <1>7, <1>a DEF HealthChanges, IInv, TypeOK, CountMatchesState, FailureBurstBound, InFlight
<1>8. CASE UNCHANGED vars
  BY <1>8, <1>a DEF vars, IInv, TypeOK, CountMatchesState, FailureBurstBound, InFlight
<1>9. ASSUME NEW c \in Callers, Reject(c) PROVE IInv'
  BY <1>9, <1>8 DEF Reject
<1> QED
  BY <1>1, <1>2, <1>3, <1>4, <1>5, <1>6, <1>7, <1>8, <1>9 DEF Next, Call, Return

\* The inductive invariant holds in every reachable state.
THEOREM Invariance == Spec => []IInv
  BY InitIInv, StepIInv, PTL DEF Spec

\* The types of the breaker's fields and of the callers (CircuitBreaker.__init__).
THEOREM TypeCorrect == Spec => []TypeOK
<1>1. IInv => TypeOK
  BY DEF IInv
<1> QED
  BY Invariance, <1>1, PTL

\* For any number of threads the state of the breaker follows from its count:
\* a HALF_OPEN breaker is still at its threshold, so one failure reopens it.
THEOREM StateFollowsCount == Spec => []CountMatchesState
<1>1. IInv => CountMatchesState
  BY DEF IInv
<1> QED
  BY Invariance, <1>1, PTL

\* For any number of threads, a resource that never answers is called at most
\* FailureThreshold + (threads - 1) times before the first probe.
THEOREM BurstBounded == Spec => []FailureBurstBound
<1>1. IInv => FailureBurstBound
  BY DEF IInv
<1> QED
  BY Invariance, <1>1, PTL

\* For any number of threads the first call that ends in HALF_OPEN closes the
\* breaker or reopens it with a fresh timeout.
THEOREM FirstResultDecides == Spec => ProbeDecides
<1> DEFINE Decided(c) ==
      (state = "half_open" /\ pc[c] = "calling" /\ pc'[c] = "idle")
        => \/ healthy /\ state' = "closed" /\ failure_count' = 0
           \/ ~healthy /\ state' = "open" /\ failure_age' = 0
<1>1. IInv /\ [Next]_vars => [\A c \in Callers : Decided(c)]_vars
  <2> SUFFICES ASSUME IInv, Next, NEW c \in Callers,
                      state = "half_open", pc[c] = "calling", pc'[c] = "idle"
               PROVE  \/ healthy /\ state' = "closed" /\ failure_count' = 0
                      \/ ~healthy /\ state' = "open" /\ failure_age' = 0
    OBVIOUS
  <2>1. failure_count >= FailureThreshold /\ failure_count \in Nat
    BY ThresholdAssumption, CapAssumption DEF IInv, CountMatchesState, TypeOK
  <2>2. ASSUME NEW d \in Callers, OnSuccess(d)
        PROVE  healthy /\ state' = "closed" /\ failure_count' = 0
    BY <2>2 DEF OnSuccess
  <2>3. ASSUME NEW d \in Callers, OnFailure(d)
        PROVE  ~healthy /\ state' = "open" /\ failure_age' = 0
    BY <2>1, <2>3, ThresholdAssumption, CapAssumption DEF OnFailure, CountFailure
  <2>4. ASSUME NEW d \in Callers, Call(d)
        PROVE  FALSE
    BY <2>4 DEF Call, Admit, Probe, Reject, Enter, IInv, TypeOK, vars
  <2>5. ~(Reset \/ Tick \/ HealthChanges)
    BY DEF Reset, Tick, HealthChanges
  <2> QED
    BY <2>2, <2>3, <2>4, <2>5 DEF Next, Return
<1>2. QED
  BY <1>1, Invariance, PTL DEF Spec, ProbeDecides

-----------------------------------------------------------------------------
(* The breaker as the threads see it *)

\* The failures in a row, up to the threshold.
Streak == IF failure_count < FailureThreshold THEN failure_count ELSE FailureThreshold

\* A new breaker has counted nothing and lets everybody in.
LEMMA InitGate == Init => Gate!Init
  BY ThresholdAssumption DEF Init, Gate!Init, InFlight

\* The gate lets a caller in below the threshold or on trial.
LEMMA EnterGate ==
  ASSUME IInv, NEW c \in Callers, Admit(c) \/ Probe(c)
  PROVE  Gate!Enter(c)
<1>1. InFlight' = InFlight \cup {c} /\ c \notin InFlight
  BY DEF Admit, Probe, Enter, InFlight, IInv, TypeOK
<1>2. failure_count' = failure_count /\ failure_count \in Nat
  BY CapAssumption DEF Admit, Probe, IInv, TypeOK
<1>3. state' = "half_open" <=> Streak = FailureThreshold
  BY <1>2, ThresholdAssumption
  DEF Admit, Probe, IInv, TypeOK, CircuitState, CountMatchesState, Streak
<1> QED
  BY <1>1, <1>2, <1>3 DEF Gate!Enter, Streak

\* A result counts once, and ends the trial.
LEMMA LeaveGate ==
  ASSUME IInv, NEW c \in Callers, Return(c)
  PROVE  Gate!Succeed(c) \/ Gate!Fail(c)
<1> USE ThresholdAssumption, CapAssumption
<1>1. InFlight' = InFlight \ {c} /\ c \in InFlight
  BY DEF Return, OnSuccess, OnFailure, Leave, InFlight, IInv, TypeOK
<1>2. failure_count \in Nat /\ Cardinality(Callers) \in Nat
  BY InFlightBound DEF IInv, TypeOK
<1>3. CASE OnSuccess(c)
  <2>1. state' = "closed" /\ failure_count' = 0
    BY <1>3 DEF OnSuccess
  <2> QED
    BY <1>1, <2>1 DEF Gate!Succeed, Gate!Leave
<1>4. CASE OnFailure(c)
  <2>1. state' # "half_open"
    BY <1>2, <1>4
    DEF OnFailure, CountFailure, IInv, TypeOK, CircuitState, CountMatchesState
  <2>2. Streak' = IF Streak < FailureThreshold THEN Streak + 1 ELSE Streak
    BY <1>2, <1>4 DEF OnFailure, CountFailure, Streak
  <2> QED
    BY <1>1, <2>1, <2>2 DEF Gate!Fail, Gate!Leave, Streak
<1> QED
  BY <1>3, <1>4 DEF Return

\* Every step is one of the abstract breaker's or is not seen by it: neither the
\* rejected calls nor the time are.
LEMMA StepGate == IInv /\ [Next]_vars => [Gate!Next]_(Gate!vars)
<1> SUFFICES ASSUME IInv, [Next]_vars PROVE [Gate!Next]_(Gate!vars)
  OBVIOUS
<1>1. ASSUME NEW c \in Callers, Call(c) PROVE Gate!Enter(c) \/ UNCHANGED vars
  BY <1>1, EnterGate DEF Call, Reject
<1>2. Reset => Gate!Reset
  BY ThresholdAssumption DEF Reset, Gate!Reset, InFlight
<1>3. Tick \/ HealthChanges \/ UNCHANGED vars => UNCHANGED Gate!vars
  BY DEF Tick, HealthChanges, vars, Gate!vars, InFlight
<1> QED
  BY <1>1, <1>2, <1>3, LeaveGate DEF Next, Gate!Next

\* For any number of threads the code's states, counts and times are an
\* implementation of Breaker: whoever is let in at the threshold is on trial, and
\* the first result ends the trial.
THEOREM BreakerImplemented == Spec => ImplementsBreaker
  BY InitGate, StepGate, Invariance, PTL DEF Spec, ImplementsBreaker, Gate!Spec

=============================================================================
