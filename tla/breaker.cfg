\* Three callers can be in flight together when a threshold of 2 is crossed.
\* No symmetry: two properties are about what happens in the end.
CONSTANTS
  Callers = {c1, c2, c3}
  FailureThreshold = 2
  Timeout = 2
  FailureCap = 5
  NoTime = NoTime
SPECIFICATION FairSpec
INVARIANT FailureBurstBound
PROPERTIES OpenIsTemporary Recovers ImplementsBreaker
