CONSTANTS
  Callers = {c1, c2}
  FailureThreshold = 2
  Timeout = 2
  FailureCap = 4
  NoTime = NoTime
SPECIFICATION Spec
INVARIANT SingleProbe
