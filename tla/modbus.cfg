CONSTANTS
  Users = {u1}
  Health = health_thread
  MaxDevices = 2
  FailureThreshold = 2
  Faults <- MCFaults
SPECIFICATION FairSpec
INVARIANTS OpenPortIsKnown LinksAgree WellStaysConnected
PROPERTIES LossReported DevicesImplementBreaker
