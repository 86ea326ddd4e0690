\* No symmetry: two properties are about what happens in the end.
\* No deadlock check: when the applies are used up, the system is at rest.
CONSTANTS
  Configs = {a1, a2, a3}
  NoConfig = NoConfig
  Dhcp = Dhcp
  MaxApplies = 2
  MaxFaults = 2
  MaxCrashes = 1
  Environments <- Gradations
SPECIFICATION FairSpec
INVARIANTS TimerMatchesStatus SafetyNet
PROPERTIES ConfirmIsPermanent PendingResolves UnconfirmedReverts ImplementsTrial
CHECK_DEADLOCK FALSE
