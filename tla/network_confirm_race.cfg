CONSTANTS
  Configs = {a1, a2, a3}
  NoConfig = NoConfig
  Dhcp = Dhcp
  MaxApplies = 1
  MaxFaults = 0
  MaxCrashes = 0
  Environments <- RaceOnly
SPECIFICATION Spec
PROPERTY ConfirmedStays
CHECK_DEADLOCK FALSE
