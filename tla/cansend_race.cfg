CONSTANTS
  Clients = {c1, c2}
  Channels = {A, B}
  Nobody = Nobody
  MaxStages = 2
  MaxFaults = 0
SPECIFICATION Spec
PROPERTY NoStageTriggerRace
