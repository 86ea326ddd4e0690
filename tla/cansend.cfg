\* No symmetry: one property is about what happens in the end.
CONSTANTS
  Clients = {c1, c2, c3}
  Channels = {A, B}
  Nobody = Nobody
  MaxStages = 3
  MaxFaults = 1
SPECIFICATION FairSpec
INVARIANT FiredOncePerFault
PROPERTIES StageNotLost TriggerAnswered ImplementsOutbox
