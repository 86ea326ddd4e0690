CONSTANTS
  Admins = {a1, a2}
  Clients = {k1}
  Maps <- MCMaps
  NoMap <- MCNoMap
  ChannelTables <- MCChannelTables
  Registers <- MCRegisters
  Requests <- MCRequests
  IdRegisters <- MCIdRegisters
  MaxListeners = 2
  Free = Free
  Fixed = Fixed
  Unserved = Unserved
  Absent = Absent
  Torn = Torn
  None = None
  d1 = d1
  d2 = d2
  d3 = d3
  Devices = {d1, d2}
SPECIFICATION FairSpec
INVARIANTS OneMeaning ListenerFollows AnswerTells
PROPERTY AtomicStore
