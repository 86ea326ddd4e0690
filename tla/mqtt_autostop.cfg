CONSTANTS
  Admins = {a1}
  MaxConnects = 1
  MaxStarts = 2
  Strikes = 2
  Topics <- MCTopics
  CommandTopic <- MCCommandTopic
  Commands <- MCCommands
SPECIFICATION Spec
INVARIANT StoppedIsDeregistered
