CONSTANTS
  Admins = {a1}
  MaxConnects = 2
  MaxStarts = 2
  Strikes = 2
  Topics <- MCTopics
  CommandTopic <- MCCommandTopic
  Commands <- MCCommands
SPECIFICATION FairSpec
INVARIANTS FlagFollowsBroker SubscriptionsFollowBridge CommandOnce WellRunsOn
PROPERTIES CallsEnd LossStops
