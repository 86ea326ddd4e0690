CONSTANTS
  Writers = {w1, w2}
  None = None
  Timeout = 3
  DebounceReads = 2
SPECIFICATION FairSpec
INVARIANT NoFalseExit
PROPERTIES OutputShown GlitchIgnored HangEndsProcess BrokerShowsLines
