CONSTANTS
  Channel = {c1, c2}
  App = {app}
  None = None
  MaxBlocks = 2
SPECIFICATION FairSpec
INVARIANTS NoEventIsMissed ClearedByStop
PROPERTY StoppedLeave
CHECK_DEADLOCK FALSE
