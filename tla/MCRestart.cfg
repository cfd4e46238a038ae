SPECIFICATION Spec
CONSTANTS
  Channel = {c1, c2}
  Slot = {s1}
  BatchSize = 2
  AttemptLimit = 1
  InboundLimit = 2
  Host = {self, peer}
  Self = self
  ManualHost = peer
  Caller = {caller}
  NoChannel = NoChannel
  Gone = Gone
INVARIANT RunningTakesChannels
