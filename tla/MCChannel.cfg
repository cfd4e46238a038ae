SPECIFICATION FairSpec
CONSTANTS
  Own = 3
  Minimum = 1
  Bip31 = 2
  Bip61 = 3
  PeerVersions = {0, 1, 4}
  MaxReads = 4
  MaxPings = 2
INVARIANTS
  HandshakeToldOnce
  PeerIsKnown
  PingsAreAnswered
  HonestPeerIsKept
PROPERTY
  ChannelIsReleased
CHECK_DEADLOCK FALSE
