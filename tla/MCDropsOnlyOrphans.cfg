CONSTANTS
  g = g
  t = t
  a1 = a1
  a2 = a2
  b1 = b1
  b2 = b2
  None = None
  Block <- MCBlock
  Genesis = g
  Parent <- MCParent
  Height <- MCHeight
  Ancestors <- MCAncestors
  TotalWork <- MCTotalWork
  Valid <- MCBlock
  StartTops = {g, a2}
  Fresh = {a2, b2}
  MaxHeaders = 2
  HighBandwidth = TRUE
  MaxEvents = 0
  Negotiated = {"compact"}
  MaxBacklog = 3
SPECIFICATION RelaySpec
PROPERTY DropsOnlyOrphans
CHECK_DEADLOCK FALSE
