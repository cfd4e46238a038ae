SPECIFICATION Spec
CONSTANTS
  g = g
  a1 = a1
  a2 = a2
  a3 = a3
  a4 = a4
  b2 = b2
  b3 = b3
  o1 = o1
  o2 = o2
  o3 = o3
  o4 = o4
  o5 = o5
  Genesis = g
  Block <- MCBlock
  Parent <- MCParent
  Height <- MCHeight
  Ancestors <- MCAncestors
  TotalWork <- MCTotalWork
  Valid <- MCBlock
  Outpoint = {o1, o2, o3, o4, o5}
  Creates <- MCCreates
  Spends <- MCSpends
  Unspent <- MCUnspent
  Timestamp <- MCTimestamp
  Limit = 1
  OldAfter = 1
  StaleAfter = 1
  Pruner = {p1, p2}
  MaxClock = 2
  MaxPosted = 2
  NoBlock = none
INVARIANT UtxoIsOfTop
PROPERTY ImplementsAtomicStore
INVARIANT PushNeverFails
INVARIANT QuietStoreIsPruned
INVARIANT PrevoutsAreRight
