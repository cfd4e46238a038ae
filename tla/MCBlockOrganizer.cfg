SPECIFICATION Spec
CONSTANTS
  g = g
  a1 = a1
  a2 = a2
  a3 = a3
  b1 = b1
  b2 = b2
  c2 = c2
  x2 = x2
  Genesis = g
  Block <- MCBlock
  Parent <- MCParent
  Height <- MCHeight
  Ancestors <- MCAncestors
  TotalWork <- MCTotalWork
  Valid <- MCValid
  MaximumDepth = 1
INVARIANT ChainIsPath
INVARIANT ChildrenArePooled
INVARIANT PromotedContext
INVARIANT ChainIsHeaviest
PROPERTY ImplementsBestChain
