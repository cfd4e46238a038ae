SPECIFICATION FairSendingSpec
CONSTANTS
  Message = {"m1", "m2", "m3", "m4"}
INVARIANTS
  WireIsInOrder
PROPERTY
  SendsAreAnswered
CHECK_DEADLOCK FALSE
