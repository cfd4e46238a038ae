SPECIFICATION Spec
CONSTANTS
  Connector = {k1, k2}
  BatchSize = 2
INVARIANT StopCancelsAttempt
CHECK_DEADLOCK FALSE
