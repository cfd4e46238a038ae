SPECIFICATION FairSpec
CONSTANTS
  BlockCaller = {b1}
  TxCaller = {t1, t2}
  Stopper = stopper
  Worker = {w1, w2}
  BlockPhases <- MCBlockPhases
  TxPhases <- MCTxPhases
  PushFrom = 2
  Prioritize = TRUE
  Nobody = nobody
INVARIANT CompletesOnce
INVARIANT StopCutsNoBranch
PROPERTY ImplementsSerialCalls
PROPERTY CallsReturn
CHECK_DEADLOCK FALSE
