SPECIFICATION FairSpec
CONSTANTS
  Connector = {k1, k2}
  BatchSize = 2
INVARIANTS
  AnsweredOnce
  FirstSuccessWins
PROPERTY BatchIsAnswered
CHECK_DEADLOCK FALSE
