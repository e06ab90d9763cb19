CONSTANTS
  MaxTxs = 4
  maxLimitSize = 3
SPECIFICATION FairSpec
INVARIANT AnswerMatchesBlock
PROPERTY EveryRequestAnswered
CHECK_DEADLOCK FALSE
