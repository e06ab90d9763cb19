CONSTANTS
  MaxIndex = 3
  RootBlock <- MCRootBlock
  Confirmations = 1
  MaxL1Block = 6
  MaxReorgs = 3
  CheckIntervalZero = FALSE
SPECIFICATION FairSpec
PROPERTY PinnedIndexMonotonic
PROPERTY PublishedRootConfirmed
PROPERTY FollowsL1WhileWatcherRuns
PROPERTY StartsUnlessWatcherStopsFirst
CHECK_DEADLOCK FALSE
