CONSTANTS
  MaxBlocks = 5
  BufferSize = 2
  MaxRestarts = 2
SPECIFICATION FairSpec
INVARIANT TypeOK
INVARIANT FlushCursorsBehindExecutor
PROPERTY AbsSpec
PROPERTY BlocksStoredUnlessTrackerParked
CHECK_DEADLOCK FALSE
