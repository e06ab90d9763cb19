CONSTANTS
  MaxBlocks = 2
  BufferSize = 2
  MaxRestarts = 0
SPECIFICATION FairSpec
PROPERTY PendingFlushEventuallyStored
CHECK_DEADLOCK FALSE
