CONSTANTS
  MaxBlocks = 2
  BufferSize = 2
  MaxRestarts = 0
SPECIFICATION Spec
PROPERTY StoredFlushIDMonotonic
CHECK_DEADLOCK FALSE
