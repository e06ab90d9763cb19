CONSTANTS
  MaxBlocks = 2
  BufferSize = 1
  MaxRestarts = 1
SPECIFICATION Spec
PROPERTY NoStoreAfterProverChange
CHECK_DEADLOCK FALSE
