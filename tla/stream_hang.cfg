SPECIFICATION FairSpec
CONSTANTS
  MaxFrames = 3
  BufferSize = 2
PROPERTIES
  WaitReturns
CHECK_DEADLOCK FALSE
