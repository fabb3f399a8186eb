SPECIFICATION FairSpec
CONSTANTS
  MaxFrames = 4
  BufferSize = 2
INVARIANTS
  TypeOK
  NothingLost
  EndAfterOutput
  ResultBeforeReady
PROPERTIES
  OutcomeReached
CHECK_DEADLOCK FALSE
