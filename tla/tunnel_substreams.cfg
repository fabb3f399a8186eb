SPECIFICATION FairSpec
CONSTANTS
  Ids = {s1}
  Closers = {c1, c2}
  Listeners = {l}
  Closing = {l}
  Forward = forward
  None = None
  MaxDown = 2
  MaxUp = 1
  Window = 1
INVARIANTS
  DownInOrder
  UpInOrder
  ConnsReleased
PROPERTIES
  FirstReason
  TunnelEnds
CHECK_DEADLOCK FALSE
