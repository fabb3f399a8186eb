SPECIFICATION FairSpec
CONSTANTS
  Tunnels = {t1, t2, t3}
  Closers = {p1, p2}
  Listeners = {k1}
  Loop = loop
  None = None
INVARIANTS
  OneOpen
  FinalReason
PROPERTIES
  Notified
  CloseReleases
