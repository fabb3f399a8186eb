SPECIFICATION Spec
CONSTANTS
  Ops = {"create"}
  Timeout = 8
  CreateTimeout = 6
  Transport = 4
  Grace = 2
  Attempt = 2
  DeleteTimeout = 6
  BackoffCap = 3
  Lag = 2
  MaxFaults = 1
  MaxChanges = 5
  MaxTime = 11
INVARIANTS
  CreateBudget
