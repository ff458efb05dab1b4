SPECIFICATION Spec
CONSTANTS
  Artifacts = {f1, b1}
  Archives = {b1}
  Admins = {1}
  Grace = 1
  MaxAttempts = 2
  MaxTime = 2
  MaxRequests = 2
  MaxFaults = 0
INVARIANT NothingStays
CHECK_DEADLOCK FALSE
