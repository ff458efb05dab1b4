SPECIFICATION FairSpec
CONSTANTS
  Artifacts = {f1, b1}
  Archives = {b1}
  Admins = {1, 2}
  Grace = 1
  MaxAttempts = 2
  MaxTime = 2
  MaxRequests = 2
  MaxFaults = 1
INVARIANT TypeOK
PROPERTIES ImplementsDeletion PurgeEnds
CHECK_DEADLOCK FALSE
