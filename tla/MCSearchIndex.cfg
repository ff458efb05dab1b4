\* Two records, a restored or fresh database, failing statements and crashes.
SPECIFICATION FairSpec
CONSTANTS
  Records = {r1, r2}
  MaxAttempts = 2
  MaxChanges = 2
  MaxFaults = 2
CHECK_DEADLOCK FALSE
INVARIANTS
  TypeOK
  Converged
PROPERTIES
  RebuildHeals
  EventuallySettled
