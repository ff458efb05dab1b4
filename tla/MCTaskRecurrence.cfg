SPECIFICATION FairSpec
CONSTANTS
  Users = {1, 2}
  LastDate = 3
  Rules <- FewRules
  Copies = 1
  MaxAttempts = 2
  MaxDay = 2
  MaxRequests = 2
  MaxFaults = 2
CHECK_DEADLOCK FALSE
INVARIANTS
  TypeOK
  OnceOnly
  ChainAccounted
PROPERTIES
  ChainHeals
