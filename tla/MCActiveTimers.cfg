\* Two tabs of one user, requests of every kind, one fault.
SPECIFICATION Spec
CONSTANTS
  Tabs = {t1, t2}
  Ids = {i1, i2, i3}
  Tasks = {k1}
  Kinds <- AllKinds
  Targets = {"blocked", "complete"}
  NoTimer = NoTimer
  NoTask = NoTask
  Openings = {0, 2}
  MaxSlot = 3
  MaxTime = 2
  MaxLatency = 1
  MaxRequests = 3
  MaxOverlaps = 1
  MaxFaults = 1
CHECK_DEADLOCK FALSE
SYMMETRY Symmetric
INVARIANTS
  TypeOK
  OneRowEach
  Accounted
  Settled
PROPERTIES
  NoTimerLost
  StartAlone
  FailedStartRestores
