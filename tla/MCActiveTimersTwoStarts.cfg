\* Two tabs that start manual timers: the help's promise of one running timer.
SPECIFICATION Spec
CONSTANTS
  Tabs = {t1, t2}
  Ids = {i1, i2}
  Tasks = {k1}
  Kinds <- Manual
  Targets = {}
  NoTimer = NoTimer
  NoTask = NoTask
  Openings = {0}
  MaxSlot = 2
  MaxTime = 1
  MaxLatency = 1
  MaxRequests = 2
  MaxOverlaps = 1
  MaxFaults = 0
CHECK_DEADLOCK FALSE
INVARIANT
  OneRunning
