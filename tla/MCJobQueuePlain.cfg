\* Two producers' keys, two worker processes taking turns on the lock file.
SPECIFICATION Spec
CONSTANTS
  ws1 = ws1
  keyA = keyA
  keyB = keyB
  keyPurge = keyPurge
  w1 = w1
  w2 = w2
  NoKey = NoKey
  NoWorker = NoWorker
  Workspaces <- OneWorkspace
  Keys <- PlainKeys
  PurgeKeys <- NoKeys
  NullKeys <- PlainNullKeys
  WorkspaceOf <- PlainWorkspaceOf
  Priority <- PlainPriority
  MaxAttempts <- PlainMaxAttempts
  Workers <- TwoWorkers
  LockTtl = 1
  MinRetryDelay = 1
  MaxRetryDelay = 2
  Delays <- Now
  CompletedRetention = 0
  DeadRetention = 0
  BatchSize = 1
  MaxJobs = 2
  MaxEnqueues = 3
  MaxFaults = 2
SYMMETRY Symmetry
INVARIANTS
  TypeOK
  LockGuardsProcess
  DedupeUnique
  ClaimOwnsRow
  ExclusiveExecution
  WaitingHasCapacity
  AttemptsPaidFor
  CompletedRan
PROPERTIES
  TerminalIsFinal
  ActiveRowsSurvive
