\* One ordinary job and the purge of its workspace.
SPECIFICATION Spec
CONSTANTS
  ws1 = ws1
  keyA = keyA
  keyB = keyB
  keyPurge = keyPurge
  w1 = w1
  w2 = w2
  NoKey = NoKey
  NoWorker = NoWorker
  Workspaces <- OneWorkspace
  Keys <- FenceKeys
  PurgeKeys <- FencePurgeKeys
  NullKeys <- NoKeys
  WorkspaceOf <- FenceWorkspaceOf
  Priority <- FencePriority
  MaxAttempts <- FenceMaxAttempts
  Workers <- TwoWorkers
  LockTtl = 1
  MinRetryDelay = 1
  MaxRetryDelay = 2
  Delays <- Now
  CompletedRetention = 0
  DeadRetention = 0
  BatchSize = 1
  MaxJobs = 2
  MaxEnqueues = 2
  MaxFaults = 2
SYMMETRY Symmetry
INVARIANTS
  FencedWorkspaceQuiet
  FenceHolds
  NoOrphanRows
PROPERTIES
  ImplementsOutbox
