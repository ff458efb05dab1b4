\* A job whose worker keeps dying is claimed past max_attempts.
SPECIFICATION Spec
CONSTANTS
  ws1 = ws1
  keyA = keyA
  keyB = keyB
  keyPurge = keyPurge
  w1 = w1
  w2 = w2
  NoKey = NoKey
  NoWorker = NoWorker
  Workspaces <- OneWorkspace
  Keys <- SoloKeys
  PurgeKeys <- NoKeys
  NullKeys <- NoKeys
  WorkspaceOf <- SoloWorkspaceOf
  Priority <- SoloPriority
  MaxAttempts <- SoloMaxAttempts
  Workers <- OneWorker
  LockTtl = 2
  MinRetryDelay = 1
  MaxRetryDelay = 2
  Delays <- Now
  CompletedRetention = 0
  DeadRetention = 0
  BatchSize = 1
  MaxJobs = 1
  MaxEnqueues = 1
  MaxFaults = 2
INVARIANT AttemptsWithinMax
