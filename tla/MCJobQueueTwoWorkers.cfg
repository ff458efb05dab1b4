\* A worker whose markReady failed polls on, and a second one starts beside it.
SPECIFICATION Spec
CONSTANTS
  ws1 = ws1
  keyA = keyA
  keyB = keyB
  keyPurge = keyPurge
  w1 = w1
  w2 = w2
  NoKey = NoKey
  NoWorker = NoWorker
  Workspaces <- OneWorkspace
  Keys <- SoloKeys
  PurgeKeys <- NoKeys
  NullKeys <- NoKeys
  WorkspaceOf <- SoloWorkspaceOf
  Priority <- SoloPriority
  MaxAttempts <- SoloMaxAttempts
  Workers <- TwoWorkers
  LockTtl = 2
  MinRetryDelay = 1
  MaxRetryDelay = 2
  Delays <- Now
  CompletedRetention = 0
  DeadRetention = 0
  BatchSize = 1
  MaxJobs = 1
  MaxEnqueues = 1
  MaxFaults = 1
INVARIANT OneWorkerProcess
