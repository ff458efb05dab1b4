\* An app server with concurrent calls and a worker process on one database, under
\* fairness.
SPECIFICATION FairSpec
CONSTANTS
  app = app
  worker = worker
  txA = txA
  txB = txB
  txW = txW
  stA = stA
  NoCall = NoCall
  NoProcess = NoProcess
  Processes <- BothProcesses
  Calls <- BothCalls
  Transactions <- BothTransactions
  ProcessOf <- BothProcessOf
CHECK_DEADLOCK FALSE
INVARIANTS
  TypeOK
  AppliedOnce
  InIssueOrder
PROPERTIES
  OneAtATime
  ImplementsAtomicStore
  EveryCallSettles
