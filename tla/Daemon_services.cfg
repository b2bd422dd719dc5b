SPECIFICATION Spec
CONSTANTS
  Pids = {1, 2, 3}
  MayFail = TRUE
  Queries = {1}
  RecordRuns = {2, 3}
  Embeddings = {4, 5, 6}
  MaxConnections = 2
  WorkerThreads = 2
  MaxUpdates = 2
  ChannelCapacity = 1
  MaxCrashes = 1
INVARIANTS
  MissedRunMadeGoodOnce
  MessagesAccounted
PROPERTIES
  RestartHandsOver
  PoolOpsEnd
  ButtonsNeverReachOwnRun
  UpdatesSettle
CHECK_DEADLOCK FALSE
