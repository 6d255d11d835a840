SPECIFICATION Spec
CONSTANTS
  c1 = c1
  c2 = c2
  p1 = p1
  p2 = p2
  Clients = {c1, c2}
  Daemon = daemon
  Runs <- TwoRuns
  Payloads = {p1}
  Specs <- OverlapSpecs
  NoSpec = NoSpec
  MaxCommands = 3
  MaxBatches = 1
  MaxClientCrashes = 1
  MaxDaemonCrashes = 1
SYMMETRY ClientSymmetry
INVARIANTS
  TypeOK
  OneLiveJobPerRun
  IndexNamesLiveJob
  AtomicAllOrNone
  LiveJobHasBatch
  OneBatchPerSpec
  RecoveryFindsOnlyOwnRuns
  MatchSeesEachJobOnce
PROPERTIES
  SealedBatchFrozen
  ImplementsRunQueue
CHECK_DEADLOCK FALSE
