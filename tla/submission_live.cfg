SPECIFICATION FairSpec
CONSTANTS
  c1 = c1
  c2 = c2
  p1 = p1
  p2 = p2
  Clients = {c1, c2}
  Daemon = daemon
  Runs <- TwoRuns
  Payloads = {p1}
  Specs <- PairSpec
  NoSpec = NoSpec
  MaxCommands = 2
  MaxBatches = 1
  MaxClientCrashes = 0
  MaxDaemonCrashes = 1
PROPERTIES
  CommandsFinish
  SealedBatchesFinish
CHECK_DEADLOCK FALSE
