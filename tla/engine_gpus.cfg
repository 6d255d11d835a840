SPECIFICATION FairSpec
CONSTANTS
  GpuCount = 2
  JobCount = 3
  Depths = {1, 2}
  Starts <- IdleOrBusy
  MaxRechecks = 1
  MaxFaults = 1
INVARIANTS
  ChecksSeeNoRuns
  DrainedIsClean
PROPERTIES
  CommandsEnd
CHECK_DEADLOCK FALSE
