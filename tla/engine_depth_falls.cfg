SPECIFICATION FairSpec
CONSTANTS
  GpuCount = 1
  JobCount = 2
  Depths = {1, 2}
  Starts <- AllIdle
  MaxRechecks = 0
  MaxFaults = 0
PROPERTIES
  EveryCommandEnds
CHECK_DEADLOCK FALSE
