SPECIFICATION BusySpec
CONSTANTS
  GpuCount = 2
  JobCount = 3
  Depths = {2}
  Starts <- IdleThenLoaded
  MaxRechecks = 1
  MaxFaults = 0
PROPERTIES
  LookaheadContinues
CHECK_DEADLOCK FALSE
