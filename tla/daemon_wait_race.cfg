SPECIFICATION Spec
CONSTANTS
  u1 = u1
  u2 = u2
  Users = {u1}
  Jobs = {1, 2}
  Commands = {"start", "wait"}
  Depth <- DepthTwo
  MaxCommands = 2
  MaxStarts = 1
  MaxDaemonCrashes = 0
  MaxEngineCrashes = 0
PROPERTIES
  WaitReportsFailures
CHECK_DEADLOCK FALSE
