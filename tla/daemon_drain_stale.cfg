SPECIFICATION Spec
CONSTANTS
  u1 = u1
  u2 = u2
  Users = {u1}
  Jobs = {1, 2}
  Commands = {"start", "drain", "resume"}
  Depth <- DepthTwo
  MaxCommands = 4
  MaxStarts = 1
  MaxDaemonCrashes = 0
  MaxEngineCrashes = 0
PROPERTIES
  DrainClearsGPUs
CHECK_DEADLOCK FALSE
