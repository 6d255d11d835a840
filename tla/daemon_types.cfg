SPECIFICATION Spec
CONSTANTS
  u1 = u1
  u2 = u2
  Users = {u1}
  Jobs = {1, 2}
  Commands = {"start", "wait"}
  Depth <- DepthOne
  MaxCommands = 2
  MaxStarts = 2
  MaxDaemonCrashes = 1
  MaxEngineCrashes = 1
INVARIANTS
  TypeOK
CHECK_DEADLOCK FALSE
