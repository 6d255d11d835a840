SPECIFICATION FairSpec
CONSTANTS
  u1 = u1
  u2 = u2
  Users = {u1}
  Jobs = {1, 2}
  Commands = {"start", "pause"}
  Depth <- DepthTwo
  MaxCommands = 2
  MaxStarts = 1
  MaxDaemonCrashes = 0
  MaxEngineCrashes = 0
PROPERTIES
  DispatchedFinish
CHECK_DEADLOCK FALSE
