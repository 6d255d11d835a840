SPECIFICATION Spec
CONSTANTS
  u1 = u1
  u2 = u2
  Users = {u1, u2}
  Jobs = {1, 2}
  Commands = {"start", "stop", "drain", "resume", "interrupt", "pause"}
  Depth <- DepthTwo
  MaxCommands = 3
  MaxStarts = 1
  MaxDaemonCrashes = 0
  MaxEngineCrashes = 0
SYMMETRY UserSymmetry
INVARIANTS
  RecordsAreTrue
PROPERTIES
  DrainStaleOnlyAtDispatch
CHECK_DEADLOCK FALSE
