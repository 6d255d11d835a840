SPECIFICATION Spec
CONSTANTS
  DayCount = 2
  Kinds <- AllKinds
  Policies = {"suffix", "none"}
  Shared = "suffix"
  Windows = {1, 2}
  MaxRuns = 2
  MaxKills = 1
INVARIANTS
  CountersFollowDays
CHECK_DEADLOCK FALSE
