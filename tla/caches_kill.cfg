SPECIFICATION Spec
CONSTANTS
  DayCount = 3
  Kinds <- AllKinds
  Policies = {"suffix", "none"}
  Shared = "suffix"
  Windows = {1, 2}
  MaxRuns = 3
  MaxKills = 2
INVARIANTS
  SequencesMatch
  AuthenticatedIdsMatch
  InvalidateRepairs
CHECK_DEADLOCK FALSE
