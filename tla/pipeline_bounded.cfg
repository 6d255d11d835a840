SPECIFICATION Spec
CONSTANTS
  Users = {1, 2}
  Policies <- AllPolicies
  Lengths <- UpToSix
  BucketCount = 3
  Items = {1, 2, 3}
  Levels = 2
  NumCodes = 2
  BeamWidths = {1, 2, 3, 4}
INVARIANTS
  EpochDelivers
  PredictsOnce
  BeamsAreItems
  RanksCountItems
CHECK_DEADLOCK FALSE
