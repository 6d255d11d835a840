SPECIFICATION FairSpec
CONSTANTS
  a1 = a1
  a2 = a2
  a3 = a3
  a4 = a4
  r1 = r1
  r2 = r2
  r3 = r3
  g = g
  none = none
  Attempts = {a1, a2, a3}
  Name <- ThreeNames
  Queued = {a1, a2}
  Group <- OneGroup
  NoGroup = none
  Cold = {a2, a3}
  Gpu <- OneGPU
  Stages = 2
  MaxChecks = 1
  MaxDeaths = 1
INVARIANTS
  BuildsAlone
PROPERTIES
  RunsEnd
CHECK_DEADLOCK FALSE
