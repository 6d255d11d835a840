SPECIFICATION Spec
CONSTANTS
  a1 = a1
  a2 = a2
  a3 = a3
  a4 = a4
  r1 = r1
  r2 = r2
  r3 = r3
  g = g
  none = none
  Attempts = {a1, a2, a3, a4}
  Name <- ThreeNames
  Queued = {a1, a2, a4}
  Group <- OneGroup
  NoGroup = none
  Cold = {}
  Gpu <- OneGPU
  Stages = 1
  MaxChecks = 1
  MaxDeaths = 2
INVARIANTS
  TypeOK
  OneTrainerPerGPU
  ChecksSeeNoTraining
  OneProcessPerRun
  ReadsWholeCache
CHECK_DEADLOCK FALSE
