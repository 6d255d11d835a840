SPECIFICATION Spec
CONSTANTS
  Epochs = 3
  Horizon = 2
  Patience = 2
  MinDelta = 1
  Scores = {1, 2}
  NoScore = NoScore
  Kept <- LastOneBestTwo
  MaxRuns = 3
  MaxKills = 2
INVARIANTS
  HorizonEndsRun
CHECK_DEADLOCK FALSE
