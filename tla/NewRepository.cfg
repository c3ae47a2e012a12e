CONSTANTS
  MaxRuns = 2
  MaxFaults = 2
  MaxLabels = 3
  PageSize = 2
  Workers = {w1, w2}
  MaxOthers = 2
SPECIFICATION NewSpec
INVARIANTS SetUpRight SuccessHonest
PROPERTIES CommandsReturn
CHECK_DEADLOCK FALSE
