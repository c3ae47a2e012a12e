CONSTANTS
  MaxLabels = 3
  PageSize = 2
  Workers = {w1, w2}
  MaxOthers = 0
  MaxFaults = 1
SPECIFICATION FairSpec
PROPERTIES ErrorReturned
CHECK_DEADLOCK FALSE
