CONSTANTS
  MaxCommits = 3
  MaxMoves = 0
  MaxFaults = 0
  MaxRuns = 1
  MaxTries = 1
SPECIFICATION Spec
PROPERTIES DeletedAsSaid
CHECK_DEADLOCK FALSE
