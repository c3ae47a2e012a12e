CONSTANTS
  MaxCommits = 4
  MaxMoves = 1
  MaxFaults = 1
  MaxRuns = 1
  MaxTries = 2
SPECIFICATION Spec
PROPERTIES CommitsKept EditsKept Brought DeletedOnlyWhenMerged ShowsTheBranch
CHECK_DEADLOCK FALSE
