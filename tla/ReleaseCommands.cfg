CONSTANTS
  Assets = {a1, a2, a3}
  Workers = 2
  MaxTries = 2
  MaxFaults = 2
  MaxChanges = 3
SPECIFICATION CommandsSpec
INVARIANTS PublishedComplete NothingLeftBehind SuccessMeansDone LossBounded Joined AnswerHonest
PROPERTIES CommandEnds OnlyTheFound FilesRight
CHECK_DEADLOCK FALSE
