CONSTANTS
  MaxVersion = 3
  MaxOps = 4
  MaxFaults = 2
  Processes = {p1, p2}
  MaxDays = 1
SPECIFICATION CommandsSpec
INVARIANTS PinKept ReportTrue TellOnce
PROPERTIES MainEnds
CHECK_DEADLOCK FALSE
