CONSTANTS
  NJobs = 3
  MaxNotes = 1
  MaxFaults = 1
  Viewers = {v1, v2}
  MaxAttempts = 3
  MaxViews = 3
SPECIFICATION WorkflowSpec
INVARIANTS LogRight
PROPERTIES ScreenRight
CHECK_DEADLOCK FALSE
