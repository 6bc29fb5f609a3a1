CONSTANTS
  NumParts = 1
  BatchSizeDays = 7
  None = None
  MaxTime = 2
  NumRuns = 2
  MaxFailures = 1
  MaxCrashes = 0
SPECIFICATION Spec
INVARIANTS
  CommitIsComplete
CHECK_DEADLOCK FALSE
