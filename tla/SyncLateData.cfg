CONSTANTS
  NumParts = 1
  BatchSizeDays = 7
  None = None
  MaxTime = 2
  NumRuns = 2
  MaxFailures = 0
  MaxCrashes = 0
SPECIFICATION Spec
INVARIANTS
  LateDataSynced
CHECK_DEADLOCK FALSE
