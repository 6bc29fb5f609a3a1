CONSTANTS
  NumParts = 3
  BatchSizeDays = 2
  None = None
  MaxTime = 3
  NumRuns = 3
  MaxFailures = 1
  MaxCrashes = 1
SPECIFICATION Spec
INVARIANTS
  TypeOK
  RecordedCovers
  ManifestBacked
PROPERTIES
  WatermarkMonotone
CHECK_DEADLOCK FALSE
