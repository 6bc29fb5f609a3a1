CONSTANTS
  MaxRecords = 4
  ChanCap = 2
  PartSize = 5
  MaxFaults = 0
  None = None
SPECIFICATION Spec
INVARIANTS
  FailsOnlyOnFault
CHECK_DEADLOCK FALSE
