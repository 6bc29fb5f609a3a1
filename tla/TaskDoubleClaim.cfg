CONSTANTS
  w0 = w0
  w1 = w1
  Workers = {w0}
  WorkerId <- OneWorkerId
  CliId = "worker-0"
  Tables = {"orders"}
  None = None
  NumTasks = 2
  NumRuns = 3
  LeaseTTL = 6
  StaleAfter = 6
  MaxFaults = 0
  Overlap = TRUE
SPECIFICATION Spec
INVARIANTS
  ExclusiveClaim
