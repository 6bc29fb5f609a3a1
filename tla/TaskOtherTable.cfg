CONSTANTS
  w0 = w0
  w1 = w1
  Workers = {w0}
  WorkerId <- OneWorkerId
  CliId = "worker-0"
  Tables = {"orders", "customers"}
  None = None
  NumTasks = 2
  NumRuns = 2
  LeaseTTL = 2
  StaleAfter = 2
  MaxFaults = 1
  Overlap = FALSE
SPECIFICATION Spec
INVARIANTS
  CompletedIsExported
