CONSTANTS
  w0 = w0
  w1 = w1
  Workers = {w0, w1}
  WorkerId <- TwoWorkerIds
  CliId = "worker-0"
  Tables = {"orders"}
  None = None
  NumTasks = 2
  NumRuns = 3
  LeaseTTL = 2
  StaleAfter = 2
  MaxFaults = 1
  Overlap = FALSE
SPECIFICATION Spec
INVARIANTS
  TypeOK
  ExclusiveClaim
  CompletedIsExported
PROPERTIES
  BacklogDrained
  ImplementsTaskQueue
