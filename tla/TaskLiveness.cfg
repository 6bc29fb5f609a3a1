CONSTANTS
  w0 = w0
  w1 = w1
  Workers = {w0}
  WorkerId <- OneWorkerId
  CliId = "worker-0"
  Tables = {"orders"}
  None = None
  NumTasks = 1
  NumRuns = 2
  LeaseTTL = 2
  StaleAfter = 2
  MaxFaults = 1
  Overlap = TRUE
SPECIFICATION FairSpec
INVARIANTS
  GenerationsFenced
PROPERTIES
  TerminalStable
  CancelReturns
  PendingIsClaimed
