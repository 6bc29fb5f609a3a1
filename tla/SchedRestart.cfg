CONSTANTS
  Daemons = {d1}
  Slots = {s1, s2, s3}
  None = None
  Policy = "cancel_and_restart"
  LockTTL = 2
  Expires = TRUE
  MaxStops = 2
SPECIFICATION Spec
INVARIANTS
  RunsExclusive
  FlagAccurate
