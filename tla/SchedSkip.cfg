CONSTANTS
  Daemons = {d1, d2}
  Slots = {s1, s2}
  None = None
  Policy = "skip"
  LockTTL = 2
  Expires = FALSE
  MaxStops = 2
SPECIFICATION Spec
INVARIANTS
  RunsExclusive
PROPERTIES
  OwnerReleases
