CONSTANTS
  Workers = {w0, w1}
  Syncs = {p0}
  Stamps = {s0, s1}
  None = None
  MaxExports = 3
  MaxFaults = 1
  MaxCrashes = 1
SPECIFICATION Spec
INVARIANTS
  TypeOK
  CatalogueBacked
  CompletedIsStored
  CompletedIsListed
SYMMETRY Symmetry
CHECK_DEADLOCK FALSE
