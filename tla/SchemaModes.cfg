CONSTANTS
  NameOrder <- OrderedNames
  NoDate = 99
  LastDay = 9
  MaxSize = 4
  Lists <- PartitionLists
  Sizes <- BatchSizes
SPECIFICATION AlgSpec
INVARIANTS
  ReadableUnlessBreaking
CHECK_DEADLOCK FALSE
