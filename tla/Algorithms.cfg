CONSTANTS
  NameOrder <- OrderedNames
  NoDate = 99
  LastDay = 9
  MaxSize = 4
  Lists <- PartitionLists
  Sizes <- BatchSizes
SPECIFICATION AlgSpec
INVARIANTS
  HashSeparates
  DiffIsExact
  ClassifiedSoundly
  BatchesPartition
PROPERTIES
  WindowsMoveOn
CHECK_DEADLOCK FALSE
