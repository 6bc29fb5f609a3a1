CONSTANTS
  MaxRecords = 6
  ChanCap = 2
  PartSize = 6
  MaxFaults = 2
  None = None
SPECIFICATION FairSpec
INVARIANTS
  TypeOK
  HashIsOfObject
  SmallFailsOnlyOnFault
PROPERTIES
  ImplementsAtomicUpload
  UploadReturns
  ReaderReleased
CHECK_DEADLOCK FALSE
