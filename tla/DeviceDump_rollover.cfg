SPECIFICATION Spec
CONSTANTS
  Devices = {d1, d2}
  Budget = 2
  WindowSecs = 2
  MaxRetries = 2
  BaseSecs = 1
  TimeoutSecs = 2
  Sizes = {0, 1, 2}
  MaxTime = 7
  LastEvent = 4
  MaxDir = 1
  MaxRecords = 3
  Hazards = {"rollover", "storeFails", "recordFails"}
SYMMETRY Symmetry
INVARIANTS
  TypeOK
  TempsBelongToCollections
  CollectionTimeIsBounded
  DumpsAreIndexed
PROPERTIES
  LedgerSpec
CHECK_DEADLOCK FALSE
