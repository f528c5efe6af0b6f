SPECIFICATION Spec
CONSTANTS
  Devices = {d1, d2}
  Budget = 2
  WindowSecs = 2
  MaxRetries = 0
  BaseSecs = 1
  TimeoutSecs = 1
  Sizes = {1, 2}
  MaxTime = 4
  LastEvent = 3
  MaxDir = 2
  MaxRecords = 3
  Hazards = {"restart", "recordFails", "tornRecord"}
SYMMETRY Symmetry
INVARIANTS
  IndexMatchesFiles
  WithinBudgetAfterStore
PROPERTIES
  OldestOfDeviceFirst
  LedgerSpec
CHECK_DEADLOCK FALSE
