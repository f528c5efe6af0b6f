SPECIFICATION FdrSpec
CONSTANTS
  MaxHmcBoots = 2
  MaxCount = 2
  CounterFaults = {"markFails"}
  Capacity = 1
  Drip = 2
  MaxClock = 2
  MaxSurvived = 2
  Names <- MCNames
  Components <- MCComponents
  MaxEvents = 2
  HandlerFaults = {"writeFails", "tornKeeper"}
INVARIANTS
  FdrTypeOK
  FreshnessInv
  ErrorIsBooked
  EntryHasDetails
PROPERTY BudgetSpec
CHECK_DEADLOCK FALSE
