SPECIFICATION FairSpec
CONSTANTS
  Files = {f1}
  Window = 1
  Preserve = 1
  StartTime = 1
  MaxTime = 4
  MaxBoot = 2
  MaxErrors = 1
  MaxSamples = 1
  Hazards = {"powerLoss", "tornCopy", "tornKeeper", "tornSample", "copyFails", "throws", "slowBoot"}
INVARIANTS
  NothingPendingAfterClean
  CurrentIsNotCompacted
PROPERTIES
  ReturnsToLoop
  WindowTurnsOver
CHECK_DEADLOCK FALSE
