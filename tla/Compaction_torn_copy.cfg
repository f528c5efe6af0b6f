SPECIFICATION Spec
CONSTANTS
  Files = {f1}
  Window = 2
  Preserve = 1
  StartTime = 1
  MaxTime = 6
  MaxBoot = 2
  MaxErrors = 1
  MaxSamples = 2
  Hazards = {"powerLoss", "tornCopy"}
INVARIANTS
  RawIsTracked
CHECK_DEADLOCK FALSE
