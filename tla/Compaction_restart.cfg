SPECIFICATION Spec
CONSTANTS
  Files = {f1}
  Window = 2
  Preserve = 1
  StartTime = 1
  MaxTime = 5
  MaxBoot = 2
  MaxErrors = 1
  MaxSamples = 2
  Hazards = {"powerLoss", "processDeath", "tornCopy", "copyFails", "throws", "slowEngine"}
INVARIANTS
  RetentionInv
PROPERTIES
  RetentionSpec
CHECK_DEADLOCK FALSE
