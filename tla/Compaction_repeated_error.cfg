SPECIFICATION Spec
CONSTANTS
  Files = {f1}
  Window = 2
  Preserve = 1
  StartTime = 1
  MaxTime = 8
  MaxBoot = 2
  MaxErrors = 2
  MaxSamples = 1
  Hazards = {"repeatedError"}
INVARIANTS
  ErrorsKeepTheirSamples
CHECK_DEADLOCK FALSE
