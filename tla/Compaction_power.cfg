SPECIFICATION Spec
CONSTANTS
  Files = {f1, f2}
  Window = 2
  Preserve = 1
  StartTime = 1
  MaxTime = 6
  MaxBoot = 3
  MaxErrors = 1
  MaxSamples = 2
  Hazards = {"powerLoss"}
SYMMETRY Symmetry
INVARIANTS
  TypeOK
  ErrorsKeepTheirSamples
  RawIsTracked
  NoBacklog
  LegacyIsLeftAlone
PROPERTIES
  HiFiIsFinal
  RetentionSpec
CHECK_DEADLOCK FALSE
