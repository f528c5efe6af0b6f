SPECIFICATION Spec
CONSTANTS
  RecList <- MixedRecList
  Info <- MixedInfo
  Values = {1, 2}
  SubWindow = 2
  Window = 4
  StartTime = 5
  MaxTime = 9
  Hazards = {"readFails", "readThrows", "badValue", "slowRead"}
INVARIANTS
  TypeOK
  RunningIsSummary
  NoTwoFetchesSkipped
PROPERTIES
  StatsStayInTheirDirectory
  FileHasLatest
CHECK_DEADLOCK FALSE
