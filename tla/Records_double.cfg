SPECIFICATION Spec
CONSTANTS
  RecList <- DoubleRecList
  Info <- DoubleInfo
  Values = {1, 2}
  SubWindow = 2
  Window = 3
  StartTime = 5
  MaxTime = 9
  Hazards = {}
PROPERTIES
  FileHasLatest
CHECK_DEADLOCK FALSE
