SPECIFICATION FairStartSpec
CONSTANTS
  PlatformDirectories <- Directories
  Threshold = 2
  PreserveFiles = FALSE
  NeedLogin = TRUE
  MaxSessions = 3
  Allotment = 3
  MaxStarts = 2
INVARIANTS
  StartTypeOK
  ProfileIsRight
  RequiredChecksHeld
  SessionsAreHeld
PROPERTIES
  StartUpEnds
CHECK_DEADLOCK FALSE
