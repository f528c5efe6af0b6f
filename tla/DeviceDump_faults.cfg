SPECIFICATION FairSpec
CONSTANTS
  Devices = {d1, d2}
  Budget = 2
  WindowSecs = 2
  MaxRetries = 1
  BaseSecs = 1
  TimeoutSecs = 1
  Sizes = {0, 1, 2}
  MaxTime = 6
  LastEvent = 4
  MaxDir = 1
  MaxRecords = 2
  Hazards = {"restart", "unreadableTemp", "storeFails", "strandsTemp", "removeFails"}
PROPERTIES
  SuccessNamesAFile
  StoredDumpsAreApart
  CollectionsEnd
CHECK_DEADLOCK FALSE
