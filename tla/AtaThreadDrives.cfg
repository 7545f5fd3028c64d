CONSTANTS
  NDrives = 2
  Asks = {"drvreset"}
  MaxAsks = 2
  Starts = {"running"}
  Users = {}
SPECIFICATION FairSpec
PROPERTIES
  Unfreezes
CHECK_DEADLOCK FALSE
