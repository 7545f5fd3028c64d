CONSTANTS
  NDrives = 1
  Asks = {}
  MaxAsks = 0
  Starts = {"running", "postponed"}
  Users = {"ioctl"}
SPECIFICATION FairSpec
PROPERTIES
  Unfreezes
CHECK_DEADLOCK FALSE
