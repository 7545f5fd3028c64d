CONSTANTS
  NDrives = 2
  Asks = {"reset", "drvreset", "recovery"}
  MaxAsks = 2
  Starts = {"running", "postponed"}
  Users = {"ioctl", "pmf", "rescan", "detach"}
SPECIFICATION FairSpec
INVARIANTS
  FreezeCounts
PROPERTIES
  OnlyHoldersMislead
  WorkDone
  DetachReturns
CHECK_DEADLOCK FALSE
