CONSTANTS
  NDrives = 1
  Asks = {}
  MaxAsks = 0
  Starts = {"running"}
  Users = {"pmf"}
SPECIFICATION Spec
PROPERTIES
  RestartsPostponed
CHECK_DEADLOCK FALSE
