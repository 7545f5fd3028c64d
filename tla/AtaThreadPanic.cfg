CONSTANTS
  NDrives = 1
  Asks = {}
  MaxAsks = 0
  Starts = {"running", "postponed"}
  Users = {"pmf"}
SPECIFICATION Spec
INVARIANTS
  NoFreezePanic
CHECK_DEADLOCK FALSE
