CONSTANTS
  Buses = {b0, b1}
  Used = {b0, b1}
  MaxRescans = 1
  SpawnMayFail = FALSE
  EnableMayFail = FALSE
  Work = {}
SPECIFICATION Spec
INVARIANTS
  HeadIsMine
CHECK_DEADLOCK FALSE
