CONSTANTS
  Buses = {b0, b1, b2}
  Used = {b1}
  MaxRescans = 1
  SpawnMayFail = TRUE
  EnableMayFail = TRUE
  Work = {b1}
SPECIFICATION FairSpec
INVARIANTS
  InOrder
  PoweredExactly
  EntriesAreOwn
PROPERTIES
  TurnComes
CHECK_DEADLOCK FALSE
