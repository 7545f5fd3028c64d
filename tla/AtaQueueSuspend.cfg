CONSTANTS
  n1 = n1
  n2 = n2
  n3 = n3
  r1 = r1
  p1 = p1
  w1 = w1
  w2 = w2
  d0 = d0
  d1 = d1
  Nobody = Nobody
  Xfers = {n1}
  Drives = {d0}
  DriveOf <- OneDrive
  NCQ = {}
  Skip = {}
  Poll = {}
  PollWait = {}
  Openings = 1
  DrvOpenings <- OneOpening
  MaxOpenings = 4
  Postponable = {}
  Detach = {}
  Asks = {}
  Users = {"pmf"}
SPECIFICATION Spec
INVARIANTS
  SuspendQuietAlways
CHECK_DEADLOCK FALSE
