CONSTANTS
  n1 = n1
  n2 = n2
  n3 = n3
  r1 = r1
  p1 = p1
  w1 = w1
  w2 = w2
  d0 = d0
  d1 = d1
  Nobody = Nobody
  Xfers = {n1, n3}
  Drives = {d0, d1}
  DriveOf <- TwoDrives
  NCQ = {}
  Skip = {}
  Poll = {}
  PollWait = {}
  Openings = 1
  DrvOpenings <- OneOpening
  MaxOpenings = 4
  Postponable = {}
  Detach = {d0}
  Asks = {}
  Users = {}
SPECIFICATION FairSpec
PROPERTIES
  KillScanReturns
CHECK_DEADLOCK FALSE
