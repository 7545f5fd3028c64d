CONSTANTS
  n1 = n1
  n2 = n2
  n3 = n3
  r1 = r1
  p1 = p1
  w1 = w1
  w2 = w2
  d0 = d0
  d1 = d1
  Nobody = Nobody
  Xfers = {n1, n3, w1, p1}
  Drives = {d0, d1}
  DriveOf <- TwoDrives
  NCQ = {}
  Skip = {}
  Poll = {w1, p1}
  PollWait = {w1}
  Openings = 1
  DrvOpenings <- OneOpening
  MaxOpenings = 4
  Postponable = {n1}
  Detach = {}
  Asks = {"reset"}
  Users = {}
SPECIFICATION FairSpec
PROPERTIES
  QueueProgress
  PostponedRestarts
