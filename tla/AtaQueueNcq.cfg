CONSTANTS
  n1 = n1
  n2 = n2
  n3 = n3
  r1 = r1
  p1 = p1
  w1 = w1
  w2 = w2
  d0 = d0
  d1 = d1
  Nobody = Nobody
  Xfers = {n1, n2, n3, r1}
  Drives = {d0, d1}
  DriveOf <- TwoDrives
  NCQ = {n1, n2, n3}
  Skip = {r1}
  Poll = {}
  PollWait = {}
  Openings = 3
  DrvOpenings <- TwoOpenings
  MaxOpenings = 4
  Postponable = {}
  Detach = {d0}
  Asks = {"recover"}
  Users = {"ioctl", "pmf"}
SPECIFICATION Spec
INVARIANTS
  SlotsExact
  Exclusive
  RecoveryReady
  HoldersFreeze
  SuspendQuiet
  NcqFlagExact
  OnePlace
  DetachComplete
PROPERTIES
  RecoveryOvertakes
  KeepsPromise
CHECK_DEADLOCK FALSE
