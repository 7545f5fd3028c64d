CONSTANTS
  le = le
  tty = tty
  wd0 = wd0
  wd1 = wd1
  card = card
  Devices = {le, tty, wd0, wd1, card}
  LevelOf <- LevelOfDevice
  PriorityOf <- PriorityOfDevice
  StrayLimit = 1
  UnexpectedLimit = 1
  MaxRaises = 0
  Unlinked = {card}
SPECIFICATION IsrSpec
INVARIANTS
  PriorityOrder
CHECK_DEADLOCK FALSE
