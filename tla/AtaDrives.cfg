SPECIFICATION Spec
CONSTANTS
  Slots = {0, 1}
  Sizes = {1, 2}
  Allocators = {"probe", "other"}
  Disks <- MCDisks
  Controllers <- MCControllers
  Configs <- MCConfigs
  NERRS_MAX = 2
  NXFER = 3
  None = None
  Disable = Disable
  Absent = Absent
INVARIANTS
  EmptySlotClean
  ModesNegotiated
  ErrorsBounded
  TableExact
