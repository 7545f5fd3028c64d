SPECIFICATION Spec
CONSTANTS
  NPTEPG = 16
  UPAGES = 1
  Sysptsize = 1
  MSGPAGES = 1
  SYSMAP_VA = 96
  MAXADDR = 127
  TTBASE = 128
  VM_MAX_KERNEL_ADDRESS = 96
  firstpa = 0
  Shapes <- MCShapes
  NV = NV
  EIO = EIO
  ATA = ATA
  COUNTS = 4
  CLOCK = 143
  LEMEM = 110
  LEPAGES = 2
  LE = 114
  ZS = 116
  ZSPAGES = 2
  EEPROM = 100
  WD = 3
  CTL = 2
  MAXCOM = 1
  MaxTries = 2
  Bus <- MCBus
  BLOCKS = 2
  Devices <- MCDevices
  NODEV = NODEV
  MaxPanics = 2
  MaxLo = 12
  small = small
  large = large
  tiny = tiny
INVARIANTS
  KernelMapped
  MemoryApart
  BusExact
  DumpInPlace
CHECK_DEADLOCK FALSE
