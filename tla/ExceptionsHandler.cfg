SPECIFICATION Spec
CONSTANTS
  Levels = {3, 5}
  CLK = 4
  MaxDepth = 4
  HandlersFault = TRUE
PROPERTY ResumesInCopy
CHECK_DEADLOCK FALSE
