SPECIFICATION Spec
CONSTANTS
  Levels = {3, 5}
  CLK = 4
  MaxDepth = 4
  HandlersFault = FALSE
INVARIANTS
  PanicsForKernel
PROPERTIES
  ResumesInCopy
  AstServed
CHECK_DEADLOCK FALSE
