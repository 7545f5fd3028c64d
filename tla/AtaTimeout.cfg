SPECIFICATION Spec
CONSTANTS
  Xfers = {x1, x2, x3}
  Threads = {t1, t2}
  Openings = {1, 2}
  None = None
INVARIANTS
  FreedOnce
  HandKnown
  TimerRuns
PROPERTIES
  CommandReturns
CHECK_DEADLOCK FALSE
