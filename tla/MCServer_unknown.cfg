\* A thread of the application reads while events are being handled.
CONSTANTS
  Conn = {c1, c2}
  FD = {f1, f2}
  Thread = {t1}
  Loop = Loop
  None = None
  Listen = Listen
  MaxMsgs = 1
  ListenMax = 2
  Lens = {1}
  Nosy = FALSE
  Drains = FALSE
  Faults = {}
  MaxStarts = 1
SPECIFICATION Spec
INVARIANT LoopSurvives
CHECK_DEADLOCK FALSE
