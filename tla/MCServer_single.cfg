\* One thread only, and every callback reads from its own client; the server is
\* stopped and started again.
CONSTANTS
  Conn = {c1, c2, c3}
  FD = {f1, f2, f3}
  Thread = {}
  Loop = Loop
  None = None
  Listen = Listen
  MaxMsgs = 0
  ListenMax = 2
  Lens = {1}
  Nosy = FALSE
  Drains = FALSE
  Faults = {}
  MaxStarts = 2
SPECIFICATION Spec
SYMMETRY Symmetry
INVARIANTS
  MappedIsServed
  EventsAreCurrent
  NoLostWakeup
  LoopSurvives
PROPERTIES
  KeepsContract
  NoRecvAfterDisconnect
CHECK_DEADLOCK FALSE
