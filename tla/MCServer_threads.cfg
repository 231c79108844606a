\* Two application threads read from the clients the application keeps.
CONSTANTS
  Conn = {c1, c2}
  FD = {f1, f2}
  Thread = {t1, t2}
  Loop = Loop
  None = None
  Listen = Listen
  MaxMsgs = 1
  ListenMax = 2
  Lens = {0, 1}
  Nosy = FALSE
  Drains = FALSE
  Faults = {}
  MaxStarts = 1
SPECIFICATION Spec
SYMMETRY ThreadSymmetry
INVARIANTS
  TypeOK
  DisconnectAtMostOnce
  UnreachableWhenTold
  DescriptorReclaimed
  NoLostWakeup
\* When the server has stopped, the clients are done and the application has
\* released what it kept, nothing is left to do.
CHECK_DEADLOCK FALSE
