\* A callback reads from an empty socket.
CONSTANTS
  Conn = {c1}
  FD = {f1}
  Thread = {}
  Loop = Loop
  None = None
  Listen = Listen
  MaxMsgs = 1
  ListenMax = 1
  Lens = {1}
  Nosy = FALSE
  Drains = FALSE
  Faults = {}
  MaxStarts = 1
SPECIFICATION Spec
INVARIANT DisconnectMeansClosed
CHECK_DEADLOCK FALSE
