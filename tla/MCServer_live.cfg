\* Receive callbacks drain their client; liveness, so no symmetry.
CONSTANTS
  Conn = {c1, c2}
  FD = {f1, f2}
  Thread = {}
  Loop = Loop
  None = None
  Listen = Listen
  MaxMsgs = 1
  ListenMax = 2
  Lens = {1}
  Nosy = FALSE
  Drains = TRUE
  Faults = {}
  MaxStarts = 1
SPECIFICATION FairSpec
PROPERTIES
  HeadAnnounced
  WakeupDelivered
  CloseNoticed
  StopCompletes
CHECK_DEADLOCK FALSE
