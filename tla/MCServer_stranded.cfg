\* Two clients connect before the epoll thread wakes.
CONSTANTS
  Conn = {c1, c2}
  FD = {f1, f2}
  Thread = {}
  Loop = Loop
  None = None
  Listen = Listen
  MaxMsgs = 1
  ListenMax = 2
  Lens = {1}
  Nosy = FALSE
  Drains = FALSE
  Faults = {}
  MaxStarts = 1
SPECIFICATION FairSpec
PROPERTY EveryClientAnnounced
CHECK_DEADLOCK FALSE
