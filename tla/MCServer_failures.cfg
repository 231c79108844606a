\* Every system call and callback may fail; the server is restarted once.
CONSTANTS
  Conn = {c1, c2}
  FD = {f1, f2}
  Thread = {t1}
  Loop = Loop
  None = None
  Listen = Listen
  MaxMsgs = 1
  ListenMax = 1
  Lens = {1}
  Nosy = TRUE
  Drains = FALSE
  Faults = {"epoll_wait", "accept", "getfl", "setfl", "epoll_ctl", "callback"}
  MaxStarts = 2
SPECIFICATION Spec
SYMMETRY Symmetry
INVARIANTS
  AcceptNeverBlocks
  RegistryConsistent
  DelClientHitsItself
PROPERTIES
  KeepsContract
CHECK_DEADLOCK FALSE
