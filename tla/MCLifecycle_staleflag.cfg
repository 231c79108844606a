\* epoll_wait may fail, with EINTR for one.
CONSTANTS
  Num <- PositiveNum
  Faults = {"epoll_wait"}
  ChecksResult = TRUE
  MaxStarts = 2
SPECIFICATION FairSpec
PROPERTY StopStops
CHECK_DEADLOCK FALSE
