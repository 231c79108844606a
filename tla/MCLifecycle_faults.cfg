\* Everything may fail, at any time; the owner checks what start() returns.
CONSTANTS
  Num <- AnyNum
  Faults = {"socket", "bind", "listen", "epoll_ctl", "epoll_wait"}
  ChecksResult = TRUE
  MaxStarts = 3
SPECIFICATION FairSpec
INVARIANTS
  TypeOK
  NoSecondThread
  FutureIsValid
  StartTellsTruth
  StopLeavesClean
PROPERTIES
  CallsReturn
  KeepsThreadContract
\* A destroyed server is the end.
CHECK_DEADLOCK FALSE
