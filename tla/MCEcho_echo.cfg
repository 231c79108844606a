\* A program that sends, receives and leaves as it likes.
CONSTANTS
  Cap = 2
  Buf = 2
  MaxBytes = 10
  Sizes = {2, 8}
  Faults = {"socket", "connect", "signal"}
SPECIFICATION FairSpec
INVARIANTS
  TypeOK
  EchoInOrder
  EchoIntact
  EofIsComplete
  NobodyIsStuck
PROPERTIES
  KeepsReplyContract
  ClientCallsReturn
  PeerReleased
\* When the program has stopped calling, nothing is left to do.
CHECK_DEADLOCK FALSE
