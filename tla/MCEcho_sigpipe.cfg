\* A program that sends and leaves without reading the replies.
CONSTANTS
  Cap = 2
  Buf = 1
  MaxBytes = 2
  Sizes = {1, 2}
  Faults = {}
SPECIFICATION Spec
INVARIANTS
  ServerSurvives
CHECK_DEADLOCK FALSE
