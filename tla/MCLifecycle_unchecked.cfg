\* The owner stops whatever it has started, as the unit test does.
CONSTANTS
  Num <- PositiveNum
  Faults = {"bind"}
  ChecksResult = FALSE
  MaxStarts = 1
SPECIFICATION Spec
INVARIANT FutureIsValid
CHECK_DEADLOCK FALSE
