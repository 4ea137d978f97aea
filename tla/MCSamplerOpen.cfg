\* Opening the event or mapping the ring of a core may fail.
CONSTANTS
  NumCores = 1
  Size = 8
  Wrap = 16
  RecordSizes <- MCOneRing
  HeaderSize = 2
  MaxEvent = 16
  Batch = 1
  RecordIds = 3
  Failures = TRUE
SPECIFICATION Spec
INVARIANTS
  RegisteredCoresMapped
CHECK_DEADLOCK FALSE
