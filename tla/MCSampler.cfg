\* Two rings of 64 bytes.  One gets records of 24 and 32 bytes, as LOST records
\* and samples are: they start at every multiple of eight and wrap at each.  The
\* counters wrap after two rounds.  Two records are read per round, from rings
\* the kernel refills as fast as it likes.  A ring may fail to be mapped.
CONSTANTS
  NumCores = 2
  Size = 16
  Wrap = 32
  RecordSizes <- MCRecordSizes
  HeaderSize = 2
  MaxEvent = 16
  Batch = 2
  RecordIds = 3
  Failures = TRUE
SPECIFICATION FairSpec
INVARIANTS
  DeliversNextIntact
  NeverSplit
  NothingSkipped
PROPERTIES
  NoCoreStarves
  StopsWhenAsked
CHECK_DEADLOCK FALSE
