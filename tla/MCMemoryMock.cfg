\* Three addresses, up to two regions at a time, a file and a mapping without
\* one, instructions of two steps of two bytes.
CONSTANTS
  Top = 3
  File = {"/bin"}
  Other = {"heap"}
  MaxMapped = 2
  Step = 2
  Length = 4
  Failures = TRUE
SPECIFICATION FairSpec
INVARIANTS
  MappedIsFound
  EachViewNeeded
PROPERTY
  LookupEnds
