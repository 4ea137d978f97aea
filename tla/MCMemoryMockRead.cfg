\* Two adjacent regions, and no call that fails.
CONSTANTS
  Top = 2
  File = {"/bin"}
  Other = {}
  MaxMapped = 2
  Step = 2
  Length = 4
  Failures = FALSE
SPECIFICATION Spec
INVARIANT
  ReadsInBounds
