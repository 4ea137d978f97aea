\* The program stops when its caches are freed, or it has crashed.
CONSTANTS
  Pid = {p1, p2, p3}
  Expiry = 2
  Oom = TRUE
  Char = {"a", " "}
  Mounts <- MCMounts
  Files <- MCFiles
  Arguments <- MCArguments
  NumCpus = 4
SPECIFICATION RFairSpec
INVARIANTS
  OnePerPid
  HeldStays
  ClassifiedAsMounted
  CpusAsListed
PROPERTY
  EventuallyPurged
CHECK_DEADLOCK FALSE
