\* One process and one store: only the order of main() and the dump thread
\* during the start matters.
CONSTANTS
  Pid = {p1}
  Tid = {t1}
  MaxWrites = 1
  Oom = {}
SPECIFICATION FairSpec
PROPERTIES
  EachIntervalReported
