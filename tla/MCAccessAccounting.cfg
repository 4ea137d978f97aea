\* Two processes, two thread ids and three stores: an entry is filled, taken
\* over, and made again while the old one is being printed, and the stores of
\* two processes compete with the dump thread for the lock.  Allocations of
\* one process may fail.
CONSTANTS
  Pid = {p1, p2}
  Tid = {t1, t2}
  MaxWrites = 3
  Oom = {p2}
SPECIFICATION FairSpec
INVARIANTS
  TypeOK
  LockOwner
  Conservation
  MatchStaysListed
  CountsAreListed
  FreedAlone
  RowsAddUp
PROPERTIES
  ImplementsLedger
  Reported
  ShutsDown
