\* Two processes, two threads and four blocks of memory.  A second has three units.
\* An iteration may take longer than the interval, and the clock be set meanwhile.
CONSTANTS
  NanosecondsPerSecond = 3
  Pid = {p1, p2}
  Tid = {t1, t2}
  Block = {b1, b2, b3, b4}
  Current = Current
  Entries = Entries
  Nowhere = Nowhere
  Interval = 3
  MaxSpent = 4
  ClockStep <- MCClockStep
SPECIFICATION FairSpec
INVARIANTS
  ListsIntact
  WalkSafe
  NoLeak
  OutputValid
  Paced
PROPERTIES
  ImplementsQueue
  EndsAfterStop
