\* Two threads, two groups and two CPUs, expiries of one and two ticks: a
\* thread can be demoted, then dropped, while the other is assigned.
CONSTANTS
  Tid = {t1, t2}
  Gid = {0, 1}
  Cpu = {c1, c2}
  Ext = {1, 2}
SPECIFICATION Spec
SYMMETRY Symmetry
INVARIANTS
  TypeOK
  RecordsResolve
  CoresDisjoint
  MaskFollowsRecord
  Specialized
