\* Two threads and three CPUs, two of them for NVMM, so that the loop of
\* main() hands the NVMM group its CPUs in two steps.  The default expiry is
\* the longer one.  Threads come and go, allocations fail.
CONSTANTS
  Tid = {t1, t2}
  Gid = {0, 1}
  Cpu = {0, 1, 2}
  Ext = {2, 3}
  AllCores = {0, 1, 2}
  NvmmCores = {1, 2}
  DefaultExt = 3
  NvmmExt = 2
  Churn = TRUE
  Oom = TRUE
SPECIFICATION SSpec
SYMMETRY Symmetry
INVARIANTS
  RecentWritersHeld
  ExactAfterStartup
  ReleasedAtExit
