\* Two threads, two CPUs, one of them for NVMM.  The two threads live on:
\* with threads that come and go a thread could leave the group by exiting.
CONSTANTS
  Tid = {t1, t2}
  Gid = {0, 1}
  Cpu = {0, 1}
  Ext = {1, 2}
  AllCores = {0, 1}
  NvmmCores = {1}
  DefaultExt = 2
  NvmmExt = 1
  Churn = FALSE
  Oom = TRUE
SPECIFICATION FairSpec
PROPERTIES
  Terminates
  EventuallyReleased
