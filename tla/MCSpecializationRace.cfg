\* One thread that stores to NVMM, three CPUs, one of them for NVMM and one
\* left out, and no failing allocation: only the order of main() and the
\* sampler varies.
CONSTANTS
  Tid = {t1}
  Gid = {0, 1}
  Cpu = {0, 1, 2}
  Ext = {1, 2}
  AllCores = {0, 2}
  NvmmCores = {2}
  DefaultExt = 2
  NvmmExt = 1
  Churn = FALSE
  Oom = FALSE
SPECIFICATION FairSpec
PROPERTIES
  EventuallyConfined
