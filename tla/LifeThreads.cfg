SPECIFICATION FairSpec
CONSTANTS
  Procs = {k, p1, p2}
  Tasks = {kt, t1, t2}
  Kernel = k
  KernelTask = kt
  None = None
  MaxThreads = 2
  Overtaken = FALSE
CHECK_DEADLOCK FALSE
INVARIANTS SleepersTold LiveCounts
PROPERTIES ExecIsAlone EndsCome
