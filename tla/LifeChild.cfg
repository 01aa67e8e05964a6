SPECIFICATION Spec
CONSTANTS
  Procs = {k,p1,p2}
  Tasks = {kt,t1,t2,t3}
  Kernel = k
  KernelTask = kt
  None = None
  MaxThreads = 2
  Overtaken = FALSE
SYMMETRY LifeSymmetry
CHECK_DEADLOCK FALSE
INVARIANT ChildNotMissed
