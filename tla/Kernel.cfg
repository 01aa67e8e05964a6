SPECIFICATION Spec
CONSTANTS
  KernelParts = {"paging", "pageCache", "heap", "stacks", "signals", "timers", "sync", "files",
                 "tree", "memFile", "procfs", "fat", "disk", "image"}
  PgThreads = {1, 2, 3}
  PgProcs = {1, 2}
  PgProcOf <- MCPgProcOf
  PgFrames = {1, 2, 3}
  PgSlots = {1}
  PgCalls = 4
  PcThreads = {1, 2, 3}
  PcProcs = {1, 2}
  PcProcOf <- MCPcProcOf
  PcFrames = {1, 2}
  PcTries = 2
  PcCalls = 3
  FrameCount = 5
  PageUnits = 4
  InitialPages = 2
  GrowMin = 4
  TrimThreshold = 6
  TrimKeep = 2
  AskSizes = {1, 5}
  CacheUnits = 1
  PerSlab = 2
  KsCallers = {k1, k2}
  KsSlots = 2
  KsPages = 2
  KsFrames = {1, 2, 3}
  KsMax = 2
  SigThreads = {1, 2}
  HandlerMask = {}
  SigCalls = 3
  SigDepth = 2
  TmCpus = {c1, c2}
  TmTasks = {t1, t2, t3}
  Slice = 2
  Longest = 2
  RefreshGap = 2
  MaxTime = 2
  SyTasks = {s1, s2, s3}
  MaxDepth = 2
  MaxSem = 1
  FlThreads = {1, 2, 3}
  FlProcs = {1, 2}
  FlChild = 2
  FlChildThreads = {3}
  FlDupers = {3}
  FlSlots = {1, 2}
  FlFiles = {1, 2, 3, 4, 5}
  FlListeners = 1
  FlBacklog = 1
  FlCalls = 3
  FtProcs = {1, 2}
  FtNodes = 4
  FtNames = {"a", "b"}
  FtMaxLinks = 1
  FtCalls = 3
  MfBytes = {1, 2}
  MfCapacity = 2
  MfMaxSize = 5
  MfChunk = 2
  MfWrites = 3
  PfReaders = {r1}
  PfPids = 2
  PfSpare = 0
  PfChanges = 1
  PfCalls = 3
  FatClusters = 5
  FatFiles = {1, 2}
  FatNames = {"L", "L~1"}
  FatSizes = {0, 1, 3}
  FatRacing = FALSE
  FatChanges = 3
  FatFaults = 1
  Requesters = {q1, q2}
  DiskSizes <- MCDiskSizes
  Sectors = {0}
  CacheSize = 1
  Values = {1}
  MaxWrites = 1
  MaxReads = 2
  MaxTimeouts = 1
  ImPage = 2
  ImEnd = 10
  ImMin = 2
  ImWrap = 12
  ImFileSize = 4
  ImMaxSegment = 4
  ImLazyMax = 1
  ImBases = {2}
  ImEntries = {2}
  ImArgBytes = 4
  ImArgMax = 2
  ImStack = 16
  ImWord = 2
INVARIANTS
  PagesAreSound  AllocatorsSound SignalsSound SleepersSound FilesSound TreeSound
   DiskSound ImageSound
CHECK_DEADLOCK FALSE
