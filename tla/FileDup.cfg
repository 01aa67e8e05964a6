INIT FlInit
NEXT FlNext
CONSTANTS
  FlThreads = {1, 2, 3}
  FlProcs = {1, 2}
  FlChild = 2
  FlChildThreads = {3}
  FlDupers = {1}
  FlSlots = {1, 2}
  FlFiles = {1, 2, 3}
  FlListeners = 1
  FlBacklog = 1
  FlCalls = 5
INVARIANT FileStaysForTheCall
CHECK_DEADLOCK FALSE
