SPECIFICATION Spec
CONSTANTS
  ProgramParts = {"tcp", "recovery", "options", "fragments", "net", "dhcp", "resolver", "jobs",
                  "eval", "parse", "arith", "words", "terminal", "line", "accounts"}
  Scenarios = {"one way", "hasty", "sleeping", "closing"}
  Mod = 16
  Mss = 2
  Room = 2
  MaxRetries = 1
  MaxFlight = 2
  Lives = 1
  RecMod = 16
  Smss = 1
  Ranges = 2
  CwndMax = 8
  MaxSpan = 5
  MaxSent = 8
  MaxDup = 4
  OpBytes = {0, 1, 2, 3, 4, 5}
  OpLength = 4
  OpMss = 5
  OpSmallest = 3
  OpDefault = 4
  OpShift = 1
  OpShiftMax = 3
  OpField = 4
  OpRoom = 8
  OpUnscaled = 4
  OpBlocks = 1
  FragKeys = {1, 2}
  FragSlots = {1, 2}
  FragMemory = 4
  PayloadMax = 2
  FragTimeout = 1
  MaxNow = 1
  Callers = {c1, c2}
  Peers = {1, 2}
  ArpSize = 1
  ArpTries = 2
  ArpWait = 1
  ArpStale = 0
  PingSlots = {1}
  PingWait = 1
  Socks = {1, 2}
  Ports = {1, 2}
  Overhead = 1
  QueueBytes = 2
  ErrorsMax = 1
  MaxClock = 1
  MaxCalls = 2
  MaxFrames = 1
  DhServers = {"s1", "s2"}
  DhOverride = 0
  DhTries = 1
  DhPause = 1
  LEASE_MIN = 2
  RETRY_MIN = 3
  DhDelay = 1
  DhTime = 8
  DhExchanges = 3
  RsNames = {"n", "m", "o"}
  RsLine = 4
  RsTries = 2
  RsLookups = 2
  RsFlight = 2
  ShPids = {1, 2, 3}
  ShStages = 2
  ShJobs = 1
  ShTraps = {1, 2}
  ShTyped = 2
  ShSignals = 2
  ShFaults = 1
  EvDepth = 2
  EvTicks = 2
  EvContinue = FALSE
  PsLength = 4
  ArWidth = 4
  ArDepth = 2
  ArOperators = {"||", "&&", "<=", "-", "/"}
  WdTokens = {"*", " ", "$@", "$(c)", "n="}
  WdLength = 3
  WdMaxArgs = 3
  TyThreads = {1}
  TyKeys = {"a", "nl", "int"}
  TyRing = 1
  TyLine = 3
  TyPresses = 2
  TyCalls = 2
  LeKeys = {"a", " ", "esc", "[", "A", "D", "3", "~", "bs", "tab", "enter", "^K", "^U", "^W", "^A"}
  LeMax = 3
  LeHistory = 1
  AcPrograms = {1, 2}
  AcUsers = {"root", "a", "b"}
  AcPasswords = {"p", "q"}
  AcFits = 2
  AcMaxGroups = 1
  AcRacing = FALSE
  AcFaults = 1
INVARIANTS
  TcpSound PacketsSound  ScriptsAreRead ScriptsRun JobsSound 
  AccountsSound
SYMMETRY CallerSymmetry
CHECK_DEADLOCK FALSE
