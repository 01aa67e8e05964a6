SPECIFICATION TcpFairSpec
CONSTANTS
  Mod = 16
  Mss = 2
  Room = 2
  MaxRetries = 1
  MaxFlight = 2
  Lives = 1
  Scenarios = {"opening", "hasty"}
PROPERTIES TcpEnds
CHECK_DEADLOCK FALSE
