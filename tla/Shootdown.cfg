SPECIFICATION FairSpec
CONSTANTS
  NumCpus = 2
  Unmappers = {0, 1}
  Callers = {0}
  Callees = {1}
INVARIANTS StaleOnlyInService CallsSound
PROPERTIES CallIsOver ShootdownEnds
