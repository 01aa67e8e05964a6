SPECIFICATION FairSpec
CONSTANTS
  Writers = {w1}
  Readers = {r1}
  Marks = 3
  Size = 2
  MaxWrite = 3
  Local = TRUE
CHECK_DEADLOCK FALSE
PROPERTIES IsAStream StreamEnds
