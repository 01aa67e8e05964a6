SPECIFICATION Spec
CONSTANTS
  Writers = {w1, w2}
  Readers = {r1}
  Marks = 1
  Size = 2
  MaxWrite = 3
  Local = FALSE
SYMMETRY StreamSymmetry
CHECK_DEADLOCK FALSE
INVARIANTS NobodyLeftAsleep FreedUnused
