SPECIFICATION Spec
CONSTANTS
  m1 = m1
  b1 = b1
  x1 = x1
  Procs = {m1, x1}
  Big = {}
  Modes <- Pair
  Limits = {2, 3}
  First = 2
  Room = 1
  MaxLines = 2
  MaxFaults = 0
INVARIANTS HeaderTrue
CHECK_DEADLOCK FALSE
