SPECIFICATION Spec
CONSTANTS
  m1 = m1
  b1 = b1
  x1 = x1
  Procs = {m1, b1, x1}
  Big = {b1}
  Modes <- Roles
  Limits = {2, 3}
  First = 2
  Room = 1
  MaxLines = 2
  MaxFaults = 1
INVARIANTS TypeOK HeaderFirst NoDoubleCount 
CHECK_DEADLOCK FALSE
