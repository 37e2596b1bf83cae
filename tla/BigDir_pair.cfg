SPECIFICATION Spec
CHECK_DEADLOCK FALSE
CONSTANTS
  List = 2
  users_per_level = 1
  Proc = {p1, p2}
  User = {u1, u2, u3}
  None = None
  Tools = {"add", "del", "reorg"}
  AtATime = 2
  MaxRuns = 5
  MaxFaults = 1
INVARIANTS
  TypeOK
  CountBound
  RowWellFormed
PROPERTY
  DirForward
