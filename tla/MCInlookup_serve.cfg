SPECIFICATION Spec
CONSTANTS
  Clients = {c1, c2}
  Users = {u1}
  Passwords = {p1}
  Kinds = {"user", "pwd"}
  UseBtree = FALSE
  PasswdCache = FALSE
  MaxBtree = 0
  Overlap = FALSE
  MaxQueries = 2
  MaxChanges = 0
  MaxFaults = 0
  MaxSignals = 0
  MaxStops = 1
  MaxKills = 1
INVARIANTS OwnAnswer FifoGone Reachable
PROPERTY QueryEnds
CHECK_DEADLOCK FALSE
