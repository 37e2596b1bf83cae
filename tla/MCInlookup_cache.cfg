SPECIFICATION Spec
CONSTANTS
  Clients = {c1}
  Users = {u1, u2}
  Passwords = {p1, p2}
  Kinds = {"user", "pwd"}
  UseBtree = TRUE
  PasswdCache = FALSE
  MaxBtree = 1
  Overlap = FALSE
  MaxQueries = 3
  MaxChanges = 1
  MaxFaults = 1
  MaxSignals = 1
  MaxStops = 0
  MaxKills = 0
INVARIANTS TypeOK StatusTrue RecordTrue 
SYMMETRY Symmetry
CHECK_DEADLOCK FALSE
