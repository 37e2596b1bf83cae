SPECIFICATION Spec
CONSTANTS
  Tools = {t1, t2}
  Domains = {d1, d2, d3}
  Locals = {d1, d2, d3}
  Ops = {"add", "alias", "del", "rename"}
  MaxRcpt = 1
  MaxOps = 3
  MaxFaults = 1
INVARIANTS TypeOK AddedStays DeletedGone RolledBack
SYMMETRY Symmetry
CHECK_DEADLOCK FALSE
