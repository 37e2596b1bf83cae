SPECIFICATION Spec
CHECK_DEADLOCK FALSE
CONSTANTS
  p1 = p1
  p2 = p2
  p3 = p3
  Proc <- Three
  Line <- Lines
  Programs <- AddAddDel
  InitFiles <- FileC
  MaxFaults = 0
INVARIANT
  EffectStays
