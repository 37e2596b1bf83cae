SPECIFICATION Spec
CHECK_DEADLOCK FALSE
CONSTANTS
  p1 = p1
  p2 = p2
  p3 = p3
  Proc <- Two
  Line <- Apart
  Programs <- OneEach
  InitFiles <- AssignFiles
  MaxFaults = 1
INVARIANTS
  TypeOK
  OneEditor
  
PROPERTY
  EditsAreAtomic
