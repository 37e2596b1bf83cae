SPECIFICATION FairSpec
CHECK_DEADLOCK FALSE
CONSTANTS
  p1 = p1
  p2 = p2
  p3 = p3
  Proc <- Three
  Line <- Lines
  Programs <- AssignRace
  InitFiles <- AnyFile
  MaxFaults = 1
PROPERTIES
  
  EveryoneEnds
