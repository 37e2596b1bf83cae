SPECIFICATION Spec
CHECK_DEADLOCK FALSE
CONSTANTS
  List = 3
  users_per_level = 3
  MaxUsers = 140
INVARIANT
  InOrder
