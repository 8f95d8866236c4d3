SPECIFICATION Spec
CONSTANTS
  Vector = {1, 2}
  MaxRaise = 4
  MaxDoorbell = 1
INVARIANTS
  WaitingRemembered
  NoSleepOnVector
PROPERTIES
  NeverOverwritten
  HighestGetsThrough
CHECK_DEADLOCK FALSE
