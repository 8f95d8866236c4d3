SPECIFICATION Spec
CONSTANTS
  MaxKey = 3
  PoolSize = 2
  AddrLimit = 5
  Modules = {m1, m2}
  NoModule = NoModule
  InvokeAfterExit = TRUE
  Faults <- AllFaults
INVARIANTS
  KeyConservation
  RegionsDisjoint
CHECK_DEADLOCK FALSE
