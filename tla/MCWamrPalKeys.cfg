SPECIFICATION Spec
CONSTANTS
  MaxKey = 3
  PoolSize = 1
  AddrLimit = 5
  Modules = {m1, m2}
  NoModule = NoModule
  InvokeAfterExit = FALSE
  Faults <- NoFaults
INVARIANT AllocatesWithOwnKeys
CHECK_DEADLOCK FALSE
