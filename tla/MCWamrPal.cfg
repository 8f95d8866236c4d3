SPECIFICATION FairSpec
CONSTANTS
  MaxKey = 3
  PoolSize = 2
  AddrLimit = 6
  Modules = {m1, m2}
  NoModule = NoModule
  InvokeAfterExit = FALSE
  Faults <- AllocationFaults
INVARIANTS
  TypeOK
  ClosedWhenSuspended
  NoDomainFault
  RegionsAccounted
  ModuleBacked
  ReturnedAtExit
  FreshEnvHash
PROPERTIES
  ImplementsService
  EveryRequestServed
CHECK_DEADLOCK FALSE
