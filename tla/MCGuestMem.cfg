SPECIFICATION Spec
CONSTANTS
  VCpu = {v1, v2}
  v1 = v1
  v2 = v2
  HPage = 2
  NPages = 2
  NFolios = 1
  MaxSet = 1
  MaxFile = 1
  MaxFault = 2
INVARIANTS
  NoStaleMapping
  FreedIsShared
  MappedIsAssigned
  MixedExact
PROPERTIES
  FaultMapsAttribute
  FaultEnds
CHECK_DEADLOCK FALSE
