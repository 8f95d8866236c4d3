SPECIFICATION Spec
CONSTANTS
  VCpu = {v1}
  v1 = v1
  HPage = 2
  NPages = 2
  NFolios = 2
  MaxSet = 1
  MaxFile = 0
  MaxFault = 1
INVARIANT NoSharedHugeOverPrivate
CHECK_DEADLOCK FALSE
