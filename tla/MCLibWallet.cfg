SPECIFICATION FairSpec
CONSTANTS
  FirstId = 3
  MaxProcs = 3
  FuncSizes <- OneSize
  File <- TwoFiles
  Missing <- NoFile
  PageLen = 2
  BufLen = 2
  Offsets <- SmallOffsets
  Counts <- SmallCounts
  FdLimit = 2
  Refusable <- AnyRefusal
INVARIANTS
  AnswerExact
PROPERTIES
  NoPhantomOpen
  EveryInvocationReturns
CHECK_DEADLOCK FALSE
