SPECIFICATION Spec
CONSTANTS
  PageSize = 2
  MmapBase = 2
  MpkBase = 6
  Limit = 11
  MpkSize = 2
  MmapSizes <- SmallSizes
INVARIANTS
  SpaceTypeOK
  MappingsDisjoint
  ContentsKept
  LiveStayMapped
CHECK_DEADLOCK FALSE
