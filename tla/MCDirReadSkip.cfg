SPECIFICATION Spec
CONSTANTS
  Lens <- SmallLens
  RecLens <- SmallRecs
  Gaps <- SmallGaps
  MaxDir = 3
  DirBuf = 5
  Counts <- SmallCounts
INVARIANT
  NothingSkipped
CHECK_DEADLOCK FALSE
