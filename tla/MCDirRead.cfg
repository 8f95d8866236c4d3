SPECIFICATION Spec
CONSTANTS
  Lens <- SmallLens
  RecLens <- SmallRecs
  Gaps <- SmallGaps
  MaxDir = 3
  DirBuf = 5
  Counts <- SmallCounts
INVARIANTS
  InOrderOnce
  WithinCount
  CompleteUnlessFull
CHECK_DEADLOCK FALSE
