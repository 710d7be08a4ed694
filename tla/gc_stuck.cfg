SPECIFICATION FairSpec
CONSTANTS
  Mutator = {m1, m2}
  InScope = {}
  GC = {g1, g2, g3}
  NumRegions = 4
  LowFree = 1
  HighFree = 2
  AlmostEmptyFree = 0
  MaxPick = 2
  NULL = NULL
PROPERTIES
  LowIsCollected
CHECK_DEADLOCK FALSE
