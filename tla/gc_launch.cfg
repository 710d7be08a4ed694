SPECIFICATION FairSpec
CONSTANTS
  Mutator = {m1, m2, m3}
  InScope = {m1}
  GC = {g1, g2, g3}
  NumRegions = 6
  LowFree = 1
  HighFree = 2
  AlmostEmptyFree = 0
  MaxPick = 2
  NULL = NULL
INVARIANTS
  TypeOK
  OneMaster
  FewSpawned
  NoLostWakeup
PROPERTIES
  CollectionWakes
CHECK_DEADLOCK FALSE
