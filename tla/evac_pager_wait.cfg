CONSTANTS
  Ptr = {p1, p2, p3}
  Vanilla = {}
  Region = {r1, r2}
  SlotsPerRegion = 1
  Core = {c1}
  Mutator = {m1}
  Reallocator = {}
  Prefetcher = {}
  Pager = {g1}
  Slave = {s1}
  Value = {v1}
  LowFree = 0
  HighFree = 1
  AlmostEmptyFree = 0
  MaxPick = 1
  MaxIds = 0
  JunkId = junk
  NULL = null
SPECIFICATION FairSpec
CHECK_DEADLOCK FALSE
CONSTRAINT UntilForeignFetch
PROPERTIES
  MutatorsObserve
