CONSTANTS
  Ptr = {p1, p2}
  Vanilla = {p1}
  Region = {r1, r2, r3}
  SlotsPerRegion = 1
  Core = {c1}
  Mutator = {m1}
  Reallocator = {m1}
  Prefetcher = {}
  Pager = {}
  Slave = {s1}
  Value = {v1, v2}
  LowFree = 1
  HighFree = 2
  AlmostEmptyFree = 0
  MaxPick = 1
  MaxIds = 1
  JunkId = junk
  NULL = null
SPECIFICATION Spec
SYMMETRY Symmetry
CONSTRAINT NewIdsLast
INVARIANTS
  RegionsPartitioned
  ReleaseUnreferenced
PROPERTIES
  ImplementsMemory
  ImplementsPool
