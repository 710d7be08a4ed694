CONSTANTS
  Ptr = {p1, p2}
  Vanilla = {}
  Region = {r1, r2, r3}
  SlotsPerRegion = 1
  Core = {c1}
  Mutator = {m1}
  Reallocator = {}
  Prefetcher = {}
  Pager = {g1}
  Slave = {s1}
  Value = {v1, v2}
  LowFree = 1
  HighFree = 2
  AlmostEmptyFree = 0
  MaxPick = 1
  MaxIds = 0
  JunkId = junk
  NULL = null
SPECIFICATION Spec
SYMMETRY Symmetry
CONSTRAINT UntilForeignFetch
INVARIANTS
  HandleValid
  ReleaseUnreferenced
PROPERTIES
  ContentStable
