SPECIFICATION Spec
CONSTANTS
  Size = 11
  KSize = 4
  Core = {c1, c2}
  NumSocket1CPUs = 1
  Region = {r1, r2, r3, r4, r5}
  MaxRetry = 0
  Slots = 1
  MaxPins = 1
  MaxFrom = 2
  NULL = NULL
SYMMETRY Symmetry
CONSTRAINT UntilMixed
INVARIANTS
  TypeOK
  BugOnlyWhenDry
PROPERTIES
  ImplementsPool
  RoundRobin
  KindsKept
