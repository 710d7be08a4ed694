SPECIFICATION CollectorSpec
CONSTANTS
  Size = 11
  KSize = 4
  Core = {c1}
  NumSocket1CPUs = 1
  Region = {r1, r2, r3}
  MaxRetry = 0
  Slots = 2
  MaxPins = 2
  MaxFrom = 2
  NULL = NULL
PROPERTIES
  NtNotBlocked
  FrontCollected
  KindsKept
  ImplementsPool
