CONSTANTS
  Builder = {b1}
  NumItems <- ThreeItems
  ItemSize <- SizeTwo
  CacheSize = 5
  Word = 16
  Nobody = nobody
SPECIFICATION FairSpec
CHECK_DEADLOCK FALSE
INVARIANTS
  TypeOK
  PassAllOrNothing
  NoSwapBeforeReading
PROPERTIES
  RefsStableInPass
  ReadingBracketed
  RegistrationReturns
  StopQuiesces
  AbsentIsServed
