\* What becomes of a key nobody calls with any more.
SPECIFICATION FairSpec
CONSTANTS
  Calls = {c1, c2}
  NoBucket = NoBucket
  Limit = 2
  Window = 1
  MaxClock = 3
PROPERTY EmptyKeysAreEvicted
CHECK_DEADLOCK FALSE
