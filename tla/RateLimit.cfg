\* Four calls around a limit of two, over a clock that outlasts the window.
SPECIFICATION Spec
CONSTANTS
  Calls = {c1, c2, c3, c4}
  NoBucket = NoBucket
  Limit = 2
  Window = 1
  MaxClock = 3
SYMMETRY MCSymmetry
INVARIANTS
  TypeOK
  AdmittedIsCounted
  OvershootIsOnePerCall
  RefusedOnlyAtLimit
CHECK_DEADLOCK FALSE
