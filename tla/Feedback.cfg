\* Four ratings, two workers, tuning at every second rating.
SPECIFICATION Spec
CONSTANTS
  Queries = {q1}
  Submissions = {f1, f2, f3, f4}
  Workers = {w1, w2}
  TuneEveryN = 2
  Window = 3
  StartTopK <- MCStartTopK
SYMMETRY MCSymmetry
INVARIANTS
  TypeOK
  FunnelNarrows
  TuneSeesItsRows
  EveryNthTunes
PROPERTY TuneMovesOneStep
CHECK_DEADLOCK FALSE
