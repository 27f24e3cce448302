\* Which rows of the training data the citations of an answer flag.
SPECIFICATION Spec
CONSTANTS
  q1 = q1
  q2 = q2
  p1 = p1
  p2 = p2
  p3 = p3
  p4 = p4
  Queries = {q1, q2}
  QueryTenant <- MCQueryTenant
  Points = {p1, p2, p3, p4}
  PointTenant <- MCPointTenant
  PointFile <- MCPointFile
  Copies <- MCCopies
  Params <- MCParams
  ScoreValues = {10, 90}
  MaxRetries = 1
CONSTRAINT OneRetry
INVARIANT OnlyCitedRowsAreFlagged
CHECK_DEADLOCK FALSE
