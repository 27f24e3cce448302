\* Rating an answer by its query_id.
SPECIFICATION Spec
CONSTANTS
  Queries = {q1}
  Submissions = {f1}
  Workers = {w1, w2}
  TuneEveryN = 2
  Window = 3
  StartTopK <- MCStartTopK
INVARIANT AnswersCanBeRated
CHECK_DEADLOCK FALSE
