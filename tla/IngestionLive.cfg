\* Two documents side by side, one of them flat, under fair workers: what one
\* task cleans up, claims or completes is its own document, and every task ends.
SPECIFICATION FairSpec
CONSTANTS
  d1 = d1
  d2 = d2
  t1 = t1
  t2 = t2
  Docs = {d1, d2}
  Tasks = {t1, t2}
  TaskDoc <- TwoDocuments
  Hierarchical = {d1}
  Batches = 2
  MaxRetries = 1
  UpsertAttempts = 2
  FaultKinds = {"crash", "kill", "cleanup", "lose", "late"}
  MaxFaults = 1
INVARIANT CompleteIsWhole
PROPERTIES
  EveryTaskEnds
  CompleteBecomesSearchable
CHECK_DEADLOCK FALSE
