\* No fault but transient errors.
SPECIFICATION Spec
CONSTANTS
  d1 = d1
  d2 = d2
  t1 = t1
  t2 = t2
  Docs = {d1}
  Tasks = {t1}
  TaskDoc <- OneDocument
  Hierarchical = {d1}
  Batches = 2
  MaxRetries = 1
  UpsertAttempts = 2
  FaultKinds = {}
  MaxFaults = 1
INVARIANT FailuresReachDLQ
CHECK_DEADLOCK FALSE
