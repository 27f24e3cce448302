\* One document submitted twice, crashes and late upserts.
SPECIFICATION Spec
CONSTANTS
  d1 = d1
  d2 = d2
  t1 = t1
  t2 = t2
  Docs = {d1}
  Tasks = {t1, t2}
  TaskDoc <- OneDocument
  Hierarchical = {d1}
  Batches = 2
  MaxRetries = 1
  UpsertAttempts = 2
  FaultKinds = {"gate", "crash", "kill", "dlq", "cleanup", "late", "lateDelete", "lose"}
  MaxFaults = 2
SYMMETRY MCSymmetry
INVARIANTS
  TypeOK
  ParentsBeforePoints
  CompleteIsWhole
  CompleteIsExact
  SuccessMeansComplete
PROPERTIES
  CompleteIsPermanent
  ImplementsStore
CHECK_DEADLOCK FALSE
