\* Every document of up to three sentences of four lengths; three chunks in two threads, batches of two.
SPECIFICATION Spec
CONSTANTS
  Documents <- MCDocuments
  Keywords <- MCKeywords
  Classifier = "haiku"
  ContextSizes = {150}
  Concurrency = 2
  BatchSize = 2
  MaxRetries = 2
  MaxChunks = 3
INVARIANTS
  TypeOK
  ChunksCoverDocument
  EverySentenceStored
  OwnVectors
CHECK_DEADLOCK FALSE
