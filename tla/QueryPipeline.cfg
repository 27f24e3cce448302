\* Two requests, of one tenant or of two, asking the same or not; fair workers.
SPECIFICATION FairSpec
CONSTANTS
  r1 = r1
  acme = acme
  q1 = q1
  Requests = {r1, r2}
  Tenants = {acme, globex}
  Questions = {q1, q2}
  MaxRetries = 1
  NaN = NaN
  Garbage = Garbage
  RawScores <- MCRawScores
CONSTRAINT FirstAsks
INVARIANTS
  TypeOK
  NoSilentDoubt
  NoticeIsDeserved
  AnswerFromLastAttempt
  LiveDataIsFresh
  CacheStaysInTenant
PROPERTY EveryQuestionAnswered
CHECK_DEADLOCK FALSE
