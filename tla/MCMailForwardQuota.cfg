\* Two external forwards of one received mail and a daily limit of one: the
\* second forward waits for the next day, or the first one fails.
SPECIFICATION Spec
CONSTANTS
  w1 = w1  w2 = w2  q1 = q1  q2 = q2  o1 = o1
  NoOrigin = NoOrigin
  NoWorker = NoWorker
  Rows = {q1, q2}
  Workers = {w1, w2}
  Origins = {o1}
  OriginOf <- AllForwardO1
  KeepOriginal = {}
  MaxRetry = 1
  Limit = 1
  MaxMX = 2
  MaxToken = 2
  MaxManual = 1
  MaxDsn = 0
  MaxDay = 1
SYMMETRY WorkerSymmetry
INVARIANTS
  OriginalDeletedAfterForward
  DailyLimit
