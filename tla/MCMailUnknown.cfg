\* A DSN sends a result_unknown row again without confirmation.
SPECIFICATION Spec
CONSTANTS
    w1 = w1  w2 = w2  q1 = q1  q2 = q2  o1 = o1
    NoOrigin = NoOrigin
    NoWorker = NoWorker
    Rows = {q1}
    Workers = {w1, w2}
    Origins = {}
    OriginOf <- NoForwards
    KeepOriginal = {}
    MaxRetry = 2
    Limit = 0
    MaxMX = 1
    MaxToken = 3
    MaxManual = 1
    MaxDsn = 1
    MaxDay = 0
PROPERTIES
    UnknownNeedsConfirmation
