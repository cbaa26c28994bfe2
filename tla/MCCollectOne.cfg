\* One worker, one maildrop of three messages: failures, reopened sessions.
SPECIFICATION Spec
CONSTANTS
    w1 = w1  w2 = w2  m1 = m1  m2 = m2  m3 = m3  b1 = b1  b2 = b2
    NoBox = NoBox
    Workers = {w1}
    Messages = {m1, m2, m3}
    Boxes = {b1}
    BoxOf <- OneBox
    UidlOf <- OwnUidl
    Batch = 3
    MaxJobs = 1
    MaxUpdates = 0
SYMMETRY MessageSymmetry
INVARIANTS
    DeletedWasImported
PROPERTIES
    CompletedCollectedAll
