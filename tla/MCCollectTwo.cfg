\* Two workers, one maildrop of one message: claims, takeovers, lost quits.
SPECIFICATION Spec
CONSTANTS
    w1 = w1  w2 = w2  m1 = m1  m2 = m2  m3 = m3  b1 = b1  b2 = b2
    NoBox = NoBox
    Workers = {w1, w2}
    Messages = {m1}
    Boxes = {b1}
    BoxOf <- OneBox
    UidlOf <- OwnUidl
    Batch = 2
    MaxJobs = 1
    MaxUpdates = 0
SYMMETRY WorkerSymmetry
INVARIANTS
    TypeOK
    ImportedOnce
    DeletedWasImported
    RecordedDeletionHappened
    AttemptBudget
