\* Two maildrops whose servers use the same identifier, an edited account.
SPECIFICATION Spec
CONSTANTS
    w1 = w1  w2 = w2  m1 = m1  m2 = m2  m3 = m3  b1 = b1  b2 = b2
    NoBox = NoBox
    Workers = {w1}
    Messages = {m1, m2}
    Boxes = {b1, b2}
    BoxOf <- TwoBoxes
    UidlOf <- SameUidl
    Batch = 1
    MaxJobs = 1
    MaxUpdates = 1
INVARIANTS
    DeletedWasImported
