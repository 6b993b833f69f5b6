SPECIFICATION Spec
CONSTANTS
    Conns = {c1, c2}
    QueueSize = 2
    Messages <- TwoMessages
    Reply = 0
    r1 = r1
    r2 = r2
    Requests = {r1, r2}
    ClientIds = {k1, k2}
    PageLimit = 1
    MaxWork = 3
    NoId = NoId
SYMMETRY Symmetric
INVARIANTS
    OpenStreamsAreWhole
    RetriesMeetTheirRow
    ReadersMissOnlyTheKnownGaps
CHECK_DEADLOCK FALSE
