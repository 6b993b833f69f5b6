SPECIFICATION FairSpec
CONSTANTS
    Texts = {a}
    Files = {f}
    Handlers = {h1, h2}
    Schedulers = {s1}
    Start = 1
    End = 2
    MaxVersion = 4
    Horizon = 2
INVARIANTS
    VersionTellsRow
    GroupFollowsStatus
    HistoryIsComplete
PROPERTIES
    FormIsFrozen
    OnlyLegalMoves
    PublishedEnds
CHECK_DEADLOCK FALSE
