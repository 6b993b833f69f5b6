SPECIFICATION Spec
CONSTANTS
    f1 = f1
    f2 = f2
    f3 = f3
    Files = {f1, f2, f3}
    Biz <- ThreeKinds
    Tasks = {t1, t2, t3}
    NoFile = NoFile
SYMMETRY Symmetric
INVARIANTS
    FilesInUseExist
    ReferencesFollowUse
    HistoryTellsStatus
CHECK_DEADLOCK FALSE
