CONSTANTS
    t1 = t1
    t2 = t2
    Task = {t1}
    Schedule = {s1}
    RequestId = {r1, r2, r3, r4, r5, r6}
    Shape <- OneShape
    Horizon <- OneDay
    Layout <- EditLayouts
    DayLength = 2
    LastMinute = 2
    HistoryLimit = 3
    VersionLimit = 5
    SourceLimit = 1
SPECIFICATION Spec
SYMMETRY Symmetry
CHECK_DEADLOCK FALSE
INVARIANTS
    TypeOK
    CurrentIsStored
    HistoryBounded
    OneReceiptPerVersion
    HistoryWasSent
    HonestPast
PROPERTIES
    VersionIsToken
    UndoRedoInverse
    ProtectedBlocksStay
