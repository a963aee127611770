CONSTANTS
    t1 = t1
    w1 = w1
    w2 = w2
    Task = {t1}
    Event = {1}
    Worker = {w1, w2}
    Window <- DayWindows
    Request <- EventRequests
    Slots = 1
    EventLimit = 2
    SourceLimit = 2
    VersionLimit = 2
SPECIFICATION FairSpec
PROPERTIES
    FewStoredAreKept
    OneSnapshot
    BusyPlannerRecovers
