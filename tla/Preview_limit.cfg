CONSTANTS
    t1 = t1
    w1 = w1
    Task = {t1}
    Event = {1, 2, 3}
    Worker = {w1}
    Window <- FullWindows
    Request <- OneRequest
    Slots = 1
    EventLimit = 2
    SourceLimit = 1
    VersionLimit = 2
SPECIFICATION Spec
PROPERTIES
    AllStoredAreKept
