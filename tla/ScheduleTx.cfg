CONSTANTS
    Task = {1}
    Schedule = {"s1", "s2"}
    RequestId = {"a", "b", "d", "f"}
    Shape <- OneShape
    Horizon <- Days
    Layout <- Layouts
    DayLength = 2
    LastMinute = 1
    HistoryLimit = 2
    VersionLimit = 4
    SourceLimit = 2
    Worker = {w1, w2}
    Command <- Requests
SPECIFICATION TxSpec
CHECK_DEADLOCK FALSE
INVARIANTS
    CheckedStaysTrue
    RepliesAgree
PROPERTIES
    AtomicCommands
    CommandsEnd
