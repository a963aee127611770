CONSTANTS
    t1 = t1
    t2 = t2
    Task = {t1, t2}
    Schedule = {s1, s2}
    RequestId = {r1, r2, r3, r4}
    Shape <- BothShapes
    Horizon <- DaysAndBoth
    Layout <- ShareLayouts
    DayLength = 2
    LastMinute = 0
    HistoryLimit = 2
    VersionLimit = 3
    SourceLimit = 2
SPECIFICATION Spec
SYMMETRY Symmetry
CHECK_DEADLOCK FALSE
INVARIANTS
    OnePlanPerTask
    HorizonsApart
    FreshMeansValid
