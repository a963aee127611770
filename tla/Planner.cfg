CONSTANTS
    Request <- RequestsOfAllKinds
    Size = 6
    DayLength = 6
    MaxBlocks = 4
    Budget = 14
    Delay <- Delays
SPECIFICATION Spec
CHECK_DEADLOCK FALSE
INVARIANTS
    PreviewCanBeSaved
    NothingBeforeNow
    AllOrNothing
    PreviousFirst
    PlanIsStable
PROPERTIES
    Terminates
