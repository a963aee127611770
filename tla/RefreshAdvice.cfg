CONSTANTS
    Day = {1}
    Slot = {s1}
    SourceLimit = 2
    VersionLimit = 2
SPECIFICATION SpecAdvice
CHECK_DEADLOCK FALSE
PROPERTIES
    AdviceCanBeFollowed
