CONSTANTS
    Request = {"a", "r"}
    Content <- SmallContent
    Pattern <- SmallPattern
    Day = {1, 2, 3}
    Week = 3
    Missing = {4}
    MaxVersion = 3
    Call <- AllCalls
    Worker = {w1, w2}
SYMMETRY Workers
CONSTRAINT OneKind
SPECIFICATION Spec
CHECK_DEADLOCK FALSE
INVARIANTS
    OneOccurrencePerDay
PROPERTIES
    EditsApplyToCurrent
    OccurrencesFollowPattern
    MaterializeIsComplete
    BookKept
