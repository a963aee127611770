CONSTANTS
    User = {ann, bob, cy}
    Registered = {ann, bob}
    Client = {c1, c2}
    Page = {p1, p2}
    Limit = 1
    Window = 2
    Delay = 1
    TableLimit = 1
    Slots = 1
    Lifetime = 2
    LastTime = 2
    TokenLimit = 2
SPECIFICATION Spec
CHECK_DEADLOCK FALSE
SYMMETRY Symmetry
INVARIANTS
    TypeOK
    AttemptsBounded
    ChangesReachOwnAccount
PROPERTIES
    RefusedForCause
