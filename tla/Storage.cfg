CONSTANTS
    Process = {p1, p2, p3}
    Backup = {monday, tuesday}
    Latest = 3
    CommitLimit = 2
SPECIFICATION Spec
SYMMETRY Symmetry
INVARIANTS
    ReportedCopyIsWhole
    ServedIsComplete
PROPERTIES
    NothingIsLost
