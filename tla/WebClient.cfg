CONSTANTS
    Day = {1, 2}
    Slot = {s1, s2}
    SourceLimit = 2
    VersionLimit = 3
SPECIFICATION Spec
SYMMETRY Symmetry
INVARIANTS
    ShownLayoutIsSaved
    SaveFormOverPreview
PROPERTIES
    NoBlindReplacement
