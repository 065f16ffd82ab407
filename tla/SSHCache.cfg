SPECIFICATION Spec
CONSTANTS
    Calls = {c1, c2, c3}
    Keys = {k1}
    key <- MCKey
    MaxCloses = 1
    MaxDials = 2
    MaxLate = 1
    MaxTimeouts = 1
    None = None
CHECK_DEADLOCK FALSE
SYMMETRY Symmetry
INVARIANTS
    NoLeak
    NoDeadEntry
    NoOldGeneration
