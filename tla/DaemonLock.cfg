SPECIFICATION Spec
CONSTANTS
    Handlers = {h1, h2}
    Methods = {"lock", "unlock"}
    None = None
    Keys = {k1}
    Values = {v1}
CHECK_DEADLOCK FALSE
INVARIANTS
    LockedMeansCleared
