SPECIFICATION Spec
CONSTANTS
    Terminals = {t1, t2}
    Aliases = {a1, a2}
    MaxChanges = 3
    MaxCommands = 5
    MaxKeys = 1
    None = None
SYMMETRY Symmetry
CHECK_DEADLOCK FALSE
INVARIANTS
    CodeOpensRecovery
