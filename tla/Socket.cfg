SPECIFICATION FairSpec
CONSTANTS
    Daemons = {d1, d2}
    Terminals = {t1, t2}
    Inodes = {i1, i2}
    MaxStarts = 4
    None = None
CHECK_DEADLOCK FALSE
INVARIANTS
    PathServed
    PathCleared
    StartTruthful
PROPERTIES
    StartServes
