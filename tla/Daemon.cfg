SPECIFICATION FairSpec
CONSTANTS
    Handlers = {h1, h2}
    Methods = {"lock", "unlock", "stop", "configure", "execute"}
    None = None
    Keys = {k1}
    Values = {v1, v2}
CHECK_DEADLOCK FALSE
INVARIANTS
    StatusTrue
    SettingsAgree
    ExitIsClean
PROPERTIES
    StopEnds
