SPECIFICATION Spec
CONSTANTS
    Ids = {a1}
    Requests = {r1}
    Codes = {c1}
    Waiters = {w1}
    Erased = Erased
    NoCode = NoCode
    NoId = NoId
    TTL = 2
    MaxStoreEntries = 1
    Horizon = 3
INVARIANTS
    DeniedNeverGranted
