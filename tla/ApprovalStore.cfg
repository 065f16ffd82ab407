SPECIFICATION FairSpec
CONSTANTS
    Ids = {a1, a2}
    Requests = {r1, r2}
    Codes = {c1}
    Waiters = {w1, w2}
    Erased = Erased
    NoCode = NoCode
    NoId = NoId
    TTL = 1
    MaxStoreEntries = 1
    Horizon = 2
INVARIANTS
    TypeOK
    SingleUse
    GrantBoundToRequest
    AuthorisedInTime
    WaiterToldTheVerdict
    TombstoneRetained
    WithinCapacity
PROPERTIES
    DecisionFinal
    WaitReturns
    ImplementsLifecycle
