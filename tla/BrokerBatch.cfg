SPECIFICATION FairSpec
CONSTANTS
    a1 = a1
    a2 = a2
    Calls = {c1}
    Kinds = {"execute", "executeWait", "executeBatch", "executeBatchWait"}
    Aliases = {a1, a2}
    Blank = Blank
    BatchTargets <- Lists
    Safe = {safe}
    Risky = {risky}
    Malformed = {bad}
    Policies = {"enforce", "warn", "off"}
    AuditFailClosed = TRUE
    Concurrency = 1
    Ids = {i1}
    Code = Code
    NoCode = NoCode
    Erased = Erased
    NoId = NoId
    TTL = 1
    MaxStoreEntries = 1
    Horizon = 2
INVARIANTS
    RiskyNeedsGrant
    ResultTruthful
PROPERTIES
    CallReturns
