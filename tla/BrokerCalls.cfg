SPECIFICATION Spec
CONSTANTS
    a1 = a1
    a2 = a2
    Calls = {c1, c2, c3}
    Kinds = {"execute", "executeWait", "executeApproved"}
    Aliases = {a1}
    Blank = Blank
    BatchTargets <- NoLists
    Safe = {}
    Risky = {risky}
    Malformed = {}
    Policies = {"enforce"}
    AuditFailClosed = FALSE
    Concurrency = 1
    Ids = {i1}
    Code = Code
    NoCode = NoCode
    Erased = Erased
    NoId = NoId
    TTL = 1
    MaxStoreEntries = 1
    Horizon = 2
SYMMETRY Symmetry
INVARIANTS
    ApprovalRunsOnce
    RunIsAudited
    UnauditedApprovalDead
