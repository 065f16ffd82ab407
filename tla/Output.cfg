SPECIFICATION Spec
CONSTANTS
    Lookahead = 1
    MarkerBytes = 2
    MaxFrame = 45
    SingleBytes = 10
    BatchBytes = 4
    ResultBytes = 2
    AnyLength = 4
    UrlLength = 6
    PairLength = 3
    Jobs <- TestJobs
    Others <- TestOthers
    Pending = Pending
CHECK_DEADLOCK FALSE
INVARIANTS
    StreamAgrees
    CredentialHidden
    CountsMatch
    FrameFits
    TruncationReported
    FairShare
