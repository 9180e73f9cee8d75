SPECIFICATION Spec
CONSTANTS
    Codes = {"member", "steady", "other", "listed"}
    MainBoard = {"member", "steady", "listed"}
    RootCloses <- RootRows
    Histories <- FourCodes
    Sessions = {1, 2, 3}
    Recent = 2
    Tolerance = 1
    LimitTolerance = 1
    Faults = {"unexpected", "differs"}
    Failing = {{}, {"member"}}
    MaxBatch = 2
    MaxFaults = 1
    MaxSnapshots = 2
    NoTrade = NoTrade
    NoPrice = NoPrice
    NoCandidate = NoCandidate
INVARIANTS
    PublishedChain
    MembersCovered
    PoolIsLimitCloses
CHECK_DEADLOCK FALSE
