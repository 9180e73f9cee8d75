SPECIFICATION FairSpec
CONSTANTS
    Requests <- IsolatedRequests
    MaxVersion = 2
    MaxFailures = 2
    MaxDeaths = 1
    None = None
    d1 = d1
    c1 = c1
    c2 = c2
    c3 = c3
CONSTRAINT
    OneCorrected
INVARIANTS
    DoneIsStored
    Accounted
    FetchedOnce
PROPERTIES
    PendingIsRetried
