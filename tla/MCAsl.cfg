SPECIFICATION Spec
CONSTANTS
    Codes = {"c1", "c2", "x"}
    Universe = {"c1", "c2"}
    Instruments = {"c1", "c2"}
    Listings <- ListingsOf
    ClosesOf <- Closes
    LastDay = 2
    MonthOf <- Months
    MaxOdd = 2
    NoBar = NoBar
    NoRow = NoRow
    NoDay = NoDay
    NoClose = NoClose
    Raised = Raised
    Windows <- WholeAndLast
    Requests <- ScopeOrStrange
    MaxBuilds = 1
    NoCodes = NoCodes
    NoBuild = NoBuild
INVARIANTS
    ReadersAgree
    WindowIndependent
    CandidateIsWhole
    OnlyDroppedAreBlamed
PROPERTIES
    NoHindsight
CHECK_DEADLOCK FALSE
