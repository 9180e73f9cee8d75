SPECIFICATION StudySpec
CONSTANTS
    MaxDay = 4
    MaxPrice = 4
    Lookback = 4
    PlatformDays = 2
    InvalidGap = 1
    BreakGap = 1
    AboveGap = 0
    TriggerGap = 0
    NearGap = 1
    None = None
    HalfZone = 1
    PrepGap = 1
    Tick = 0
    MaxHoldingSessions = 3
    Horizons = {1, 2}
    PrepHorizons = {1, 2}
    ExitSessions = 3
    DownLimit = 1
    SessionBars <- MCSessionBars
    MaxSessions = 3
INVARIANTS
    StudyCompletes
    PaidWins
PROPERTIES
    ResultsFinal
    ExitsAgree
CONSTRAINT Fitting
VIEW Followed
CHECK_DEADLOCK FALSE
