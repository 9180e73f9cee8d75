SPECIFICATION ReplaySpec
CONSTANTS
    MaxDay = 6
    MaxPrice = 3
    Lookback = 5
    PlatformDays = 2
    InvalidGap = 1
    BreakGap = 1
    AboveGap = 0
    TriggerGap = 0
    NearGap = 1
    None = None
INVARIANTS
    SignalAccepted
    FrozenInOrder
    EntryAboveInvalid
    LivesDisjoint
PROPERTIES
    YesterdaysLevels
    RefinesLifecycle
    ClosedStaysClosed
CHECK_DEADLOCK FALSE
