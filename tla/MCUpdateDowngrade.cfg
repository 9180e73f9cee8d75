SPECIFICATION Spec
CONSTANTS
    Bars = {0, 1, 2}
    Precloses = {0, 2}
    Tolerance = 1
    NoPrice = NoPrice
    Dates = {1, 2, 3, 4}
    Sessions = {1, 2, 4}
    Oldest = 1
    First = 1
    Window = 1
    Adjusted = {2}
    Asked = {"TUSHARE", "AKSHARE"}
    Given <- RevisedRows
    Offers <- StartOffers
    Backfills <- BackfillAll
    Promotable = {}
    MaxRevisions = 1
    MaxGaps = 1
    MaxDeaths = 1
    NoRow = NoRow
    NoRun = NoRun
PROPERTY
    NeverDowngraded
CHECK_DEADLOCK FALSE
