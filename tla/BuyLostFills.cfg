SPECIFICATION FairSpec
CONSTANTS
    Order = {o1, o2, o3}
    NoOrder = NoOrder
    Box = {b}
    PathBBox = {b}
    NoBox = NoBox
    OrderEventsWired = TRUE
    MaxBars = 1
    Target = 2
    TimesComparable = TRUE
    RetryCount = 1
    MaxDecisions = 1
    MaxCrashes = 0
PROPERTIES
    FillsPersisted
CHECK_DEADLOCK FALSE
