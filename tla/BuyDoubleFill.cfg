SPECIFICATION FairSpec
CONSTANTS
    Order = {o1, o2}
    NoOrder = NoOrder
    Box = {a}
    PathBBox = {}
    NoBox = NoBox
    OrderEventsWired = TRUE
    MaxBars = 1
    Target = 1
    TimesComparable = TRUE
    RetryCount = 1
    MaxDecisions = 1
    MaxCrashes = 0
INVARIANTS
    NoDoubleFill
CHECK_DEADLOCK FALSE
