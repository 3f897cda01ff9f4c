SPECIFICATION FairSpec
CONSTANTS
    Order = {o1, o2}
    NoOrder = NoOrder
    Box = {b}
    PathBBox = {b}
    NoBox = NoBox
    OrderEventsWired = TRUE
    MaxBars = 1
    Target = 1
    TimesComparable = FALSE
    RetryCount = 1
    MaxDecisions = 1
    MaxCrashes = 0
PROPERTIES
    MorningComes
CHECK_DEADLOCK FALSE
