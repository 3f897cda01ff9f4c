SPECIFICATION Spec
CONSTANTS
    Order = {o1, o2, o3}
    NoOrder = NoOrder
    Box = {b}
    PathBBox = {b}
    NoBox = NoBox
    OrderEventsWired = TRUE
    MaxBars = 0
    Target = 2
    TimesComparable = TRUE
    RetryCount = 1
    MaxDecisions = 1
    MaxCrashes = 1
INVARIANTS
    TriggerAtomic
    NoPhantomShares
    PositionWithinTarget
    RowsBehindBroker
PROPERTIES
    ImplementsContract
CHECK_DEADLOCK FALSE
