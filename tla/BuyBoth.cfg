SPECIFICATION LoopSpec
CONSTANTS
    Order = {o1, o2}
    NoOrder = NoOrder
    Box = {a, b}
    PathBBox = {b}
    NoBox = NoBox
    OrderEventsWired = TRUE
    MaxBars = 1
    Target = 1
    TimesComparable = TRUE
    RetryCount = 0
    MaxDecisions = 2
    MaxCrashes = 0
INVARIANTS
    TypeOK
PROPERTIES
    TerminalBoxFinal
    CooldownBlocksOrders
    LoopReturns
CHECK_DEADLOCK FALSE
