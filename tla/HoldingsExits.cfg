SPECIFICATION Spec
CONSTANTS
    MaxPos = 2
    Order = {o1, o2}
    NoOrder = NoOrder
    Price <- TwoPrices
    SellRetries = 1
    QueryAwaited = TRUE
    BalanceParsed = TRUE
    BuyPath = {"SYSTEM_A"}
    BuyQty = {3}
    MaxBuys = 1
    MaxUpsets = 1
SYMMETRY OrderSymmetry
INVARIANTS
    StopOnLadder
    BookedWithinSold
PROPERTIES
    ImplementsContract
CHECK_DEADLOCK FALSE
