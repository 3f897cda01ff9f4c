SPECIFICATION Spec
CONSTANTS
    MaxPos = 2
    Order = {o1}
    NoOrder = NoOrder
    Price <- OnePrice
    SellRetries = 1
    QueryAwaited = TRUE
    BalanceParsed = FALSE
    BuyPath = {"SYSTEM_A"}
    BuyQty = {1}
    MaxBuys = 1
    MaxUpsets = 1
PROPERTIES
    RestartKeepsHoldings
CHECK_DEADLOCK FALSE
