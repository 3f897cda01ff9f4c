SPECIFICATION FairSpec
CONSTANTS
    MaxPos = 3
    Order = {o1}
    NoOrder = NoOrder
    Price <- OnePrice
    SellRetries = 1
    QueryAwaited = TRUE
    BalanceParsed = TRUE
    BuyPath = {"SYSTEM_A", "SYSTEM_B"}
    BuyQty = {1, 2}
    MaxBuys = 2
    MaxUpsets = 1
INVARIANTS
    TypeOK
PROPERTIES
    ManualFirst
    DrainExact
    OverstatedHeals
CHECK_DEADLOCK FALSE
