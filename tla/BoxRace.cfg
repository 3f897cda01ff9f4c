SPECIFICATION FairSpec
CONSTANTS
    Box = {b1, b2}
    NoBox = NoBox
    Stock = Stock
    Web = {w1, w2}
    Engine = Engine
    Path = {A}
    PriceRange <- OneRange
    Size = {1}
    Cap = 2
PROPERTIES
    ClosedBoxFrozen
    StopLeavesNoPosition
    TransactionsEnd
CHECK_DEADLOCK FALSE
