SPECIFICATION Spec
CONSTANTS
    Box = {b1, b2, b3}
    NoBox = NoBox
    Stock = Stock
    Web = {w1, w2}
    Engine = Engine
    Path = {A}
    PriceRange <- OneRange
    Size = {1}
    Cap = 3
INVARIANTS
    NoOverlap
CHECK_DEADLOCK FALSE
