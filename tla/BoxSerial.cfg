SPECIFICATION Spec
CONSTANTS
    Box = {b1, b2}
    NoBox = NoBox
    Stock = Stock
    Web = {w1}
    Engine = Engine
    Path = {A, B}
    PriceRange <- ThreeRanges
    Size = {1, 2}
    Cap = 3
SYMMETRY BoxSymmetry
INVARIANTS
    NoOverlap
    WithinCap
    TrackingHasNoBox
CHECK_DEADLOCK FALSE
