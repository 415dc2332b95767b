CONSTANTS
    Handlers = {h1, h2, h3, h4}
    Symbols = {s1, s2}
    Null = null
    DeleteFlag = 128
    MaxDepth = 3
SPECIFICATION DeliverySpec
SYMMETRY Symmetry
INVARIANTS
    NoUseAfterFree
    RefCountExact
    WellFormed
PROPERTIES
    AbstractSpec
    Delivery
CHECK_DEADLOCK FALSE
