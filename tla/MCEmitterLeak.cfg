CONSTANTS
    Handlers = {h1, h2, h3}
    Symbols = {s1, s2}
    Null = null
    DeleteFlag = 128
    MaxDepth = 2
SPECIFICATION DeliverySpec
SYMMETRY Symmetry
INVARIANTS
    RemovedIsDeleted
CHECK_DEADLOCK FALSE
