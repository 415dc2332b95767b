CONSTANTS
    Kinds = {"open", "none"}
    MaxRefs = 2
    MaxCaptures = 1
    MaxPending = 1
    MaxCalls = 5
SPECIFICATION FairSpec
INVARIANTS
    TypeOK
    RefCountExact
    NoUseAfterFree
PROPERTIES
    DestroyedIsDeleted
    UnusedIsDeleted
CHECK_DEADLOCK FALSE
