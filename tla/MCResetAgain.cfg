CONSTANTS
    Kinds = {"open", "none"}
    MaxRefs = 1
    MaxCaptures = 0
    MaxPending = 0
    MaxCalls = 5
SPECIFICATION CarelessSpec
INVARIANTS
    ReleaseHasUse
CHECK_DEADLOCK FALSE
