CONSTANTS
    Kinds = {"none"}
    MaxRefs = 1
    MaxCaptures = 1
    MaxPending = 0
    MaxCalls = 4
SPECIFICATION Spec
INVARIANTS
    UnusedWhenDeleted
CHECK_DEADLOCK FALSE
