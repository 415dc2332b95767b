CONSTANTS
    Kinds = {"open"}
    MaxRefs = 1
    MaxCaptures = 1
    MaxPending = 4
    MaxCalls = 4
    Patient = FALSE
    MaxWrites = 2
    Sizes = {0, 1, 2}
    LWM = 2
    HWM = 2
    Pieces = {"Upgrade", "upgrade"}
    Values = {"v", "w", ""}
    Lowered <- MCLowered
    MaxPieces = 6
    MaxMessages = 2
SPECIFICATION MCSpec
INVARIANTS
    RequestsExact
    LevelExact
    EofIsAnswered
PROPERTIES
    NothingAfterEnd
    MessageExact
CHECK_DEADLOCK FALSE
