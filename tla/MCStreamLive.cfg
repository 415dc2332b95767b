CONSTANTS
    Kinds = {"open"}
    MaxRefs = 1
    MaxCaptures = 0
    MaxPending = 4
    MaxCalls = 4
    Patient = TRUE
    MaxWrites = 2
    Sizes = {1}
    LWM = 0
    HWM = 2
    Pieces = {}
    Values = {}
    Lowered <- MCLowered
    MaxPieces = 0
    MaxMessages = 0
SPECIFICATION MCLiveSpec
PROPERTIES
    FloodEndsWithDrain
    EofDestroys
    FloodSubsides
CHECK_DEADLOCK FALSE
