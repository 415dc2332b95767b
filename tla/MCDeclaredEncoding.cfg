CONSTANTS
    MaxLength = 3
    Sizes = {0, 1, 2}
    Encodings = {"chunked", "list"}
    BareEnd = FALSE
    BothHeaders = FALSE
    MaxBufs = 2
    MaxBody = 4
SPECIFICATION OutgoingSpec
INVARIANTS
    DeclaredEncoding
CHECK_DEADLOCK FALSE
