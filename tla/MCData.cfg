CONSTANTS
    Buffers = {b}
    Mutables = {m, n}
    Blocks = {B1, B2, B3}
    Static = Static
    None = None
    Bytes = {0, 1}
    SizeT = 3
    MinCapacity = 1
    MaxSize = 2
    MaxLength = 3
    Sizes = {0, 1, 2}
    Encodings = {"chunked"}
    BareEnd = FALSE
    BothHeaders = FALSE
    MaxBufs = 2
    MaxBody = 4
    InputBytes = {0, 37, 43, 52, 65, 243}
    FreeBytes = 4
    MaxInput = 26
    Bases = {2, 3, 8, 10, 16, 32, 36}
    LogBelow <- MCLogBelow
    MaxDigits = 4
    BlockSize = 16
SYMMETRY MCSymmetry
SPECIFICATION MCSpec
INVARIANTS
    BodyReadable
    TextExact
    DigestExact
PROPERTIES
    BuffersSafe
    OutgoingSafe
    ImplementsValues
CHECK_DEADLOCK FALSE
