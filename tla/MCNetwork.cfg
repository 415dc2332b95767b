CONSTANTS
    N = 4
    Conns = {c1, c2}
    MessagesKept = TRUE
    Threads = {t1, t2}
    Timeout = 1
    Modulus = 16
    MaxTime = 4
    DatagramSizes = {0, 1}
    MaxDatagrams = 4
    Owners = {o1, o2}
    Members = {x, y}
    Pointers = {p, q, r}
    Null = Null
    MaxRequests = 1
    MaxLost = 1
SPECIFICATION MCSpec
INVARIANTS
    UdpSafe
    PointersSafe
PROPERTIES
    ConnectSafe
    Answered
    ServerSafe
    AnsweredIsClosed
    DatesSafe
    DroppedIsDeleted
CHECK_DEADLOCK FALSE
