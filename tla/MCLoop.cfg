CONSTANTS
    Senders = {p1, p2}
    MaxSends = 2
    Callbacks = {c1, c2, c3, c4}
SPECIFICATION MCSpec
INVARIANTS
    NoLostWakeup
    InOrder
    OnceInOrder
    WakeupKept
    OutsideNotLost
    DestructorCloses
PROPERTIES
    Delivered
    TicksRun
CHECK_DEADLOCK FALSE
