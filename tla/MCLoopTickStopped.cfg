CONSTANTS
    Callbacks = {c1, c2}
SPECIFICATION Spec
PROPERTIES
    EmptyForNextIteration
CHECK_DEADLOCK FALSE
