SPECIFICATION Spec
CONSTANTS
    c1 = c1
    b1 = b1
    b2 = b2
    NULL = NULL
    Conn <- OneConn
    Bits <- TwoBits
    Expected <- OneCleared
    ReadySets <- SomeReady
INVARIANT VerdictHonest
CHECK_DEADLOCK FALSE
