SPECIFICATION Spec
CONSTANTS
    c1 = c1
    c2 = c2
    c3 = c3
    Conn <- ThreeConns
    NULL = NULL
INVARIANTS
    TypeOK
    RefsAccounted
    ShellHeld
    PoolNeverExhausted
PROPERTY SessionSpec
CHECK_DEADLOCK FALSE
