SPECIFICATION Spec
CONSTANTS
    c1 = c1
    c2 = c2
    c3 = c3
    Conn <- TwoConns
    NULL = NULL
INVARIANT ObjectsComeBack
CHECK_DEADLOCK FALSE
