SPECIFICATION FairSpec
CONSTANTS
    c1 = c1
    b1 = b1
    b2 = b2
    NULL = NULL
    Conn <- OneConn
    Bits <- TwoBits
    Expected <- OneCleared
    ReadySets <- SomeReady
INVARIANTS
    TypeOK
    BootBeforeCommands
    OffCanWake
    GoodIsStored
    MismatchNeedsFault
    MotorStill
    PrintedIsFetched
    AwakeNeedsFault
PROPERTIES
    CommandEnds
CHECK_DEADLOCK FALSE
