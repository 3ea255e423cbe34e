SPECIFICATION FairSpec
CONSTANTS
    Displays <- SomeDisplays
    Duties <- SomeDuties
    Period = 390625
    Wrap = 429496730
    Heap = 4096
INVARIANTS
    TypeOK
    EveryLineOnce
    BufferHolds
    NothingHeld
    LitAsAsked
PROPERTY DrawingEnds
