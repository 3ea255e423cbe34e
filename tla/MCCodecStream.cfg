SPECIFICATION FairSpec
CONSTANTS
    NumRegs = 3
    Repeats = 3
    TxBlocks = 2
    Builds <- EdgeBuilds
INVARIANTS
    TypeOK
    WriteFindsRoom
    NoOkWithoutDrop
    SentWholeOnce
    PllInTune
PROPERTIES
    TableSteady
    CommandReturns
