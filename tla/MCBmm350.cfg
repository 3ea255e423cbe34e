SPECIFICATION FairSpec
CONSTANTS
    Garbage = Garbage
    Fields <- ThreeFields
INVARIANTS
    TypeOK
    PrintedIsFresh
    OdrCacheHonest
PROPERTY CommandReturns
