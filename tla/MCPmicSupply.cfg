SPECIFICATION FairSpec
CONSTANTS
    PRESS_SHORT_MS = 1
    PRESS_MEDIUM_MS = 2
    INT_HALF = 3
    FaultyLdos <- OneFaulty
    ReadySets <- SomeReady
    PromptWorker = FALSE
    MaxUptime = 1
INVARIANT RailsFollowGesture
PROPERTY SupplyTracked
