SPECIFICATION Spec
CONSTANTS
    PRESS_SHORT_MS = 1
    PRESS_MEDIUM_MS = 2
    INT_HALF = 3
    FaultyLdos = {}
    ReadySets <- AllReady
    PromptWorker = TRUE
    MaxUptime = 2
INVARIANT VbusFlagCurrent
