SPECIFICATION Spec
CONSTANTS
    PRESS_SHORT_MS = 1
    PRESS_MEDIUM_MS = 2
    INT_HALF = 3
    FaultyLdos = {}
    ReadySets <- NoLeds
    PromptWorker = TRUE
    MaxUptime = 4
INVARIANT ShipNeedsLongHold
