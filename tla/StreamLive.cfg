SPECIFICATION FairSpec
CONSTANTS
    Keys = {k1, k2}
    Telling = {}
    Fields = {}
    MaxPending = 1
    CompactAt = 0
    MaxHistory = 3
    NoEvent = NoEvent
    Says <- MCSays
PROPERTIES
    Delivered
    StreamEnds
    ImplementsConflation
CHECK_DEADLOCK FALSE
