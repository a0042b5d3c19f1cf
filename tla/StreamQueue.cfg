SPECIFICATION Spec
CONSTANTS
    Keys = {k1, k2, k3}
    Telling = {k1}
    Fields = {f1}
    MaxPending = 2
    CompactAt = 1
    MaxHistory = 2
    NoEvent = NoEvent
    Says <- MCSays
SYMMETRY Symmetry
INVARIANTS
    TypeOK
    QueueInv
    NoLostWakeup
    InOrder
    Fresh
    ChangesCovered
CHECK_DEADLOCK FALSE
