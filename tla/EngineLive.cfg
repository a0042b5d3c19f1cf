SPECIFICATION FairSpec
CONSTANTS
    Runs = {r1, r2}
    Protocols = {p1}
    Backends = {b1}
    Slots = {s1, s2}
    QueueSize = 1
    DecodedSize = 1
    MaxFrames = 2
    None = None
INVARIANTS
    CancelIsActive
PROPERTIES
    CanceledReturns
    QueuedIsDecoded
CHECK_DEADLOCK FALSE
