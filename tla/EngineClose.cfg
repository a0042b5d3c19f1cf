SPECIFICATION FairSpec
CONSTANTS
    Runs = {r1}
    Protocols = {p1}
    Backends = {b1}
    Slots = {s1, s2}
    QueueSize = 1
    DecodedSize = 1
    MaxFrames = 1
    None = None
PROPERTIES
    CloseEndsRun
CHECK_DEADLOCK FALSE
