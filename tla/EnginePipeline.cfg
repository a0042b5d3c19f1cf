SPECIFICATION Spec
CONSTANTS
    Runs = {r1}
    Protocols = {p1, p2}
    Backends = {b1, b2}
    Slots = {s1, s2, s3, s4}
    QueueSize = 1
    DecodedSize = 1
    MaxFrames = 4
    None = None
SYMMETRY Symmetry
INVARIANTS
    BuffersOwned
    DrainedOnReturn
    NoPanic
CHECK_DEADLOCK FALSE
