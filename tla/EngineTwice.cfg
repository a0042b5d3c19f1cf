SPECIFICATION Spec
CONSTANTS
    Runs = {r1, r2}
    Protocols = {p1}
    Backends = {b1}
    Slots = {s1, s2}
    QueueSize = 1
    DecodedSize = 1
    MaxFrames = 1
    None = None
INVARIANTS
    RunsUntilTold
CHECK_DEADLOCK FALSE
