SPECIFICATION Spec
CONSTANTS
    Blocks = 2
    MaxFrames = 5
    Busy = {"e0"}
    Unfit = {2}
    Stores <- MCStores
    Heights = {13, 14, 15}
    Scenarios <- MCScenarios
    Defaults <- MCDefaults
    MaxFrameRange <- MCFrameRange
    MaxAltRange <- MCAltRange
INVARIANTS
    CaptureReleased
    RingIntact
    ScreenShowsStore
PROPERTIES
    QuitEnds
CHECK_DEADLOCK FALSE
