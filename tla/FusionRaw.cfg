SPECIFICATION Spec
CONSTANTS
    MaxDevices = 2
    MaxLinks = 2
    MaxDNSRecords = 1
    Second = 2
    Ifaces = {1, 2}
    MACs = {"m1", "m2", "m3"}
    IPs = {"v4", "v6", "a6"}
    NoMAC = "none"
    NoIP = "none"
    Records = {"r1", "r2"}
    RRSetOf <- MCRRSetOf
    Scenarios <- RawNetwork
    Classify <- MCClassify
INVARIANTS
    SlabsPartitioned
    LinkIndexComplete
    Timely
    ViewAgrees
PROPERTIES
    ExpiredIsExpired
CHECK_DEADLOCK FALSE
