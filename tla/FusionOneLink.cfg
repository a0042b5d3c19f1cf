SPECIFICATION Spec
CONSTANTS
    MaxDevices = 2
    MaxLinks = 2
    MaxDNSRecords = 2
    Second = 2
    Ifaces = {1, 2}
    MACs = {"m1"}
    IPs = {"v4", "v6", "a6"}
    NoMAC = "none"
    NoIP = "none"
    Records = {"r1", "r2"}
    RRSetOf <- MCRRSetOf
    Scenarios <- UDPNetwork
    Classify <- MCClassify
INVARIANTS
    OneLinkPerKey
CHECK_DEADLOCK FALSE
