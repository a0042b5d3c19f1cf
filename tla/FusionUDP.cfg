SPECIFICATION Spec
CONSTANTS
    MaxDevices = 3
    MaxLinks = 2
    MaxDNSRecords = 2
    Second = 2
    Ifaces = {1, 2}
    MACs = {"m1"}
    IPs = {"v4", "v6", "a6"}
    NoMAC = "none"
    NoIP = "none"
    Records = {"r1", "r2"}
    RRSetOf <- MCRRSetOf
    Scenarios <- HostNetworks
    Classify <- MCClassify
INVARIANTS
    OwnershipAgrees
    IndexesSound
    EvidenceLive
    DNSTimely
    ServicesCurrent
PROPERTIES
    FactsKept
    DNSAtMostASecondEarly
CHECK_DEADLOCK FALSE
