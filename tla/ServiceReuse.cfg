SPECIFICATION AttributesSpec
CONSTANTS
    Protocols = {"LLDP", "CDP", "MNDP", "MDNS"}
    Frames <- MCFrames
    Packets <- MCPackets
    Earlier <- MCEarlier
    MaxDecodes = 2
    MaxLabels = 2
    MaxNameSize = 6
    MaxRecords = 2
    AddressBits = 8
    FirstBits = 3
    BucketBits = 4
    L = 5
    M = 6
    S = 7
    Registries <- MCRegistries
    KnownVendors <- MCKnownVendors
    ProtocolsAll = {"LLDP", "CDP", "MNDP", "MDNS"}
    MaxClassification = 3
    MaxRegexRules = 2
    Fold <- MCFold
    MaxAlternatives = 2
    Networks <- MCNetworks
    MaxSeconds = 2
INVARIANT
    PortsFromRecords
CHECK_DEADLOCK FALSE
