\* Expected violation: a gateway of both families.
SPECIFICATION Spec
CONSTANTS
    a1 = a1
    a2 = a2
    b1 = b1
    b2 = b2
    NoIP = NoIP
    IPs4 <- TwoIPv4
    IPs6 <- TwoIPv6
    fouName <- DistinctNames
    Local <- Dual
    MaxFaults = 0
INVARIANTS
    DevicePerFamily
