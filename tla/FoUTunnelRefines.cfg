\* A network namespace with an IPv6 address and peers of both families; calls
\* that fail half-way.
SPECIFICATION Spec
CONSTANTS
    a1 = a1
    a2 = a2
    b1 = b1
    b2 = b2
    NoIP = NoIP
    IPs4 <- TwoIPv4
    IPs6 <- TwoIPv6
    fouName <- DistinctNames
    Local <- OnlyV6
    MaxFaults = 2
INVARIANTS
    SingleStackReady
PROPERTIES
    ImplementsTunnels
    CreatedReady
