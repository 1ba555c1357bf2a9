\* Addresses that never change; calls that fail; a restart.
SPECIFICATION Spec
CONSTANTS
    p1 = p1
    p2 = p2
    a1 = a1
    a2 = a2
    u1 = u1
    NoPod = NoPod
    MyNS = "internet"
    MyName = "gw"
    Pods <- TwoPods
    IPs <- MixedIPs
    MaxAddrs = 2
    Supported <- OneIP
    PodSpecs <- AllSpecs
    StableAddresses = TRUE
    Faulty <- NotGet
    MaxFaults = 1
    MaxCrashes = 1
SYMMETRY PodSymmetry
INVARIANTS
    TypeOK
    ClientConnected
    QuietExact
    QuietGauge
PROPERTIES
    NeverCutsOther
