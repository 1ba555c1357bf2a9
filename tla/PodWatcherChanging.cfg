\* Single-stack pods whose addresses change; any call fails; a restart.
SPECIFICATION Spec
CONSTANTS
    p1 = p1
    p2 = p2
    a1 = a1
    a2 = a2
    u1 = u1
    NoPod = NoPod
    MyNS = "internet"
    MyName = "gw"
    Pods <- TwoPods
    IPs <- TwoIPs
    MaxAddrs = 1
    Supported <- TwoIPs
    PodSpecs <- ClientsOnly
    StableAddresses = FALSE
    Faulty <- Calls
    MaxFaults = 1
    MaxCrashes = 1
SYMMETRY PodSymmetry
INVARIANTS
    NoOrphanEntry
    SoleHolderConnected
