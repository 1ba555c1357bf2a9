\* Expected violation: one DelPeer of several fails once.
SPECIFICATION FairSpec
CONSTANTS
    p1 = p1
    p2 = p2
    a1 = a1
    a2 = a2
    u1 = u1
    NoPod = NoPod
    MyNS = "internet"
    MyName = "gw"
    Pods <- TwoPods
    IPs <- TwoIPs
    MaxAddrs = 2
    Supported <- TwoIPs
    PodSpecs <- ClientsOnly
    StableAddresses = TRUE
    Faulty <- DelCalls
    MaxFaults = 1
    MaxCrashes = 0
PROPERTIES
    GoneEventuallyReleased
