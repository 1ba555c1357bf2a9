\* Expected violation: a pod leaves an address that another pod has.
SPECIFICATION Spec
CONSTANTS
    p1 = p1
    p2 = p2
    a1 = a1
    a2 = a2
    u1 = u1
    NoPod = NoPod
    MyNS = "internet"
    MyName = "gw"
    Pods <- TwoPods
    IPs <- TwoIPs
    MaxAddrs = 2
    Supported <- TwoIPs
    PodSpecs <- ClientsOnly
    StableAddresses = FALSE
    Faulty <- NotGet
    MaxFaults = 0
    MaxCrashes = 0
PROPERTIES
    NeverCutsOther
