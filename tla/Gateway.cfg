\* A dual-stack gateway with two clients, killed once at any stage; one
\* AddPeer, AddClient or DelPeer of the watcher fails.
SPECIFICATION FairGatewaySpec
CONSTANTS
    p1 = p1
    p2 = p2
    a = a
    b = b
    NoPod = NoPod
    Local <- Dual
    MaxCrashes = 1
    MyNS = "internet"
    MyName = "gw"
    Pods <- TwoPods
    IPs <- Addresses
    Family <- FamilyOf
    MaxAddrs = 2
    PodSpecs <- ClientsOnly
    StableAddresses = TRUE
    Faulty <- KernelCalls
    MaxFaults = 1
INVARIANTS
    ServingConfigured
    ClientSetUp
PROPERTIES
    ConfiguredRecovers
    ClientEventuallySetUp
    GoneEventuallyForgotten
