\* Two failures or timeouts, the attempts before and after them in the same
\* network namespace or in new ones, and one deletion.
SPECIFICATION FairSpec
CONSTANTS
    ll = ll
    pa = pa
    pb = pb
    x = x
    y = y
    q = q
    z = z
    Addrs <- AllAddrs
    Family <- FamilyOf
    LinkLocal <- LinkLocals
    Private <- Privates
    Egress <- EgressNames
    Gateway <- GatewayOf
    None = None
    NotCIDR = NotCIDR
    Offers <- OffersOf
    MaxDeletes = 1
    Pods <- PodsToAdd
    MaxFaults = 2
INVARIANT Routed
PROPERTY EventuallySetUp
CHECK_DEADLOCK FALSE
