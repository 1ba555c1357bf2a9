\* Three kinds of nodes, and two stops of the installer or the node.
SPECIFICATION FairSpec
CONSTANTS
    Names <- Entries
    ConfName = "05-cilium"
    Found <- Directories
    ScanPeriod = 5
    MaxFaults = 2
INVARIANTS
    BinaryWhole
    FinishedLoaded
PROPERTY EventuallyInstalled
