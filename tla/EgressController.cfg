\* One Egress, with edits by users and one failing call or restart.
SPECIFICATION FairSpec
CONSTANTS
    e1 = e1
    opt = opt
    strategy = strategy
    affinity = affinity
    None = None
    Unset = Unset
    Invalid = Invalid
    E <- Names
    NS <- Namespaces
    Specs <- SpecsOf
    Unfit <- UnfitFor
    MaxEdits = 3
    MaxFaults = 1
INVARIANT QuietServed
PROPERTY Settles
CHECK_DEADLOCK FALSE
