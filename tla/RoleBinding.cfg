\* Three Egresses, four edits and one failing call or restart.
SPECIFICATION FairSpec
CONSTANTS
    e1 = e1
    e2 = e2
    e3 = e3
    E <- Names
    NS <- NamespaceOf
    Leftovers <- Bindings
    MaxEdits = 4
    MaxFaults = 1
INVARIANT QuietBound
PROPERTY Settles
CHECK_DEADLOCK FALSE
