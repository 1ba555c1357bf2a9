\* Expected violation: killed once in the middle of an Init.
SPECIFICATION FairSpec
CONSTANTS
    Local <- Dual
    MaxCrashes = 1
PROPERTIES
    Recovers
