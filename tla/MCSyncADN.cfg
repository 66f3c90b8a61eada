CONSTANTS
    N = 4
    KindOf <- KindsWalk
    Sefaz = FALSE
    Modes <- BothModes
    MaxAttempts = 3
    MaxFaults = 4
SPECIFICATION Spec
INVARIANTS
    NoNSULost
PROPERTIES
    PolicyEndsWithInitialSync
