CONSTANTS
    N = 3
    KindOf <- KindsPoison
    Sefaz = TRUE
    Modes <- NormalOnly
    MaxAttempts = 3
    MaxFaults = 0
SPECIFICATION Spec
INVARIANT IdleClockHonest
