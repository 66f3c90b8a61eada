CONSTANTS
    N = 5
    KindOf <- KindsMixed
    Sefaz = TRUE
    Modes <- NormalOnly
    MaxAttempts = 3
    MaxFaults = 3
SPECIFICATION FairSpec
INVARIANTS
    TypeOK
    GiveUpIsEarned
    WaitSurvivesCancel
PROPERTIES
    CursorForward
    CaughtUpHonest
    FeedSpec
    NothingStalls
    InitialSyncEnds
