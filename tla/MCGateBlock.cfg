CONSTANTS
    p1 = p1
    p2 = p2
    f1 = f1
    f2 = f2
    Pulls <- OnePull
    Fetches <- OneFetch
    Budget = 2
    Hour = 2
    Retention = 3
    MaxTime = 3
SPECIFICATION Spec
PROPERTY CaughtUpWaitKept
