\* The process may end with the database closed and nothing left to do.
SPECIFICATION Spec
CHECK_DEADLOCK FALSE
CONSTANTS
    c1 = c1
    c2 = c2
    Calls <- MCCalls
    Keys <- MCKeys
    KeyOf <- MCKeyOf
    Bound <- MCBound
    Paths <- MCPaths
    RootOf <- MCRootOf
    Root = "A"
    FirstPath = "matriz"
    MaxAsked = 2
INVARIANTS TypeOK InstallAlone RecordedBeforeClose EditsKept
PROPERTIES QuitConfirmed CancelEnds ShutdownEnds
