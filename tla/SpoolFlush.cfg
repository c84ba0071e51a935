\* One entry, two processes, either of which may exit for good.
SPECIFICATION FairSpec
CONSTANTS
    Procs = {p1, p2}
    MaxEntries = 1
    MaxFiles = 1
    MaxCrashes = 2
PROPERTIES
    SpooledIsLogged
CHECK_DEADLOCK FALSE
