\* Two processes share the directory; one entry more than the cap.
SPECIFICATION Spec
CONSTANTS
    Procs = {p1, p2}
    MaxEntries = 2
    MaxFiles = 1
    MaxCrashes = 1
SYMMETRY Symmetry
\* States no step can tell apart.
VIEW View
INVARIANTS
    LoggedOnce
    CapHolds
CHECK_DEADLOCK FALSE
