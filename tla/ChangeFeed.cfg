\* One write, one broken connection, dropped request or failed load.
SPECIFICATION LiveSpec
CONSTANTS
    Capacity = 1
    MaxWrites = 1
    MaxFaults = 1
PROPERTIES
    ShownBecomesCurrent
    RevokedStreamEnds
CHECK_DEADLOCK FALSE
