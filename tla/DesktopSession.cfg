CONSTANTS
    Procs = {p1, p2}
    Ops <- AllOps
    Roles = {admin, viewer}
    Admin = admin
    NoRole = noRole
    FirstId = 1
    MaxSeq = 1
    MaxEpoch = 1
    MaxId = 2
    \* The neighbour of the default port is one the system keeps; the second
    \* start meets what two changes and a start cut short left.
    MaxPort = 3
    Reserved = {2}
    Span = 2
    MaxStarts = 2
    MaxEdits = 2
    None = none
SYMMETRY Symmetry
SPECIFICATION PartsSpec
INVARIANTS
    ModeIsFollowed
    ChecksActOnTheSlot
    LaunchFollowsTheStore
PROPERTIES
    NoSlowCommandUndoes
CHECK_DEADLOCK FALSE
