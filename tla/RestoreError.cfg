SPECIFICATION PartsSpec
CONSTANTS
    Parts = {"backup"}
    Reqs = {r1, r2}
    Conns = {r1, r2}
    Names = {n1, n2, n3}
    MaxWrites = 1
    MaxRestores = 1
    MaxStarts = 2
    MaxIds = 2
    MaxUploads = 2
    MaxSwaps = 2
    MaxFaults = 1
    MaxUsers = 3
    Accounts = {u1, u2}
    MaxChanges = 1
    \* Paths below one drive; two SIDs nobody trusts.
    Trusted = {"admins"}
    CreatorOwner = "creator"
    Sids = {"admins", "everyone", "creator"}
    Drives = {"C"}
    HelperName = "helper"
    MainName = "main"
    WriteRights = {"write"}
    None = None
    Null = Null
SYMMETRY Symmetry
INVARIANTS
    UntouchedOnError
CHECK_DEADLOCK FALSE
