CONSTANTS
    u1 = u1
    u2 = u2
    Users = {u1, u2}
    InitialIds <- BothOrNone
    FirstId = 3
    Subjects = {u1}
    Tokens = {t1, t2}
    Procs = {p1, p2}
    Roles = {admin, viewer}
    Admin = admin
    NoAccount = NoAccount
    NoRecord = NoRecord
    NoStamp = NoStamp
    NoToken = NoToken
    NoUser = NoUser
    MaxId = 3
    MaxHash = 2
    MaxEpoch = 1
SYMMETRY Symmetry
SPECIFICATION Spec
INVARIANTS
    LiveSessionProvesCurrentPassword
    HandlerReadsValidatedRole
PROPERTIES
    AcceptedIsWarranted
    ValidationKeepsLiveSessions
CHECK_DEADLOCK FALSE
