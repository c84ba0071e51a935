SPECIFICATION PartsSpec
CONSTANTS
    \* A third session of publicViewer pushes out its first.
    publicViewer = publicViewer
    kiosk = kiosk
    Kinds = {publicViewer, kiosk}
    Procs = {p1, p2}
    MaxSessions <- Caps
    Account = account
    None = none
    MaxTokens = 3
    MaxRevokes = 2
    Logins = {t1, t2, t3}
    Users = {p1, p2}
    Ips = {i1}
    MaxFailures = 2
    MaxIpFailures = 3
    Lockout = 2
    MaxPerIp = 3
    MaxTotal = 3
    Nobody = nobody
    \* Both clocks run for two ticks, as long as a lockout and a block last.
    MaxLoginNow = 2
    MaxNow = 3
    Addrs = {t1, t2, t3}
    Cap = 2
    Failures = 2
    Window = 2
    MaxChecks = 2
    \* A token is good for one tick of the two; one listener replaces another.
    Lan = {p1, p2}
    Loopback = loopback
    Ttl = 1
    MaxRecords = 1
    MaxCheckNow = 2
    MaxIssues = 2
    MaxListeners = 1
    MaxRequests = 1
    \* Two calls of the command and the uninstaller, two helpers of the
    \* three at work; one change by others
    \* and one fault at any moment.
    Calls = {p1, p2}
    Other = uninstaller
    MaxEdits = 1
    MaxHelpers = 2
    MaxFaults = 1
SYMMETRY Symmetry
INVARIANTS
    NoGrantWhileClosed
    GrantsAreCapped
    
    ReachCheckIsSound
    RuleAnswersAreTrue
PROPERTIES
    OnlyOwnRulesAreRemoved
CHECK_DEADLOCK FALSE
