SPECIFICATION PartsSpec
CONSTANTS
    MaxId = 3
    Queries <- Filters
    BlockSize = 1
    LastBlock = 2
    MaxEpoch = 1
    MaxGens = 1
    MaxFaults = 1
    Params = {q1, q2}
    NoQuery = none
    LastListBlock = 1
    MaxWrites = 1
    MaxParams = 1
    Values = {v1, v2}
    Fallback = v1
    Nothing = nothing
    Corrupt = corrupt
    MaxEdits = 3
    MaxLoads = 2
    Keys = {a, b}
    PaneLocal = {b}
    Settles = {s, t}
    MaxInputs = 2
    MaxMounts = 1
    MaxRounds = 2
    Capacity = 1
    MaxFeedWrites = 2
    MaxFeedFaults = 1
INVARIANTS
    NothingIsForgotten
    ListsAreCurrent
    SavedIsStored
    NoInputIsLost
PROPERTIES
    ReadsOneSet
CHECK_DEADLOCK FALSE
