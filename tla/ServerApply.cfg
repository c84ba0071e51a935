\* Two applies, the auth writer and one relaunch.
SPECIFICATION Spec
CONSTANTS
    Appliers = {a1, a2}
    AuthWriter = aw
    Changes = {}
    None = None
    MaxPort = 2
    MaxGeneration = 2
    MaxIssue = 0
    MaxCrashes = 1
SYMMETRY Symmetry
INVARIANTS
    LanNeverOpenWithoutLogin
    RunningServerIsTheSavedOne
