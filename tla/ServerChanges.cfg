\* Applies and the auth writer under the reach check, while a firewall change
\* waits for UAC.
SPECIFICATION FairSpec
CONSTANTS
    Appliers = {a1}
    AuthWriter = aw
    Changes = {c1}
    None = None
    MaxPort = 1
    MaxGeneration = 2
    MaxIssue = 1
    MaxCrashes = 0
INVARIANTS
    ReachCheckFollowsTheListener
    CurrentChangeWasConfirmed
PROPERTIES
    EveryApplyReturns
