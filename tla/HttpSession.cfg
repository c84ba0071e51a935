CONSTANTS
    Callers = {load}
    Users = {alice, bob}
    Grants = {viewer}
    NoOne = noOne
    MaxStale = 1
    MaxToken = 2
    MaxOutside = 2
    MaxLate = 1
SPECIFICATION Spec
SYMMETRY Symmetry
\* States no step can tell apart.
VIEW View
INVARIANTS
    ConfirmedIsCurrent
    NobodyIsForgotten
PROPERTIES
    SignalIsAnsweredAfresh
    LiveTokenStays
