SPECIFICATION Spec
CONSTANTS
    Cmd = {a, b}
    RunOnly = {b}
    Asking = {a}
    Guide = {g}
    Proc = {p, q}
    Mortal = {p}
    Failing = {p}
    NoOne = NoOne
    MaxQueue = 2
INVARIANTS
    OneAtATime
    LeaseMatchesTurn
    SuccessIsReal
    StopWins
    GuidesSettle
    NoStranding
PROPERTIES
    SettledStays
    RestartAsks
CONSTRAINT Pairwise
CHECK_DEADLOCK FALSE
