SPECIFICATION Spec
CONSTANTS
    Cmd = {a, b, c}
    RunOnly = {b}
    Asking = {a}
    Guide = {}
    Proc = {p}
    Mortal = {}
    Failing = {}
    NoOne = NoOne
    MaxQueue = 2
PROPERTIES
    DecisionHolds
CHECK_DEADLOCK FALSE
