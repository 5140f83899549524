SPECIFICATION FairSpec
CONSTANTS
    Cmd = {a, b}
    RunOnly = {}
    Asking = {}
    Guide = {}
    Proc = {p, q}
    Mortal = {p}
    Failing = {q}
    NoOne = NoOne
    MaxQueue = 1
PROPERTIES
    OrphansSurface
    Drains
CHECK_DEADLOCK FALSE
