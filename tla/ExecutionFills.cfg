SPECIFICATION Spec
CONSTANTS
    Ticks = {t}
    Polls = {p}
    Cancels = {}
    Stops = {}
    NoActor = NoActor
    Size = 2
    Bucket = "net"
    LostThreshold = 2
    MinAbsentCycles = 2
    VenueEnds = {"canceled", "expired"}
    Dedupe = TRUE
    Faults = {}
    MaxFaults = 0
INVARIANTS
    FillsNotDoubled
CHECK_DEADLOCK FALSE
