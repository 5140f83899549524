SPECIFICATION FairSpec
CONSTANTS
    Ticks = {t}
    Polls = {p}
    Cancels = {}
    Stops = {}
    NoActor = NoActor
    Size = 2
    Bucket = "net"
    LostThreshold = 2
    MinAbsentCycles = 2
    VenueEnds = {"canceled", "expired"}
    Dedupe = TRUE
    Faults = {"transport", "crash"}
    MaxFaults = 2
PROPERTIES
    ClosesAtLast
CHECK_DEADLOCK FALSE
