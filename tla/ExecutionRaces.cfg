SPECIFICATION Spec
CONSTANTS
    Ticks = {t, u}
    Polls = {p}
    Cancels = {c}
    Stops = {s}
    NoActor = NoActor
    Size = 2
    Bucket = "net"
    LostThreshold = 2
    MinAbsentCycles = 2
    VenueEnds = {"canceled", "expired"}
    Dedupe = FALSE
    Faults = {"transport", "profile", "blocker"}
    MaxFaults = 2
INVARIANTS
    RowBehindVenue
    NoFillLost
    CanceledIsOver
    RejectedIsNotLive
    PlacedOnce
CHECK_DEADLOCK FALSE
