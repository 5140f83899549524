SPECIFICATION FairSpec
CONSTANTS
    Ticks = {t}
    Polls = {}
    Cancels = {c}
    Stops = {s}
    NoActor = NoActor
    Size = 2
    Bucket = "net"
    LostThreshold = 2
    MinAbsentCycles = 2
    VenueEnds = {"canceled", "expired"}
    Dedupe = FALSE
    Faults = {"transport", "blocker"}
    MaxFaults = 2
INVARIANTS
    InLockStep
    ReleasedMeansNoExposure
PROPERTIES
    TerminalIsFinal
    FilledIsConsumed
CHECK_DEADLOCK FALSE
