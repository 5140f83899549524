SPECIFICATION FairSpec
CONSTANTS
    Guards = {g1, g2}
    NoGuard = NoGuard
    LeaseLen = 2
    MaxFailures = 3
INVARIANTS
    OneGuardWorks
PROPERTIES
    LeaseIsKept
    AlwaysStepped
CHECK_DEADLOCK FALSE
