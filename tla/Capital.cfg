SPECIFICATION FairSpec
CONSTANTS
    Rsv = {r1, r2}
    Cost <- MCCost
    Total <- MCTotal
    Capital = 4
    Floor = 1
    TTL = 1
    MaxAge = 1
    DefaultMaxAge = 1
    MaxTime = 3
    Faults = {"attach", "profile", "exception"}
INVARIANTS
    NoOvercommit
    TtlSparesLiveOrders
PROPERTIES
    SettledIsFinal
    ImplementsLedger
    NoLeak
CHECK_DEADLOCK FALSE
