SPECIFICATION Spec
CONSTANTS
    Rsv = {r1, r2}
    Cost <- MCCost
    Total <- MCTotal
    Capital = 3
    Floor = 0
    TTL = 1
    MaxAge = 1
    DefaultMaxAge = 1
    MaxTime = 3
    Faults = {}
INVARIANTS
    NoDoubleSpend
CHECK_DEADLOCK FALSE
