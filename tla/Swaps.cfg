SPECIFICATION FairSpec
CONSTANTS
    Swap = {s1, s2}
    NoSwap = NoSwap
    bsc = bsc
    Chain = {bsc}
    ChainOf <- MCChainOf
    Early = {s1}
    Worker = {w1, w2}
    MaxFaults = 2
INVARIANTS
    SentOnce
    OneOnItsWay
    VerdictIsTrue
    OperatorObeyed
    BookedOnce
CHECK_DEADLOCK FALSE
PROPERTIES
    ReceiptsArrive
