SPECIFICATION Spec
CONSTANTS
    Bridge = bridge
    Transfer = transfer
    Permit = permit
    Purse = purse
    Action = {bridge, transfer, permit}
    Worker = {w1, w2}
    Wallet = {purse}
    NoWallet = NoWallet
    NoAction = NoAction
    WalletOf <- MCWalletOf
    Parent <- MCParent
    Allowance = {permit}
    NeedsAllowance = {bridge}
    Grant = {1, 2}
    MaxQuote = 2
    Value <- MCValue
    Worth <- MCWorth
    Single = 3
    Total = 3
    Rolling = 3
INVARIANTS
    SentOnce
    WithinQuota
    LeaseHasReason
PROPERTIES
    NothingGivenBack
    AuthorizedSubmission
CONSTRAINT Few
SYMMETRY Callers
CHECK_DEADLOCK FALSE
