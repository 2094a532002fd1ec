SPECIFICATION LiquidationSpec
CONSTANTS
    BASE = 2
    MAX_UINT120 = 3
    MAX_UINT128 = 4
    MAX_UINT32 = 9
    Account = {1, 2}
    Operator = {t1, t2}
    Delegate = {}
    Oracle = {o1}
    Funder = {f1}
    Price = {1, 3}
    Rate <- NoFunding
    MinCollateral = {3}
    Amount = {0, 1, 2, 3}
    TokenSupply = 3
    StartTime = 1
    MaxTime = 1
    MaxAccounts = 2
    MaxTrades = 2
    Liquidation = t1
    t1 = t1
    t2 = t2
    o1 = o1
    f1 = f1
INVARIANTS
    LiquidatedAccountsAccepted
PROPERTIES
    HealthyAccountsLeftAlone
    LiquidationKeepsRatio
