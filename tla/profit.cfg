SPECIFICATION LiquidationsSpec
CONSTANTS
    BASE = 2
    MAX_UINT120 = 12
    MAX_UINT128 = 12
    MAX_UINT32 = 9
    Account = {1, 2, 3}
    Operator = {t1, t2, p1}
    Delegate = {}
    Oracle = {o1}
    Funder = {f1}
    Price = {5, 6}
    Rate <- LongsPay
    MinCollateral = {4}
    Amount = {0, 1, 2, 3, 4, 5, 6, 7, 8, 9, 10, 11, 12}
    TokenSupply = 11
    StartTime = 1
    MaxTime = 2
    MaxAccounts = 2
    MaxTrades = 1
    Liquidation = t1
    LiquidatorProxy = p1
    InsuranceFee = {1, 3}
    MaxPosition <- Limits
    t1 = t1
    p1 = p1
    t2 = t2
    o1 = o1
    f1 = f1
INVARIANTS
    ProxyTypeOK
PROPERTIES
    FeeIsShareOfProfit
    MaxPositionRespected
    ProxyImplementsLedger
