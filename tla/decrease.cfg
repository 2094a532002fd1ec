SPECIFICATION OrdersSpec
CONSTANTS
    BASE = 2
    MAX_UINT120 = 2
    MAX_UINT128 = 4
    MAX_UINT32 = 9
    Account = {1, 2}
    Operator = {t1, t2}
    Delegate = {}
    Oracle = {o1, o2}
    Funder = {f1}
    Price = {2}
    Rate <- NoFunding
    MinCollateral = {3}
    Amount = {1, 2}
    TokenSupply = 2
    StartTime = 1
    MaxTime = 1
    MaxAccounts = 2
    MaxTrades = 2
    OrdersTrader = t1
    Order <- CloseOnly
    Fill <- FreeFills
    Signed <- CloseOnly
    Anyone = 0
    t1 = t1
    t2 = t2
    o1 = o1
    o2 = o2
    f1 = f1
PROPERTIES
    CanceledForever
    DecreaseOnlyDecreases
