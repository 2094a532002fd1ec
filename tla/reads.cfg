SPECIFICATION ReadsSpec
CONSTANTS
    BASE = 2
    MAX_UINT120 = 3
    MAX_UINT128 = 3
    MAX_UINT32 = 9
    Account = {1, 2}
    Operator = {t1}
    Delegate = {}
    Oracle = {o1}
    Funder = {f1}
    Price = {3}
    Rate <- EitherPays
    MinCollateral = {2}
    Amount = {1}
    TokenSupply = 2
    StartTime = 1
    MaxTime = 2
    MaxAccounts = 2
    MaxTrades = 1
    t1 = t1
    t2 = t2
    o1 = o1
    o2 = o2
    f1 = f1
    f2 = f2
    ReadAccount = {1}
    RatioUnit = 20
    PARTS = 1
INVARIANTS
    BlockReadsExact
PROPERTIES
    LatestReadsExactUnlessSettled
