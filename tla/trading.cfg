SPECIFICATION Spec
CONSTANTS
    BASE = 2
    MAX_UINT120 = 2
    MAX_UINT128 = 4
    MAX_UINT32 = 9
    Account = {1, 2}
    Operator = {t1}
    Delegate = {2}
    Oracle = {o1}
    Funder = {f1}
    Price = {1, 3}
    Rate <- NoFunding
    MinCollateral = {2, 3}
    Amount = {0, 1, 2}
    TokenSupply = 2
    StartTime = 1
    MaxTime = 1
    MaxAccounts = 3
    MaxTrades = 2
    t1 = t1
    t2 = t2
    o1 = o1
    o2 = o2
    f1 = f1
    f2 = f2
INVARIANTS
    MemoryMatchesStorage
PROPERTIES
    NoTransactionUndercollateralizes
    NoTransactionMakesBadDebt
