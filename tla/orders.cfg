SPECIFICATION OrdersMarketSpec
CONSTANTS
    BASE = 2
    MAX_UINT120 = 4
    MAX_UINT128 = 4
    MAX_UINT32 = 9
    Account = {1, 2}
    Operator = {t1}
    Delegate = {}
    Oracle = {o1}
    Funder = {f1}
    Price = {1, 3}
    Rate <- NoFunding
    MinCollateral = {2}
    Amount = {0, 1, 2, 3, 4}
    TokenSupply = 4
    StartTime = 1
    MaxTime = 2
    MaxAccounts = 2
    MaxTrades = 2
    OrdersTrader = t1
    Order <- ChainOrders
    Fill <- ChainFills
    Signed <- ChainSigned
    ClientOrder <- ClientLimited
    ClientFill <- ClientFills
    RatioUnit = 20
    PARTS = 2
    SALT = 4
    MakerFee <- MCMakerFee
    SmallFee <- MCSmallFee
    TakerFee <- MCTakerFee
    SmallAmount = 2
    Anyone = 0
    t1 = t1
    t2 = t2
    o1 = o1
    o2 = o2
    f1 = f1
INVARIANTS
    OrdersTypeOK
    PositionsComeFromFills
    EstimatesAreConservative
PROPERTIES
    LimitsRespected
    FillsAsPredicted
