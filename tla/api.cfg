SPECIFICATION ApiSpec
CONSTANTS
    BASE = 2
    MAX_UINT120 = 4
    MAX_UINT128 = 4
    MAX_UINT32 = 9
    RatioUnit = 20
    PARTS = 1
    SALT = 4
    MakerFee <- MCMakerFee
    SmallFee <- MCSmallFee
    TakerFee <- MCTakerFee
    SmallAmount = 2
    Calls = {1, 2, 3}
    Placements <- MCPlacements
    CallsOf <- MCCallsOf
    Markets = {"PBTC-USDC"}
    NoFee = NoFee
    NoSalt = NoSalt
    RandomSalts = {1, 2}
    Wallet <- MCWallet
    Networks = {1, 42}
    ExchangeNetwork = 1
    MaxClock = 2
INVARIANTS
    ApiTypeOK
    RetriesFillOnce
    SignedRequestsAreValid
CHECK_DEADLOCK FALSE
