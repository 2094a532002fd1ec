SPECIFICATION ClientSpec
CONSTANTS
    BASE = 2
    MAX_UINT120 = 3
    MAX_UINT128 = 3
    MAX_UINT32 = 8
    MAX_ABS_VALUE = 2
    SwingTime = 3
    InverseMarket = TRUE
    Provider = {p1, p2}
    NewRate <- AskedRates
    ClientRate <- ClientRates
    StartTime = 1
    MaxTime = 7
    RatioUnit = 20
    PARTS = 2
    p1 = p1
    p2 = p2
SYMMETRY ProviderSymmetry
INVARIANTS
    TypeOK
    UpdatesSpeedLimited
    FullSwingTakesTime
    RetroactiveFundingBounded
PROPERTIES
    ClosestAllowedRate
    SimulationsHold
