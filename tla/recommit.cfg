SPECIFICATION Spec
CONSTANTS
    Sends = {1, 2}
    Networks = {1, 1001}
    Markets = {"market"}
    Market = "market"
    Addresses <- MCAddresses
    Deployed <- MCDeployed
    SendOptions <- NoSendOptions
    Confirmations = {0, 1}
    MaxDepth = 1
    Operations = {o1}
    Account = {1, 2, 3}
    FillParties <- MCFills
    LiquidateParties <- MCLiquidations
    CallsOf <- MCCallsOf
    OptionsOf <- MCOptionsOf
    NoOptions = NoOptions
    DirectTrades <- DirectCalls
    WrapperCalls <- OneWrapper
    TokenCalls <- OneTokenCall
    Amounts = {2}
    MaxTrades = 2
    HasOrders = TRUE
INVARIANTS
    CommittedMeansSent
CHECK_DEADLOCK FALSE
