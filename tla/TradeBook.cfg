SPECIFICATION Spec
CONSTANTS
    BTC = BTC
    ETH = ETH
    Symbols <- MCSymbols
    Scale <- MCScale
    Qtys <- MCQtys
    MaxQty = 2
    Prices <- MCPrices
    Accounts = {"mock", "binance", "bybit", "stream"}
    FeeRate = 1
    Figures = {0, 2}
    Unset = Unset
    MaxFills = 5
SYMMETRY Symmetry
INVARIANTS
    TypeOK
    NetExposureIsPosition
    ReducingAccountShowsPosition
    NeverOverclosed
    MoneyAddsUp
PROPERTY ClosedTradesAreFinal
CHECK_DEADLOCK FALSE
