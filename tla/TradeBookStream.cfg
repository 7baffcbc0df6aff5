SPECIFICATION Spec
CONSTANTS
    BTC = BTC
    ETH = ETH
    Symbols <- MCSymbols
    Scale <- MCScale
    Qtys <- MCQtys
    MaxQty = 2
    Prices <- MCPrices
    Accounts = {"stream"}
    FeeRate = 1
    Figures = {0, 2}
    Unset = Unset
    MaxFills = 3
SYMMETRY Symmetry
INVARIANT TradeShowsPosition
CHECK_DEADLOCK FALSE
