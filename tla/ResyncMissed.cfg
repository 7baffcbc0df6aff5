SPECIFICATION Spec
CONSTANTS
    Unset = Unset
    BTC = BTC
    ETH = ETH
    Symbols <- OneSymbol
    Scale <- MCScale
    Qtys <- MCQtys
    MaxFills = 4
    MaxStops = 3
PROPERTY SyncSynchronizes
CHECK_DEADLOCK FALSE
