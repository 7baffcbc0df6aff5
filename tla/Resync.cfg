SPECIFICATION Spec
CONSTANTS
    Unset = Unset
    BTC = BTC
    ETH = ETH
    Symbols <- TwoSymbols
    Scale <- MCScale
    Qtys <- MCQtys
    MaxFills = 4
    MaxStops = 2
SYMMETRY Symmetry
INVARIANTS
    TypeOK
    NothingDoubled
PROPERTIES
    FirstSyncIsExact
    SyncIsIdempotent
    SyncCatchesUp
    ArchiveIsFinal
CHECK_DEADLOCK FALSE
