CONSTANTS
    Venues <- TwoGames
    UnreadableTokens = {100}
    KalshiPageLimit = 3
    PolymarketPageLimit = 1
    MaxPages = 2
    MaxShifts = 1
SPECIFICATION Spec
INVARIANTS PairsReachTheEngine
CHECK_DEADLOCK FALSE
