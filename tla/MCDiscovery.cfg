CONSTANTS
    Venues <- SomeVenues
    UnreadableTokens = {100}
    KalshiPageLimit = 3
    PolymarketPageLimit = 1
    MaxPages = 2
    MaxShifts = 1
SPECIFICATION Spec
INVARIANTS PairsHedge OpenGamesPair OutcomesPayAlike
CHECK_DEADLOCK FALSE
