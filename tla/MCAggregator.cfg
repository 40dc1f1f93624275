CONSTANTS
    PPM = 100
    ODDS_ONE = 100
    BPS = 100
    MAX_CHUNKS = 4
    MAX_SEARCH_STEPS = 8
    OutcomeCount = 2
    VenueCount = 2
    VenueFees <- StakeAndCommission
    VenueIncrements <- OneAndThree
    VenueSurvival <- AllAndMost
    Budget = 22
    Books <- SmallBooks
SPECIFICATION EngineSpec
INVARIANTS GuaranteedWhateverSettles NeverWorseThanSingleQuote
