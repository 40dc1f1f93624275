CONSTANTS
    PPM = 100
    ODDS_ONE = 100
    BPS = 100
    MAX_CHUNKS = 4
    MAX_SEARCH_STEPS = 8
    OutcomeCount = 2
    VenueCount = 2
    VenueFees <- StakeAndCommission
    VenueIncrements <- OneAndThree
    VenueSurvival <- MostOfIt
    Budget = 22
    MAX_BANKROLL_VENUES = 2
    FrontRun <- RestAndHalf
    Latency <- TwoAndFive
    MarketBooks <- SmallMarkets
    InitialPerVenue <- SmallBalances
    Policies <- DisabledOrNear
    TapePrices <- LowAndHigh
    DECAY = 3
    DECAY_CAP = 99
    MaxSignals = 3
SPECIFICATION Spec
INVARIANTS BankrollFollowsReports HedgesAreHedged PromiseKept
PROPERTY StandsDown
CHECK_DEADLOCK FALSE
