SPECIFICATION FairSpec
CONSTANTS
    Feeds = {"kalshi", "poly"}
    Markets = {"m1"}
    KalshiFrames <- KalshiFew
    PolymarketFrames <- PolymarketFew
    RingCap = 1
    SignalCap = 1
    Cooldown = 2
    Clock = {2, 4}
    MaxFrames = 3
    MaxEpochs = 1
    MaxRetries = 1
INVARIANTS InOrderOnce TapeFaithful SignalsSpaced
PROPERTIES EventsReachEngine
CHECK_DEADLOCK FALSE
