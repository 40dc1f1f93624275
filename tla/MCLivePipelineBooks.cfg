SPECIFICATION Spec
CONSTANTS
    Feeds = {"kalshi"}
    Markets = {"m1", "m2"}
    KalshiFrames <- KalshiAll
    PolymarketFrames <- None
    RingCap = 2
    SignalCap = 1
    Cooldown = 2
    Clock = {1}
    MaxFrames = 4
    MaxEpochs = 1
    MaxRetries = 0
INVARIANTS NoGapTrusted HaltedUntilSnapshot
CHECK_DEADLOCK FALSE
