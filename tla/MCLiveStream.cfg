CONSTANTS
    Kinds <- PaperThenProd
    RingCap = 2
    FillCap = 2
    MaxItems = 2
    StaleAfter = 2
    FlushRecords = 2
    MaxAttempts = 2
    AlarmAfter = 1
    MaxRows = 2
    MaxStats = 1
    MaxFaults = 1
    MaxBacklog = 0
    MaxInbox = 0
SPECIFICATION FairSpec
INVARIANTS CountedOnce GapsAreReported ViewerAgrees NoRowTwiceOnScreen NeverFalselyStale
PROPERTIES SilenceIsNoticed
CHECK_DEADLOCK FALSE
