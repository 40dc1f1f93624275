CONSTANTS
    o1 = o1
    o2 = o2
    Orders = {o1, o2}
    LegChoices <- SomeLegs
    Fees = {1}
    Profits <- SomeProfits
    MaxFrames = 2
    MaxFaults = 1
SPECIFICATION FairSpec
INVARIANTS ProfitBookedOnce ClosedOnceAtTheEnd
PROPERTIES DoneOrdersClose
CHECK_DEADLOCK FALSE
