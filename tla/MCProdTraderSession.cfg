CONSTANTS
    Markets = {m1, m2}
    Keys = {k1, k2}
    Stakes = {3}
    Edges = {1}
    Balances = {6}
    Policies <- SmallOrSingle
    DefaultPolicy <- Single
    StoreOutcomes = {"ok"}
    Handlings = {"full"}
    Live = TRUE
    MaxTrades = 2
    MaxStarts = 2
SPECIFICATION FairSpec
PROPERTIES LimitsHold SettledIsClosed
CHECK_DEADLOCK FALSE
