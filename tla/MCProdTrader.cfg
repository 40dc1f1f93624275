CONSTANTS
    Markets = {m1, m2}
    Keys = {k1, k2}
    Stakes = {1, 3}
    Edges = {1}
    Balances = {2}
    Policies <- OnlySmall
    DefaultPolicy <- Single
    StoreOutcomes = {"ok", "saveFails"}
    Handlings = {"full", "rejected"}
    Live = TRUE
    MaxTrades = 2
    MaxStarts = 2
SPECIFICATION Spec
INVARIANTS HedgedOrFlat NoOrderUnrecorded FillsStayPolled CapitalConserved
PROPERTIES RestartIsClean
SYMMETRY Symmetry
CHECK_DEADLOCK FALSE
