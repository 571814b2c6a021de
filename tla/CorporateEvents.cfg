SPECIFICATION Spec
CONSTANTS
    Worlds <- MCWorlds
    Plugins = {"eodhd", "massive"}
    FirstTrade = 1
    Lookahead = 1
    FirstDay = 2
    LastDay = 3
INVARIANT CoveredIsStored
INVARIANT NamesHold
INVARIANT StrikeIsTheMarkets
INVARIANT AdjustedAtRest
 
CHECK_DEADLOCK FALSE
