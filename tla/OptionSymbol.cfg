SPECIFICATION Spec
CONSTANTS
    Worlds <- NamelessWorlds
    Plugins = {"eodhd", "massive"}
    FirstTrade = 1
    Lookahead = 1
    FirstDay = 2
    LastDay = 3
PROPERTY NamelessIsReported
CHECK_DEADLOCK FALSE
