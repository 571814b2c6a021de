SPECIFICATION Spec
CONSTANTS
    Instruments <- StocksAndPair
    PluginOrder <- OnePlugin
    LastDay = 2
    Currency <- OneInEuros
    FXPair <- EuroPair
    Accepts <- TakesAll
    HistDays <- NoLimit
    Quotes <- MissesDayOne
    FlipMenu <- EitherDay
    MaxEdits = 1
    MaxFaults = 1
    MaxCrashes = 0
INVARIANT CacheIsSound
INVARIANT SettledIsCovered
INVARIANT NotAskedInVain
