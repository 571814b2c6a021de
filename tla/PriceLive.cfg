SPECIFICATION FairSpec
CONSTANTS
    Instruments <- OneStock
    PluginOrder <- TwoPlugins
    LastDay = 3
    Currency <- InDollars
    FXPair <- NoPairs
    Accepts <- TakesAll
    HistDays <- OneDayOfM
    Quotes <- MissesDayOne
    FlipMenu <- OpenOrClosed
    MaxEdits = 0
    MaxFaults = 1
    MaxCrashes = 1
PROPERTY GapsAnswered
PROPERTY ImplementsCache
