SPECIFICATION Spec
CONSTANTS
    Holdings = {"h1", "h2"}
    Best <- BestDef
    Sessions = {"s1", "s2"}
    Worlds <- WorldsDef
    Plugins = {"a", "b", "c", "d"}
    Builds <- BuildsDef
    Bare = {"d"}
    Files <- FilesDef
    Chosen <- ChosenDef
    MaxSteps = 5
    Providers <- ProvidersDef
    Currencies <- CurrenciesDef
    GapStart = 1
    LastMonth = 4
    MaxFaults = 1
    MaxImports = 1
    Procs = {"old", "new"}
    Versions <- VersionsDef
    MaxLost = 2
INVARIANT PadIsTrue
INVARIANT SchemaIsSound
PROPERTY ArchiveKeepsDeclarations
PROPERTY RestoreIsFaithful
PROPERTY InflationCatchesUp
PROPERTY StartupEnds
CHECK_DEADLOCK FALSE
