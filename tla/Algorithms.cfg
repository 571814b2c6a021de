SPECIFICATION Spec
CONSTANTS
    LastDay = 5
    MaxNeeded = 2
    MaxCached = 2
    MaxDeclared = 3
    MaxPostings = 4
    MaxSides = 4
    Money = 2
    BandNum = 1
    BandDen = 4
    Window = 3
    RefSpan = 4
INVARIANT RangesAreExact
INVARIANT LocalPartitionIsGlobal
INVARIANT PurchasesReconcile
INVARIANT StrictlyBestMeet
INVARIANT WeightsFollowTypes
INVARIANT FlowsExplainPositions
INVARIANT ValuationIsOfHoldings
CHECK_DEADLOCK FALSE
