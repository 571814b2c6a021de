SPECIFICATION FairSpec
CONSTANTS
    RowOf <- EventRows
    Uploads <- EventUploads
    Appends <- EventAppends
    MoneyComms = {"GBP"}
    MaxWrites = 3
    MaxCrashes = 1
    Money = 2
    BandNum = 1
    BandDen = 4
    Window = 3
    RefSpan = 4
INVARIANT TransactionsCommit
INVARIANT DerivedIsCurrent
INVARIANT LinkedSidesCancel
INVARIANT StoredIsLatest
PROPERTY GroupingSettles
CHECK_DEADLOCK FALSE
