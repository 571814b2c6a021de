SPECIFICATION Spec
CONSTANTS
    RowOf <- FileRows
    Uploads <- FileUploads
    Appends <- FileAppends
    MoneyComms = {"GBP"}
    MaxWrites = 3
    MaxCrashes = 1
    Money = 2
    BandNum = 1
    BandDen = 4
    Window = 3
    RefSpan = 4
CHECK_DEADLOCK FALSE
INVARIANT FilesStayApart
