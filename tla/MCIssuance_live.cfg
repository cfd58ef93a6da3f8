SPECIFICATION FairDocuments
CONSTANTS
    Parts <- DocumentsOnly

    NoPosition = NoPosition
    ExecutionWindow = 1
    ApprovedVolume = 1
    Trades <- UpToTwo
    Positions <- UpToTwo
    GuardMode = "HEDGING"
    BrokerNets = FALSE
    NoDoc = NoDoc
    DayLength = 2
    RecSides <- Buys
    MaxRecs = 2
    MaxTime = 4
    MaxDeals = 2
    Lots <- OneLot
    Profits <- Gains
    Reversals = FALSE
    CloseBys = FALSE
    HistoryFaults = TRUE
    ReadFaults = TRUE
    WriteFaults = TRUE
    CycleCrashes = TRUE

    p1 = p1
    p2 = p2
    r1 = r1
    r2 = r2
    r3 = r3
    a = a
    b = b
    c = c
    trend = trend
    breakout = breakout
    Procs <- TwoProcs
    Requests <- TwoRequests
    Ids <- TwoIds
    Families <- OneFamily
    NoFamily = NoFamily
    Drains = TRUE
    Crashes = TRUE
    DiskFaults = TRUE
    ReceiptsVanish = FALSE
INVARIANTS
    TrackingTypeOK
PROPERTIES
    MatchIsPermanent
    ClosedIsFinal
    PendingIsResolved
    ClosedPositionIsBooked
