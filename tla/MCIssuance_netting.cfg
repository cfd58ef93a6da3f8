SPECIFICATION FairRequests
CONSTANTS
    Parts <- BothParts

    NoPosition = NoPosition
    ExecutionWindow = 1
    ApprovedVolume = 2
    Trades <- UpToTwo
    Positions <- UpToTwo
    GuardMode = "NETTING"
    BrokerNets = TRUE
    NoDoc = NoDoc
    DayLength = 2
    RecSides <- Buys
    MaxRecs = 2
    MaxTime = 4
    MaxDeals = 3
    Lots <- UpToTwo
    Profits <- Gains
    Reversals = TRUE
    CloseBys = FALSE
    HistoryFaults = TRUE
    ReadFaults = FALSE
    WriteFaults = FALSE
    CycleCrashes = TRUE

    p1 = p1
    p2 = p2
    r1 = r1
    r2 = r2
    r3 = r3
    a = a
    b = b
    c = c
    trend = trend
    breakout = breakout
    Procs <- TwoProcs
    Requests <- TwoRequests
    Ids <- TwoIds
    Families <- OneFamily
    NoFamily = NoFamily
    Drains = TRUE
    Crashes = TRUE
    DiskFaults = TRUE
    ReceiptsVanish = FALSE
INVARIANTS
    GenesisIsAlwaysRead
    OneUnresolved
    TypeOK
    AtMostOneCycle
PROPERTIES
    EveryRequestAnswered
    ImplementsPromise
CHECK_DEADLOCK FALSE
