SPECIFICATION IssuanceSpec
CONSTANTS
    Parts <- BothParts

    NoPosition = NoPosition
    ExecutionWindow = 1
    ApprovedVolume = 1
    Trades <- UpToTwo
    Positions <- UpToTwo
    GuardMode = "HEDGING"
    BrokerNets = FALSE
    NoDoc = NoDoc
    DayLength = 2
    RecSides <- Buys
    MaxRecs = 2
    MaxTime = 4
    MaxDeals = 3
    Lots <- OneLot
    Profits <- PlusMinus
    Reversals = FALSE
    CloseBys = TRUE
    HistoryFaults = TRUE
    ReadFaults = FALSE
    WriteFaults = FALSE
    CycleCrashes = TRUE

    p1 = p1
    p2 = p2
    r1 = r1
    r2 = r2
    r3 = r3
    a = a
    b = b
    c = c
    trend = trend
    breakout = breakout
    Procs <- OneProc
    Requests <- ThreeRequests
    Ids <- OneId
    Families <- TwoFamilies
    NoFamily = NoFamily
    Drains = TRUE
    Crashes = TRUE
    DiskFaults = TRUE
    ReceiptsVanish = TRUE
SYMMETRY RequestSymmetry
INVARIANTS
    NoSharedPosition
    NotFilledIsTrue
    ClosedMeansFlat
    IssuedOnce
    ToldIsRecorded
    ConnectionIsBracketed
    RunsOnlyWhenStarted
PROPERTIES
    CyclesRunInAsOfOrder
CHECK_DEADLOCK FALSE
