SPECIFICATION TrackingSpec
CONSTANTS
    NoPosition = NoPosition
    ExecutionWindow = 1
    ApprovedVolume = 1
    Trades <- UpToTwo
    Positions <- One
    GuardMode = "HEDGING"
    BrokerNets = FALSE
    NoDoc = NoDoc
    DayLength = 2
    RecSides <- Buys
    MaxRecs = 2
    MaxTime = 4
    MaxDeals = 2
    Lots <- OneLot
    Profits <- Gains
    Reversals = FALSE
    CloseBys = FALSE
    HistoryFaults = FALSE
    ReadFaults = TRUE
    WriteFaults = FALSE
    CycleCrashes = FALSE
PROPERTIES
    NotFilledIsFinal
