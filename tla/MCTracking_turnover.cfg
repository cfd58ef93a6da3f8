SPECIFICATION TrackingSpec
CONSTANTS
    NoPosition = NoPosition
    ExecutionWindow = 1
    ApprovedVolume = 1
    Trades <- One
    Positions <- One
    GuardMode = "NETTING"
    BrokerNets = TRUE
    NoDoc = NoDoc
    DayLength = 2
    RecSides <- Buys
    MaxRecs = 2
    MaxTime = 4
    MaxDeals = 3
    Lots <- UpToTwo
    Profits <- Gains
    Reversals = TRUE
    CloseBys = FALSE
    HistoryFaults = FALSE
    ReadFaults = FALSE
    WriteFaults = FALSE
    CycleCrashes = FALSE
INVARIANTS
    ClosedMeansFlat
