SPECIFICATION RealtimeSpec
CONSTANTS
    bid = bid
    ask = ask
    t1 = t1
    t2 = t2
    t3 = t3
    Levels <- BothSides
    Quantities <- UpToTwoLots
    BookAt <- BookHistory
    Tasks <- ThreeTasks
    FirstTask = t1
    MaxAttempts = 2
    BufferMax = 2
    StreamMax = 3
    MaxId = 7
    Disconnects = TRUE
    FetchFaults = TRUE

    market = market
    trades = trades
    depth = depth
    poller = poller
    Carriers <- OneCarrier
    StreamsOf <- TwoStreams
    OtherTasks = {poller}
    Poller = poller
    Book = depth
    NoConnection = NoConnection
    MaxResyncs = 1
    MaxDrops = 1
    MaxRefusals = 1
    MaxFaults = 1
INVARIANTS
    TypeOK
    SyncedBookIsExact
PROPERTIES
    StopLeavesOnlyResyncs
    ImplementsFeed
    EveryGapIsAnswered
    FedUntilStopped
CHECK_DEADLOCK FALSE
